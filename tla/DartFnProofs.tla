---------------------------- MODULE DartFnProofs -----------------------------
(***************************************************************************)
(* Dart closures and objects in Rust hands, for any isolates, objects,     *)
(* clones and calls: persistent handles are freed once and not early, as   *)
(* BaseArc has it, and a future gets the output of its own call until an   *)
(* id in use is given out again, which takes more calls than there are ids.*)
(*                                                                         *)
(* The proof works with the set of messages in a port instead of the       *)
(* sequence: OpaqueInv is about boxes, FnInv about calls, and a step of    *)
(* one half changes little of the other.                                   *)
(***************************************************************************)
EXTENDS DartFn, FiniteSetTheorems, TLAPS

LEMMA MessageFacts ==
  /\ \A o, p \in Objects : DropMessage(o) = DropMessage(p) => o = p
  /\ \A k, l \in Calls : InvokeMessage(k) = InvokeMessage(l) => k = l
  /\ \A o \in Objects, k \in Calls : DropMessage(o) # InvokeMessage(k)
  /\ \A o \in Objects : DropMessage(o) \in Messages
  /\ \A k \in Calls : InvokeMessage(k) \in Messages
  /\ \A x \in Messages : \/ \E o \in Objects : x = DropMessage(o)
                         \/ \E k \in Calls : x = InvokeMessage(k)
  BY DEF Messages, DropMessage, InvokeMessage

LEMMA IdFacts ==
  /\ 1 % NumIds \in Ids /\ 0 \in Ids
  /\ \A n \in Ids : NextId(n) \in Ids
  <1>1. NumIds \in Nat /\ NumIds > 0
    BY DartFnAssumption
  <1>2. \A n \in Nat : n % NumIds \in 0 .. NumIds - 1
    BY <1>1, SMT
  <1>3. 0 \in Ids
    BY <1>1 DEF Ids
  <1>4. \A n \in Ids : n + 1 \in Nat
    BY <1>1 DEF Ids
  <1> QED BY <1>2, <1>3, <1>4 DEF Ids, NextId

(* The set of messages after each of the changes to a port. *)
LEMMA MailPosted ==
  ASSUME mail \in [Isolates -> Seq(Messages)], Once,
         NEW i \in Isolates, NEW m \in Messages, m \notin Mail[i], Post(i, m)
  PROVE  /\ mail' \in [Isolates -> Seq(Messages)] /\ Once'
         /\ \A j \in Isolates :
              Mail'[j] = IF j = i /\ i \in open THEN Mail[j] \cup {m} ELSE Mail[j]
  <1>1. \A j \in Isolates : mail'[j] = IF j = i /\ i \in open THEN Append(mail[i], m) ELSE mail[j]
    BY DEF Post
  <1>2. Append(mail[i], m) \in Seq(Messages)
    OBVIOUS
  <1>3. mail' \in [Isolates -> Seq(Messages)]
    BY <1>2 DEF Post
  <1> DEFINE s == mail[i]
             r == Append(mail[i], m)
  <1>4. /\ s \in Seq(Messages) /\ Len(s) \in Nat
        /\ DOMAIN s = 1 .. Len(s) /\ DOMAIN r = 1 .. Len(s) + 1
        /\ \A n \in 1 .. Len(s) : r[n] = s[n]
        /\ r[Len(s) + 1] = m
    OBVIOUS
  <1>5. \A n \in DOMAIN s : s[n] # m
    BY DEF Mail, Elements
  <1>6. \A n, p \in DOMAIN r : r[n] = r[p] => n = p
    <2> HIDE DEF s, r
    <2>1. \A n, p \in DOMAIN s : s[n] = s[p] => n = p
      BY DEF Once, s
    <2> QED BY <1>4, <1>5, <2>1
  <1>7. Elements(r) = Elements(s) \cup {m}
    <2> HIDE DEF s, r
    <2>1. DOMAIN r = DOMAIN s \cup {Len(s) + 1}
      BY <1>4
    <2>2. \A n \in DOMAIN s : r[n] = s[n]
      BY <1>4
    <2> QED BY <1>4, <2>1, <2>2 DEF Elements
  <1>8. Once'
    BY <1>1, <1>6 DEF Once
  <1>9. ASSUME NEW j \in Isolates
        PROVE  Mail'[j] = IF j = i /\ i \in open THEN Mail[j] \cup {m} ELSE Mail[j]
    <2>1. Mail'[j] = Elements(mail'[j]) /\ Mail[j] = Elements(mail[j])
      BY DEF Mail
    <2>2. CASE j = i /\ i \in open
      <3>1. mail'[j] = r /\ mail[j] = s
        BY <1>1, <2>2
      <3> HIDE DEF r, s
      <3> QED BY <1>7, <2>1, <2>2, <3>1
    <2>3. CASE ~(j = i /\ i \in open)
      <3>1. mail'[j] = mail[j]
        BY <1>1, <2>3
      <3> QED BY <2>1, <2>3, <3>1
    <2> QED BY <2>2, <2>3
  <1> QED BY <1>3, <1>8, <1>9

LEMMA MailTaken ==
  ASSUME mail \in [Isolates -> Seq(Messages)], Once,
         NEW i \in Isolates, mail[i] # <<>>, mail' = [mail EXCEPT ![i] = Tail(@)]
  PROVE  /\ mail' \in [Isolates -> Seq(Messages)] /\ Once' /\ Head(mail[i]) \in Mail[i]
         /\ \A j \in Isolates :
              Mail'[j] = IF j = i THEN Mail[j] \ {Head(mail[i])} ELSE Mail[j]
  <1> DEFINE s == mail[i]
             r == Tail(mail[i])
             x == Head(mail[i])
  <1>1. \A j \in Isolates : mail'[j] = IF j = i THEN r ELSE mail[j]
    OBVIOUS
  <1>2. /\ r \in Seq(Messages) /\ Len(s) \in Nat \ {0}
        /\ DOMAIN s = 1 .. Len(s) /\ DOMAIN r = 1 .. Len(s) - 1
        /\ \A n \in 1 .. Len(s) - 1 : r[n] = s[n + 1]
        /\ x = s[1]
    OBVIOUS
  <1>3. mail' \in [Isolates -> Seq(Messages)]
    BY <1>2
  <1>4. \A n, p \in DOMAIN s : s[n] = s[p] => n = p
    BY DEF Once
  <1>5. x \in Mail[i]
    BY <1>2 DEF Mail, Elements
  <1>6. \A n, p \in DOMAIN r : r[n] = r[p] => n = p
    <2> HIDE DEF s, r, x
    <2> SUFFICES ASSUME NEW n \in DOMAIN r, NEW p \in DOMAIN r, r[n] = r[p] PROVE n = p
      OBVIOUS
    <2>1. n + 1 \in DOMAIN s /\ p + 1 \in DOMAIN s /\ s[n + 1] = s[p + 1] /\ n \in Nat /\ p \in Nat
      BY <1>2
    <2>2. n + 1 = p + 1
      BY <1>4, <2>1
    <2> QED BY <2>1, <2>2
  <1>7. Elements(r) = Elements(s) \ {x}
    <2> HIDE DEF s, r, x
    <2>1. ASSUME NEW n \in DOMAIN r PROVE n + 1 \in DOMAIN s /\ r[n] = s[n + 1] /\ s[n + 1] # x
      <3>1. n + 1 \in DOMAIN s /\ r[n] = s[n + 1] /\ 1 \in DOMAIN s /\ n + 1 # 1
        BY <1>2, <2>1
      <3> QED BY <1>2, <1>4, <3>1
    <2>2. ASSUME NEW p \in DOMAIN s, s[p] # x PROVE p - 1 \in DOMAIN r /\ r[p - 1] = s[p]
      <3>1. p # 1
        BY <1>2, <2>2
      <3>2. p - 1 \in 1 .. Len(s) - 1 /\ (p - 1) + 1 = p
        BY <1>2, <3>1
      <3> QED BY <1>2, <3>2
    <2>3. \A y \in Elements(r) : y \in Elements(s) \ {x}
      BY <2>1 DEF Elements
    <2>4. \A y \in Elements(s) \ {x} : y \in Elements(r)
      BY <2>2 DEF Elements
    <2> QED BY <2>3, <2>4
  <1>8. Once'
    BY <1>1, <1>6 DEF Once
  <1>9. ASSUME NEW j \in Isolates
        PROVE  Mail'[j] = IF j = i THEN Mail[j] \ {x} ELSE Mail[j]
    <2>1. Mail'[j] = Elements(mail'[j]) /\ Mail[j] = Elements(mail[j])
      BY DEF Mail
    <2>2. CASE j = i
      <3>1. mail'[j] = r /\ mail[j] = s
        BY <1>1, <2>2
      <3> HIDE DEF r, s, x
      <3> QED BY <1>7, <2>1, <2>2, <3>1
    <2>3. CASE ~(j = i)
      <3>1. mail'[j] = mail[j]
        BY <1>1, <2>3
      <3> QED BY <2>1, <2>3, <3>1
    <2> QED BY <2>2, <2>3
  <1> QED BY <1>3, <1>5, <1>8, <1>9

LEMMA MailClosed ==
  ASSUME mail \in [Isolates -> Seq(Messages)], Once,
         NEW i \in Isolates, mail' = [mail EXCEPT ![i] = <<>>]
  PROVE  /\ mail' \in [Isolates -> Seq(Messages)] /\ Once'
         /\ \A j \in Isolates : Mail'[j] = IF j = i THEN {} ELSE Mail[j]
  <1>1. \A j \in Isolates : mail'[j] = IF j = i THEN <<>> ELSE mail[j]
    OBVIOUS
  <1>2. mail' \in [Isolates -> Seq(Messages)]
    OBVIOUS
  <1>3. Once'
    BY <1>1 DEF Once
  <1>4. DOMAIN <<>> = {}
    OBVIOUS
  <1>5. \A j \in Isolates : Mail'[j] = IF j = i THEN {} ELSE Mail[j]
    BY <1>1, <1>4 DEF Mail, Elements
  <1> QED BY <1>2, <1>3, <1>5

LEMMA MailKept == ASSUME UNCHANGED mail, Once PROVE Mail' = Mail /\ Once'
  BY DEF Mail, Once

-----------------------------------------------------------------------------
(* Boxes                                                                     *)

(* What a step about boxes keeps for the calls. *)
CallsKept ==
  /\ UNCHANGED <<alive, open>>
  /\ \A k \in Calls, o \in Objects : k \in owners'[o] <=> k \in owners[o]
  /\ \A k \in Calls, i \in Isolates : InvokeMessage(k) \in Mail'[i] <=> InvokeMessage(k) \in Mail[i]

(* The last owner is gone and the box of o is dropped in place or posted. *)
LEMMA NonCloneDropInv ==
  ASSUME OpaqueInv, NEW o \in Objects, NEW here \in BOOLEAN,
         handle[o] = "boxed", NonCloneDrop(o, here),
         UNCHANGED <<alive, open>>, raw' \subseteq Handles,
         owners' = [owners EXCEPT ![o] = {}]
  PROVE  OpaqueInv' /\ \A k \in Calls, i \in Isolates :
           InvokeMessage(k) \in Mail'[i] <=> InvokeMessage(k) \in Mail[i]
  <1> DEFINE h == IF here THEN "deleted" ELSE IF Home[o] \in open THEN "posted" ELSE "leaked"
  <1>1. Home \in [Objects -> Isolates] /\ Home[o] \in Isolates
    BY OpaqueAssumption
  <1>2. handle' = [handle EXCEPT ![o] = h]
    BY DEF NonCloneDrop
  <1>3. /\ mail' \in [Isolates -> Seq(Messages)] /\ Once'
        /\ \A i \in Isolates :
             Mail'[i] = IF ~here /\ i = Home[o] /\ i \in open
                          THEN Mail[i] \cup {DropMessage(o)} ELSE Mail[i]
    <2>1. CASE here
      <3>1. UNCHANGED mail
        BY <2>1 DEF NonCloneDrop
      <3> QED BY <2>1, <3>1, MailKept DEF OpaqueInv, OpaqueTypeOK
    <2>2. CASE ~here
      <3>1. Post(Home[o], DropMessage(o))
        BY <2>2 DEF NonCloneDrop
      <3>2. DropMessage(o) \notin Mail[Home[o]] /\ DropMessage(o) \in Messages
        BY <1>1, MessageFacts DEF OpaqueInv, Drops
      <3> QED BY <1>1, <2>2, <3>1, <3>2, MailPosted DEF OpaqueInv, OpaqueTypeOK
    <2> QED BY <2>1, <2>2
  <1>4. h \in {"deleted", "posted", "leaked"} /\ (h = "posted" <=> ~here /\ Home[o] \in open)
        /\ (h = "leaked" => Home[o] \notin open)
    OBVIOUS
  <1> HIDE DEF h
  <1>5. \A p \in Objects : handle'[p] = IF p = o THEN h ELSE handle[p]
    BY <1>2 DEF OpaqueInv, OpaqueTypeOK
  <1>6. \A p \in Objects : owners'[p] = IF p = o THEN {} ELSE owners[p]
    BY DEF OpaqueInv, OpaqueTypeOK
  <1>7. OpaqueTypeOK'
    BY <1>2, <1>3, <1>4 DEF OpaqueInv, OpaqueTypeOK, HandleStates
  <1>8. Closed'
    BY <1>3 DEF OpaqueInv, Closed
  <1>9. ASSUME NEW p \in Objects, NEW i \in Isolates
        PROVE  DropMessage(p) \in Mail'[i] <=> Home[p] = i /\ handle'[p] = "posted"
    <2>1. DropMessage(p) \in Mail[i] <=> Home[p] = i /\ handle[p] = "posted"
      BY DEF OpaqueInv, Drops
    <2>2. CASE p = o
      BY <1>3, <1>4, <1>5, <2>1, <2>2
    <2>3. CASE p # o
      <3>1. DropMessage(p) # DropMessage(o)
        BY <2>3, MessageFacts
      <3>2. DropMessage(p) \in Mail'[i] <=> DropMessage(p) \in Mail[i]
        <4>1. CASE ~here /\ i = Home[o] /\ i \in open
          BY <1>3, <3>1, <4>1
        <4>2. CASE ~(~here /\ i = Home[o] /\ i \in open)
          BY <1>3, <4>2
        <4> QED BY <4>1, <4>2
      <3> QED BY <1>5, <2>1, <2>3, <3>2
    <2> QED BY <2>2, <2>3
  <1>10. Boxes'
    <2> SUFFICES ASSUME NEW p \in Objects
                 PROVE  /\ handle'[p] = "boxed" <=> owners'[p] # {}
                        /\ handle'[p] = "leaked" => Home[p] \notin open'
      BY DEF Boxes
    <2>1. CASE p = o
      BY <1>4, <1>5, <1>6, <2>1
    <2>2. CASE p # o
      BY <1>5, <1>6, <2>2 DEF OpaqueInv, Boxes
    <2> QED BY <2>1, <2>2
  <1>11. HandleInv'
    BY <1>6 DEF OpaqueInv, HandleInv
  <1>12. \A k \in Calls, i \in Isolates : InvokeMessage(k) \in Mail'[i] <=> InvokeMessage(k) \in Mail[i]
    BY <1>3, MessageFacts
  <1>13. Drops'
    BY <1>9 DEF Drops
  <1> QED BY <1>3, <1>7, <1>8, <1>10, <1>11, <1>12, <1>13 DEF OpaqueInv

(* A step that changes owners and boxes and leaves the ports alone. *)
LEMMA NoMailInv ==
  ASSUME OpaqueInv, UNCHANGED <<alive, open, mail>>, raw' \subseteq Handles,
         owners' \in [Objects -> SUBSET (Handles \cup Calls)],
         handle' \in [Objects -> HandleStates],
         Boxes', HandleInv',
         \A o \in Objects : handle'[o] = "posted" <=> handle[o] = "posted"
  PROVE  OpaqueInv' /\ Mail' = Mail
  <1>1. Mail' = Mail /\ Once'
    BY MailKept DEF OpaqueInv
  <1>2. OpaqueTypeOK'
    BY DEF OpaqueInv, OpaqueTypeOK
  <1>3. Closed' /\ Drops'
    BY <1>1 DEF OpaqueInv, Closed, Drops
  <1> QED BY <1>1, <1>2, <1>3 DEF OpaqueInv

LEMMA ReleaseInv ==
  ASSUME OpaqueInv, NEW o \in Objects, NEW x \in owners[o], NEW here \in BOOLEAN,
         Release(o, x, here), UNCHANGED <<alive, open>>, raw' \subseteq Handles
  PROVE  /\ OpaqueInv' /\ owners' = [owners EXCEPT ![o] = @ \ {x}]
         /\ \A k \in Calls, i \in Isolates :
              InvokeMessage(k) \in Mail'[i] <=> InvokeMessage(k) \in Mail[i]
  <1>1. owners' = [owners EXCEPT ![o] = @ \ {x}]
    BY DEF Release
  <1>2. handle[o] = "boxed" /\ owners \in [Objects -> SUBSET (Handles \cup Calls)]
    BY DEF OpaqueInv, OpaqueTypeOK, Boxes
  <1>3. CASE owners[o] = {x}
    <2>1. owners' = [owners EXCEPT ![o] = {}]
      BY <1>1, <1>2, <1>3
    <2>2. NonCloneDrop(o, here)
      BY <1>3 DEF Release
    <2> QED BY <1>1, <1>2, <2>1, <2>2, NonCloneDropInv
  <1>4. CASE owners[o] # {x}
    <2>1. UNCHANGED <<mail, handle>>
      BY <1>4 DEF Release
    <2>2. \A p \in Objects : owners'[p] = IF p = o THEN owners[o] \ {x} ELSE owners[p]
      BY <1>1, <1>2
    <2>3. owners[o] \ {x} # {}
      BY <1>4
    <2>4. Boxes' /\ HandleInv'
      BY <2>1, <2>2, <2>3 DEF OpaqueInv, Boxes, HandleInv
    <2>5. owners' \in [Objects -> SUBSET (Handles \cup Calls)] /\ handle' \in [Objects -> HandleStates]
      BY <1>1, <1>2, <2>1 DEF OpaqueInv, OpaqueTypeOK
    <2> QED BY <1>1, <2>1, <2>4, <2>5, NoMailInv
  <1> QED BY <1>3, <1>4

LEMMA EncodeInv ==
  ASSUME OpaqueInv, NEW o \in Objects, NEW h \in Handles, Encode(o, h)
  PROVE  OpaqueInv' /\ CallsKept
  <1>1. /\ handle[o] = "none" /\ Unused(h) /\ owners' = [owners EXCEPT ![o] = {h}]
        /\ handle' = [handle EXCEPT ![o] = "boxed"] /\ UNCHANGED <<alive, open, mail, raw>>
    BY DEF Encode
  <1>2. owners[o] = {}
    BY <1>1 DEF OpaqueInv, Boxes
  <1>3. /\ \A p \in Objects : owners'[p] = IF p = o THEN {h} ELSE owners[p]
        /\ \A p \in Objects : handle'[p] = IF p = o THEN "boxed" ELSE handle[p]
        /\ owners' \in [Objects -> SUBSET (Handles \cup Calls)] /\ handle' \in [Objects -> HandleStates]
        /\ raw' \subseteq Handles
    BY <1>1 DEF OpaqueInv, OpaqueTypeOK, HandleStates
  <1>4. Boxes'
    BY <1>1, <1>3 DEF OpaqueInv, Boxes
  <1>5. HandleInv'
    BY <1>1, <1>3 DEF OpaqueInv, HandleInv, Unused
  <1>6. OpaqueInv' /\ Mail' = Mail
    BY <1>1, <1>3, <1>4, <1>5, NoMailInv
  <1>7. h \notin Calls
    BY OpaqueAssumption
  <1> QED BY <1>1, <1>2, <1>3, <1>6, <1>7 DEF CallsKept

LEMMA CloneInv ==
  ASSUME OpaqueInv, NEW o \in Objects, NEW g \in Handles, NEW h \in Handles, Clone(o, g, h)
  PROVE  OpaqueInv' /\ CallsKept
  <1>1. /\ g \in owners[o] /\ Unused(h) /\ owners' = [owners EXCEPT ![o] = @ \cup {h}]
        /\ UNCHANGED <<alive, open, mail, raw, handle>>
    BY DEF Clone, Holds
  <1>2. /\ \A p \in Objects : owners'[p] = IF p = o THEN owners[o] \cup {h} ELSE owners[p]
        /\ owners' \in [Objects -> SUBSET (Handles \cup Calls)] /\ handle' \in [Objects -> HandleStates]
        /\ raw' \subseteq Handles
    BY <1>1 DEF OpaqueInv, OpaqueTypeOK
  <1>3. Boxes'
    BY <1>1, <1>2 DEF OpaqueInv, Boxes
  <1>4. HandleInv'
    BY <1>1, <1>2 DEF OpaqueInv, HandleInv, Unused
  <1>5. OpaqueInv' /\ Mail' = Mail
    BY <1>1, <1>2, <1>3, <1>4, NoMailInv
  <1>6. h \notin Calls
    BY OpaqueAssumption
  <1> QED BY <1>1, <1>2, <1>5, <1>6 DEF CallsKept

(* A handle of Rust code is released, by whatever operation. *)
LEMMA HandleReleased ==
  ASSUME OpaqueInv, NEW o \in Objects, NEW h \in Handles, h \in owners[o],
         NEW here \in BOOLEAN, Release(o, h, here),
         UNCHANGED <<alive, open>>, raw' \subseteq Handles
  PROVE  OpaqueInv' /\ CallsKept
  <1>1. /\ OpaqueInv' /\ owners' = [owners EXCEPT ![o] = @ \ {h}]
        /\ \A k \in Calls, i \in Isolates :
              InvokeMessage(k) \in Mail'[i] <=> InvokeMessage(k) \in Mail[i]
    BY ReleaseInv
  <1>2. h \notin Calls
    BY OpaqueAssumption
  <1>3. \A k \in Calls, p \in Objects : k \in owners'[p] <=> k \in owners[p]
    BY <1>1, <1>2 DEF OpaqueInv, OpaqueTypeOK
  <1> QED BY <1>1, <1>3 DEF CallsKept

LEMMA DropInv ==
  ASSUME OpaqueInv, NEW o \in Objects, NEW h \in Handles, Drop(o, h)
  PROVE  OpaqueInv' /\ CallsKept
  <1>1. h \in owners[o] /\ UNCHANGED <<alive, open, raw>>
    BY DEF Drop, Holds
  <1>2. PICK here \in BOOLEAN : Release(o, h, here)
    BY DEF Drop, Contexts
  <1>3. raw' \subseteq Handles
    BY <1>1 DEF OpaqueInv, OpaqueTypeOK
  <1> QED BY <1>1, <1>2, <1>3, HandleReleased

LEMMA IntoInnerInv ==
  ASSUME OpaqueInv, NEW o \in Objects, NEW h \in Handles, IntoInner(o, h)
  PROVE  OpaqueInv' /\ CallsKept
  <1>1. h \in owners[o] /\ owners[o] = {h} /\ UNCHANGED <<alive, open, raw>>
    BY DEF IntoInner, Holds
  <1>2. raw' \subseteq Handles /\ handle[o] = "boxed"
    BY <1>1 DEF OpaqueInv, OpaqueTypeOK, Boxes
  <1>3. CASE /\ owners' = [owners EXCEPT ![o] = {}]
             /\ handle' = [handle EXCEPT ![o] = "moved"]
             /\ UNCHANGED mail
    <2>1. /\ \A p \in Objects : owners'[p] = IF p = o THEN {} ELSE owners[p]
          /\ \A p \in Objects : handle'[p] = IF p = o THEN "moved" ELSE handle[p]
          /\ owners' \in [Objects -> SUBSET (Handles \cup Calls)] /\ handle' \in [Objects -> HandleStates]
      BY <1>3 DEF OpaqueInv, OpaqueTypeOK, HandleStates
    <2>2. Boxes' /\ HandleInv'
      BY <1>1, <2>1 DEF OpaqueInv, Boxes, HandleInv
    <2>3. OpaqueInv' /\ Mail' = Mail
      BY <1>1, <1>2, <1>3, <2>1, <2>2, NoMailInv
    <2>4. h \notin Calls
      BY OpaqueAssumption
    <2> QED BY <1>1, <2>1, <2>3, <2>4 DEF CallsKept
  <1>4. CASE Release(o, h, FALSE)
    BY <1>1, <1>2, <1>4, HandleReleased
  <1> QED BY <1>3, <1>4 DEF IntoInner, Contexts

LEMMA DropInnerInv ==
  ASSUME OpaqueInv, NEW o \in Objects, DropInner(o)
  PROVE  OpaqueInv' /\ CallsKept
  <1>1. /\ handle[o] = "moved" /\ handle' = [handle EXCEPT ![o] = "deleted"]
        /\ UNCHANGED <<alive, open, mail, owners, raw>>
    BY DEF DropInner
  <1>2. /\ \A p \in Objects : handle'[p] = IF p = o THEN "deleted" ELSE handle[p]
        /\ owners' \in [Objects -> SUBSET (Handles \cup Calls)] /\ handle' \in [Objects -> HandleStates]
        /\ raw' \subseteq Handles
    BY <1>1 DEF OpaqueInv, OpaqueTypeOK, HandleStates
  <1>3. Boxes' /\ HandleInv'
    BY <1>1, <1>2 DEF OpaqueInv, Boxes, HandleInv
  <1>4. OpaqueInv' /\ Mail' = Mail
    BY <1>1, <1>2, <1>3, NoMailInv
  <1> QED BY <1>1, <1>4 DEF CallsKept

LEMMA EncodeToDartInv ==
  ASSUME OpaqueInv, NEW o \in Objects, NEW h \in Handles, EncodeToDart(o, h)
  PROVE  OpaqueInv' /\ CallsKept
  <1>1. raw' = raw \cup {h} /\ UNCHANGED <<alive, open, mail, owners, handle>>
    BY DEF EncodeToDart
  <1>2. /\ owners' \in [Objects -> SUBSET (Handles \cup Calls)] /\ handle' \in [Objects -> HandleStates]
        /\ raw' \subseteq Handles /\ Boxes' /\ HandleInv'
    BY <1>1 DEF OpaqueInv, OpaqueTypeOK, Boxes, HandleInv
  <1>3. OpaqueInv' /\ Mail' = Mail
    BY <1>1, <1>2, NoMailInv
  <1> QED BY <1>1, <1>3 DEF CallsKept

LEMMA DecodeInDartInv ==
  ASSUME OpaqueInv, NEW o \in Objects, NEW h \in Handles, DecodeInDart(o, h)
  PROVE  OpaqueInv' /\ CallsKept
  <1>1. h \in owners[o] /\ Release(o, h, TRUE) /\ UNCHANGED <<alive, open>> /\ raw' = raw \ {h}
    BY DEF DecodeInDart
  <1>2. raw' \subseteq Handles
    BY <1>1 DEF OpaqueInv, OpaqueTypeOK
  <1> QED BY <1>1, <1>2, HandleReleased

LEMMA OnDropInv ==
  ASSUME OpaqueInv, NEW o \in Objects, OnDrop(o)
  PROVE  OpaqueInv' /\ CallsKept
  <1> DEFINE i == Home[o]
  <1>1. /\ mail[i] # <<>> /\ Head(mail[i]) = DropMessage(o)
        /\ mail' = [mail EXCEPT ![i] = Tail(@)]
        /\ handle' = [handle EXCEPT ![o] = "deleted"]
        /\ UNCHANGED <<alive, open, owners, raw>>
    BY DEF OnDrop
  <1>2. i \in Isolates
    BY OpaqueAssumption
  <1> HIDE DEF i
  <1>3. /\ mail' \in [Isolates -> Seq(Messages)] /\ Once' /\ DropMessage(o) \in Mail[i]
        /\ \A j \in Isolates : Mail'[j] = IF j = i THEN Mail[j] \ {DropMessage(o)} ELSE Mail[j]
    BY <1>1, <1>2, MailTaken DEF OpaqueInv, OpaqueTypeOK
  <1>4. handle[o] = "posted" /\ Home[o] = i
    BY <1>2, <1>3 DEF OpaqueInv, Drops
  <1>5. \A p \in Objects : handle'[p] = IF p = o THEN "deleted" ELSE handle[p]
    BY <1>1 DEF OpaqueInv, OpaqueTypeOK
  <1>6. OpaqueTypeOK'
    BY <1>1, <1>3 DEF OpaqueInv, OpaqueTypeOK, HandleStates
  <1>7. Closed'
    BY <1>1, <1>3 DEF OpaqueInv, Closed
  <1>8. ASSUME NEW p \in Objects, NEW j \in Isolates
        PROVE  DropMessage(p) \in Mail'[j] <=> Home[p] = j /\ handle'[p] = "posted"
    <2>1. DropMessage(p) \in Mail[j] <=> Home[p] = j /\ handle[p] = "posted"
      BY DEF OpaqueInv, Drops
    <2>2. CASE p = o
      BY <1>3, <1>4, <1>5, <2>1, <2>2
    <2>3. CASE p # o
      <3>1. DropMessage(p) # DropMessage(o)
        BY <2>3, MessageFacts
      <3> QED BY <1>3, <1>5, <2>1, <2>3, <3>1
    <2> QED BY <2>2, <2>3
  <1>9. Boxes' /\ HandleInv'
    BY <1>1, <1>4, <1>5 DEF OpaqueInv, Boxes, HandleInv
  <1>10. CallsKept
    BY <1>1, <1>3, MessageFacts DEF CallsKept
  <1>11. Drops'
    BY <1>8 DEF Drops
  <1> QED BY <1>3, <1>6, <1>7, <1>9, <1>10, <1>11 DEF OpaqueInv

LEMMA ClosePortInv ==
  ASSUME OpaqueInv, NEW i \in Isolates, ClosePort(i), UNCHANGED <<owners, raw>>,
         alive' \in {alive, alive \ {i}}
  PROVE  /\ OpaqueInv' /\ open' = open \ {i}
         /\ \A j \in Isolates : Mail'[j] = IF j = i THEN {} ELSE Mail[j]
  <1>1. /\ open' = open \ {i} /\ mail' = [mail EXCEPT ![i] = <<>>]
        /\ handle' = [o \in Objects |-> IF Home[o] = i /\ handle[o] = "posted" THEN "leaked" ELSE handle[o]]
    BY DEF ClosePort
  <1>2. /\ mail' \in [Isolates -> Seq(Messages)] /\ Once'
        /\ \A j \in Isolates : Mail'[j] = IF j = i THEN {} ELSE Mail[j]
    BY <1>1, MailClosed DEF OpaqueInv, OpaqueTypeOK
  <1>3. OpaqueTypeOK'
    BY <1>1, <1>2 DEF OpaqueInv, OpaqueTypeOK, HandleStates
  <1>4. Closed'
    BY <1>1, <1>2 DEF OpaqueInv, Closed
  <1>5. Drops'
    BY <1>1, <1>2 DEF OpaqueInv, Drops
  <1>6. Boxes'
    BY <1>1 DEF OpaqueInv, Boxes
  <1>7. HandleInv'
    BY <1>1 DEF OpaqueInv, HandleInv
  <1> QED BY <1>1, <1>2, <1>3, <1>4, <1>5, <1>6, <1>7 DEF OpaqueInv

-----------------------------------------------------------------------------
(* Calls                                                                     *)

LEMMA BoxStepKeepsCalls == ASSUME FnInv, CallsKept, UNCHANGED fnVars PROVE FnInv'
  <1> USE DEF fnVars
  <1>1. FnTypeOK' /\ CallInv' /\ CompleterInv' /\ AnswerIsOwn'
    BY DEF FnInv, CallsKept, FnTypeOK, CallInv, CompleterInv, AnswerIsOwn
  <1>2. Invokes'
    BY DEF FnInv, CallsKept, Invokes, OfIsolate
  <1>3. CloneTravelsWithCall'
    BY DEF FnInv, CallsKept, CloneTravelsWithCall
  <1> QED BY <1>1, <1>2, <1>3 DEF FnInv

LEMMA FetchIdInv ==
  ASSUME OpaqueInv, FnInv, NEW k \in Calls, NEW o \in Objects, FetchId(k, o)
  PROVE  OpaqueInv' /\ FnInv'
  <1>1. /\ stage[k] = "new" /\ owners[o] # {}
        /\ owners' = [owners EXCEPT ![o] = @ \cup {k}]
        /\ closure' = [closure EXCEPT ![k] = o]
        /\ call_id' = [call_id EXCEPT ![k] = next_call_id]
        /\ next_call_id' = NextId(next_call_id)
        /\ stage' = [stage EXCEPT ![k] = "id"]
        /\ UNCHANGED <<alive, open, mail, raw, handle, completers, dart, future, answer, reused>>
    BY DEF FetchId, Holds
  <1>2. o # None /\ \A p \in Objects : p # None
    BY DartFnAssumption
  <1>3. /\ closure[k] = None /\ dart[k] = "none" /\ future[k] = "none"
        /\ \A p \in Objects : k \notin owners[p]
    BY <1>1, <1>2 DEF FnInv, FnTypeOK, CallInv, CloneTravelsWithCall
  <1>4. \A p \in Objects : owners'[p] = IF p = o THEN owners[o] \cup {k} ELSE owners[p]
    BY <1>1 DEF OpaqueInv, OpaqueTypeOK
  <1>5. OpaqueInv' /\ Mail' = Mail
    <2>1. /\ owners' \in [Objects -> SUBSET (Handles \cup Calls)]
          /\ handle' \in [Objects -> HandleStates] /\ raw' \subseteq Handles
      BY <1>1 DEF OpaqueInv, OpaqueTypeOK
    <2>2. Boxes' /\ HandleInv'
      BY <1>1, <1>3, <1>4 DEF OpaqueInv, Boxes, HandleInv
    <2> QED BY <1>1, <2>1, <2>2, NoMailInv
  <1>6. FnTypeOK'
    BY <1>1, IdFacts DEF FnInv, FnTypeOK, Stages
  <1>7. \A j \in Calls : /\ stage'[j] = IF j = k THEN "id" ELSE stage[j]
                         /\ closure'[j] = IF j = k THEN o ELSE closure[j]
                         /\ call_id'[j] = IF j = k THEN next_call_id ELSE call_id[j]
    BY <1>1 DEF FnInv, FnTypeOK
  <1>8. Invokes'
    BY <1>1, <1>3, <1>5, <1>7 DEF FnInv, Invokes, OfIsolate
  <1>9. CallInv'
    BY <1>1, <1>2, <1>3, <1>7 DEF FnInv, CallInv
  <1>10. CompleterInv' /\ AnswerIsOwn'
    BY <1>1, <1>3, <1>7 DEF FnInv, CompleterInv, AnswerIsOwn
  <1>11. CloneTravelsWithCall'
    BY <1>1, <1>3, <1>4, <1>7 DEF FnInv, CloneTravelsWithCall
  <1> QED BY <1>5, <1>6, <1>8, <1>9, <1>10, <1>11 DEF FnInv

(* A step of Rust alone: neither boxes nor ports change. *)
LEMMA BoxesKept == ASSUME OpaqueInv, UNCHANGED opaqueVars PROVE OpaqueInv' /\ Mail' = Mail
  <1> USE DEF opaqueVars
  <1>1. /\ owners' \in [Objects -> SUBSET (Handles \cup Calls)] /\ handle' \in [Objects -> HandleStates]
        /\ raw' \subseteq Handles /\ Boxes' /\ HandleInv'
    BY DEF OpaqueInv, OpaqueTypeOK, Boxes, HandleInv
  <1> QED BY <1>1, NoMailInv

LEMMA InsertCompleterInv ==
  ASSUME OpaqueInv, FnInv, NEW k \in Calls, InsertCompleter(k)
  PROVE  OpaqueInv' /\ FnInv'
  <1> DEFINE n == call_id[k]
             q == completers[n]
  <1>1. /\ stage[k] = "id" /\ completers' = [completers EXCEPT ![n] = k]
        /\ future' = [Displace(q) EXCEPT ![k] = "pending"]
        /\ reused' = (reused \/ q # None)
        /\ stage' = [stage EXCEPT ![k] = "inserted"]
        /\ UNCHANGED opaqueVars
        /\ UNCHANGED <<next_call_id, closure, call_id, dart, answer>>
    BY DEF InsertCompleter
  <1>2. n \in Ids /\ q \in Calls \cup {None} /\ None \notin Calls /\ None \notin Objects
    BY DartFnAssumption DEF FnInv, FnTypeOK
  <1>3. dart[k] = "none" /\ closure[k] # None
    BY <1>1 DEF FnInv, CallInv
  <1>4. OpaqueInv' /\ Mail' = Mail
    BY <1>1, BoxesKept
  <1>5. /\ Displace(q) \in [Calls -> {"none", "pending", "dropped"} \cup Ready]
        /\ \A j \in Calls : Displace(q)[j] = "none" <=> future[j] = "none"
        /\ q = None => Displace(q) = future
    BY <1>2 DEF Displace, FnInv, FnTypeOK, Ready
  <1> HIDE DEF q
  <1>6. /\ \A j \in Calls : stage'[j] = IF j = k THEN "inserted" ELSE stage[j]
        /\ \A j \in Calls : future'[j] = IF j = k THEN "pending" ELSE Displace(q)[j]
        /\ \A m \in Ids : completers'[m] = IF m = n THEN k ELSE completers[m]
    BY <1>1, <1>5 DEF FnInv, FnTypeOK
  <1>7. FnTypeOK'
    BY <1>1, <1>2, <1>5 DEF FnInv, FnTypeOK, Stages
  <1>8. Invokes'
    BY <1>1, <1>4 DEF FnInv, Invokes, OfIsolate
  <1>9. CallInv'
    BY <1>1, <1>3, <1>5, <1>6 DEF FnInv, CallInv, opaqueVars
  <1>10. CloneTravelsWithCall'
    BY <1>1, <1>6 DEF FnInv, CloneTravelsWithCall, opaqueVars
  <1>11. CompleterInv'
    <2> SUFFICES ASSUME ~reused', NEW j \in Calls
                 PROVE  /\ stage'[j] = "inserted" \/ dart'[j] \notin {"none", "over"} =>
                             completers'[call_id'[j]] = j
                        /\ dart'[j] = "over" => future'[j] # "pending"
      BY DEF CompleterInv
    <2>1. ~reused /\ q = None
      BY <1>1 DEF FnInv, FnTypeOK
    <2>2. CASE j = k
      BY <1>1, <1>2, <1>3, <1>6, <2>2
    <2>3. CASE j # k
      <3>1. /\ stage[j] = "inserted" \/ dart[j] \notin {"none", "over"} => completers[call_id[j]] = j
            /\ dart[j] = "over" => future[j] # "pending"
        BY <2>1 DEF FnInv, CompleterInv
      <3>2. /\ stage'[j] = stage[j] /\ dart'[j] = dart[j] /\ future'[j] = future[j]
            /\ call_id'[j] = call_id[j] /\ call_id[j] \in Ids
        BY <1>1, <1>5, <1>6, <2>1, <2>3 DEF FnInv, FnTypeOK
      <3>3. completers[call_id[j]] = j => completers'[call_id[j]] = j
        BY <1>2, <1>6, <2>1, <3>2 DEF q
      <3> QED BY <3>1, <3>2, <3>3
    <2> QED BY <2>2, <2>3
  <1>12. AnswerIsOwn'
    BY <1>1 DEF FnInv, FnTypeOK, AnswerIsOwn
  <1> QED BY <1>4, <1>7, <1>8, <1>9, <1>10, <1>11, <1>12 DEF FnInv

LEMMA PostInvokeInv ==
  ASSUME OpaqueInv, FnInv, NEW k \in Calls, PostInvoke(k)
  PROVE  OpaqueInv' /\ FnInv'
  <1> DEFINE i == Home[closure[k]]
             d == IF i \in open THEN "mail" ELSE "undelivered"
  <1>1. /\ stage[k] = "inserted" /\ Post(i, InvokeMessage(k))
        /\ dart' = [dart EXCEPT ![k] = d]
        /\ stage' = [stage EXCEPT ![k] = "sent"]
        /\ UNCHANGED <<alive, open, owners, raw, handle>>
        /\ UNCHANGED <<next_call_id, completers, closure, call_id, future, answer, reused>>
    BY DEF PostInvoke
  <1>2. dart[k] = "none" /\ closure[k] \in Objects /\ closure[k] # None /\ i \in Isolates
    BY <1>1, OpaqueAssumption DEF FnInv, FnTypeOK, CallInv
  <1>3. InvokeMessage(k) \notin Mail[i] /\ InvokeMessage(k) \in Messages
    BY <1>2, MessageFacts DEF FnInv, Invokes
  <1>4. /\ mail' \in [Isolates -> Seq(Messages)] /\ Once'
        /\ \A j \in Isolates :
             Mail'[j] = IF j = i /\ i \in open THEN Mail[j] \cup {InvokeMessage(k)} ELSE Mail[j]
    BY <1>1, <1>2, <1>3, MailPosted DEF OpaqueInv, OpaqueTypeOK
  <1>5. d \in {"mail", "undelivered"} /\ (d = "mail" <=> i \in open)
    OBVIOUS
  <1> HIDE DEF d
  <1>6. /\ \A j \in Calls : dart'[j] = IF j = k THEN d ELSE dart[j]
        /\ \A j \in Calls : stage'[j] = IF j = k THEN "sent" ELSE stage[j]
    BY <1>1 DEF FnInv, FnTypeOK
  <1>7. OpaqueInv'
    <2>1. OpaqueTypeOK'
      BY <1>1, <1>4 DEF OpaqueInv, OpaqueTypeOK
    <2>2. Closed'
      BY <1>1, <1>4 DEF OpaqueInv, Closed
    <2>3. ASSUME NEW o \in Objects, NEW j \in Isolates
          PROVE  DropMessage(o) \in Mail'[j] <=> DropMessage(o) \in Mail[j]
      <3>1. DropMessage(o) # InvokeMessage(k)
        BY MessageFacts
      <3> QED BY <1>4, <3>1
    <2>4. Drops'
      BY <1>1, <2>3 DEF OpaqueInv, Drops
    <2>5. Boxes' /\ HandleInv'
      BY <1>1 DEF OpaqueInv, Boxes, HandleInv
    <2> QED BY <1>4, <2>1, <2>2, <2>4, <2>5 DEF OpaqueInv
  <1>8. FnTypeOK'
    BY <1>1, <1>5 DEF FnInv, FnTypeOK, Stages, DartStates
  <1>9. Invokes'
    <2> SUFFICES ASSUME NEW l \in Calls, NEW j \in Isolates
                 PROVE  InvokeMessage(l) \in Mail'[j] <=> (OfIsolate(l, j) /\ dart[l] = "mail")'
      BY DEF Invokes
    <2>1. InvokeMessage(l) \in Mail[j] <=> OfIsolate(l, j) /\ dart[l] = "mail"
      BY DEF FnInv, Invokes
    <2>2. CASE l = k
      <3>1. (OfIsolate(k, j) /\ dart[k] = "mail")' <=> j = i /\ i \in open
        BY <1>1, <1>2, <1>5, <1>6 DEF OfIsolate
      <3>2. InvokeMessage(k) \notin Mail[j]
        BY <1>2, <2>1, <2>2
      <3>3. InvokeMessage(k) \in Mail'[j] <=> j = i /\ i \in open
        BY <1>4, <3>2
      <3> QED BY <2>2, <3>1, <3>3
    <2>3. CASE l # k
      <3>1. InvokeMessage(l) # InvokeMessage(k)
        BY <2>3, MessageFacts
      <3>2. InvokeMessage(l) \in Mail'[j] <=> InvokeMessage(l) \in Mail[j]
        <4>1. CASE j = i /\ i \in open
          BY <1>4, <3>1, <4>1
        <4>2. CASE ~(j = i /\ i \in open)
          BY <1>4, <4>2
        <4> QED BY <4>1, <4>2
      <3> QED BY <1>1, <1>6, <2>1, <2>3, <3>2 DEF OfIsolate
    <2> QED BY <2>2, <2>3
  <1>10. CallInv'
    BY <1>1, <1>2, <1>5, <1>6 DEF FnInv, CallInv
  <1>11. CompleterInv' /\ AnswerIsOwn'
    BY <1>1, <1>5, <1>6 DEF FnInv, CompleterInv, AnswerIsOwn
  <1>12. CloneTravelsWithCall'
    BY <1>1, <1>2, <1>5, <1>6 DEF FnInv, CloneTravelsWithCall
  <1> QED BY <1>7, <1>8, <1>9, <1>10, <1>11, <1>12 DEF FnInv

LEMMA DropFutureInv ==
  ASSUME OpaqueInv, FnInv, NEW k \in Calls, DropFuture(k)
  PROVE  OpaqueInv' /\ FnInv'
  <1>1. /\ future[k] = "pending" /\ future' = [future EXCEPT ![k] = "dropped"]
        /\ UNCHANGED opaqueVars
        /\ UNCHANGED <<next_call_id, completers, stage, closure, call_id, dart, answer, reused>>
    BY DEF DropFuture
  <1>2. OpaqueInv' /\ Mail' = Mail
    BY <1>1, BoxesKept
  <1>3. \A j \in Calls : future'[j] = IF j = k THEN "dropped" ELSE future[j]
    BY <1>1 DEF FnInv, FnTypeOK
  <1>4. FnTypeOK'
    BY <1>1 DEF FnInv, FnTypeOK
  <1>5. CallInv' /\ CompleterInv' /\ AnswerIsOwn'
    BY <1>1, <1>3 DEF FnInv, CallInv, CompleterInv, AnswerIsOwn, opaqueVars
  <1>6. Invokes' /\ CloneTravelsWithCall'
    BY <1>1, <1>2 DEF FnInv, Invokes, OfIsolate, CloneTravelsWithCall, opaqueVars
  <1> QED BY <1>2, <1>4, <1>5, <1>6 DEF FnInv

LEMMA OnInvokeInv ==
  ASSUME OpaqueInv, FnInv, NEW k \in Calls, OnInvoke(k)
  PROVE  OpaqueInv' /\ FnInv'
  <1> DEFINE o == closure[k]
             i == Home[o]
             x == InvokeMessage(k)
  <1>1. PICK d \in {"running", "failed"} : dart' = [dart EXCEPT ![k] = d]
    BY DEF OnInvoke
  <1>2. /\ o # None /\ mail[i] # <<>> /\ Head(mail[i]) = x
        /\ mail' = [mail EXCEPT ![i] = Tail(@)]
        /\ owners' = [owners EXCEPT ![o] = @ \ {k}]
        /\ handle' = [handle EXCEPT ![o] = IF owners[o] = {k} THEN "deleted" ELSE @]
        /\ UNCHANGED <<alive, open, raw>>
        /\ UNCHANGED <<next_call_id, completers, stage, closure, call_id, future, answer, reused>>
    BY DEF OnInvoke
  <1>3. o \in Objects /\ i \in Isolates
    BY <1>2, OpaqueAssumption DEF FnInv, FnTypeOK
  <1> HIDE DEF x
  <1>4. /\ mail' \in [Isolates -> Seq(Messages)] /\ Once' /\ x \in Mail[i]
        /\ \A j \in Isolates : Mail'[j] = IF j = i THEN Mail[j] \ {x} ELSE Mail[j]
    BY <1>2, <1>3, MailTaken DEF OpaqueInv, OpaqueTypeOK
  <1>5. dart[k] = "mail" /\ stage[k] = "sent"
    BY <1>3, <1>4 DEF FnInv, Invokes, CallInv, x
  <1>6. k \in owners[o] /\ \A p \in Objects : k \in owners[p] => p = o
    BY <1>3, <1>5 DEF FnInv, CloneTravelsWithCall
  <1>7. /\ \A p \in Objects : owners'[p] = IF p = o THEN owners[o] \ {k} ELSE owners[p]
        /\ \A p \in Objects :
             handle'[p] = IF p = o /\ owners[o] = {k} THEN "deleted" ELSE handle[p]
    BY <1>2, <1>3 DEF OpaqueInv, OpaqueTypeOK
  <1>8. handle[o] = "boxed"
    BY <1>3, <1>6 DEF OpaqueInv, Boxes
  <1>9. OpaqueInv'
    <2>1. OpaqueTypeOK'
      BY <1>2, <1>3, <1>4 DEF OpaqueInv, OpaqueTypeOK, HandleStates
    <2>2. Closed'
      BY <1>2, <1>4 DEF OpaqueInv, Closed
    <2>3. Drops'
      <3>1. ASSUME NEW p \in Objects, NEW j \in Isolates
            PROVE  DropMessage(p) \in Mail'[j] <=> DropMessage(p) \in Mail[j]
        <4>1. DropMessage(p) # x
          BY MessageFacts DEF x
        <4> QED BY <1>4, <4>1
      <3>2. \A p \in Objects : handle'[p] = "posted" <=> handle[p] = "posted"
        BY <1>7, <1>8
      <3> QED BY <3>1, <3>2 DEF OpaqueInv, Drops
    <2>4. Boxes'
      <3>1. owners[o] \ {k} # {} <=> owners[o] # {k}
        BY <1>6
      <3> QED BY <1>2, <1>7, <1>8, <3>1 DEF OpaqueInv, Boxes
    <2>5. HandleInv'
      BY <1>2, <1>7 DEF OpaqueInv, HandleInv
    <2> QED BY <1>4, <2>1, <2>2, <2>3, <2>4, <2>5 DEF OpaqueInv
  <1>10. \A j \in Calls : dart'[j] = IF j = k THEN d ELSE dart[j]
    BY <1>1 DEF FnInv, FnTypeOK
  <1>11. FnTypeOK'
    BY <1>1, <1>2 DEF FnInv, FnTypeOK, DartStates
  <1>12. Invokes'
    <2> SUFFICES ASSUME NEW l \in Calls, NEW j \in Isolates
                 PROVE  InvokeMessage(l) \in Mail'[j] <=> (OfIsolate(l, j) /\ dart[l] = "mail")'
      BY DEF Invokes
    <2>1. InvokeMessage(l) \in Mail[j] <=> OfIsolate(l, j) /\ dart[l] = "mail"
      BY DEF FnInv, Invokes
    <2>2. CASE l = k
      <3>1. x \notin Mail'[j]
        <4>1. CASE j = i
          BY <1>4, <4>1
        <4>2. CASE j # i
          BY <1>4, <2>1, <2>2, <4>2 DEF OfIsolate, x
        <4> QED BY <4>1, <4>2
      <3> QED BY <1>1, <1>10, <2>2, <3>1 DEF x
    <2>3. CASE l # k
      <3>1. InvokeMessage(l) # x
        BY <2>3, MessageFacts DEF x
      <3>2. InvokeMessage(l) \in Mail'[j] <=> InvokeMessage(l) \in Mail[j]
        BY <1>4, <3>1
      <3> QED BY <1>2, <1>10, <2>1, <2>3, <3>2 DEF OfIsolate
    <2> QED BY <2>2, <2>3
  <1>13. CallInv'
    BY <1>1, <1>2, <1>5, <1>10 DEF FnInv, CallInv
  <1>14. CompleterInv' /\ AnswerIsOwn'
    BY <1>1, <1>2, <1>5, <1>10 DEF FnInv, CompleterInv, AnswerIsOwn
  <1>15. CloneTravelsWithCall'
    <2>1. ASSUME NEW l \in Calls, NEW p \in Objects
          PROVE  l \in owners'[p] <=>
                   closure'[l] = p /\ (stage'[l] \in {"id", "inserted"} \/ dart'[l] \in {"mail", "undelivered"})
      <3>1. l \in owners[p] <=>
              closure[l] = p /\ (stage[l] \in {"id", "inserted"} \/ dart[l] \in {"mail", "undelivered"})
        BY DEF FnInv, CloneTravelsWithCall
      <3>2. CASE l = k
        BY <1>1, <1>2, <1>5, <1>6, <1>7, <1>10, <3>2
      <3>3. CASE l # k
        BY <1>2, <1>7, <1>10, <3>1, <3>3
      <3> QED BY <3>2, <3>3
    <2>2. \A l \in Calls : dart'[l] = "undelivered" => Home[closure'[l]] \notin open'
      BY <1>1, <1>2, <1>10 DEF FnInv, CloneTravelsWithCall
    <2> QED BY <2>1, <2>2 DEF CloneTravelsWithCall
  <1> QED BY <1>9, <1>11, <1>12, <1>13, <1>14, <1>15 DEF FnInv

LEMMA DeliverInv ==
  ASSUME OpaqueInv, FnInv, NEW k \in Calls, Deliver(k)
  PROVE  OpaqueInv' /\ FnInv'
  <1> DEFINE n == call_id[k]
             q == completers[n]
             waits == q # None /\ future[q] = "pending"
  <1>1. /\ dart[k] = "running" /\ dart' = [dart EXCEPT ![k] = "over"]
        /\ UNCHANGED opaqueVars /\ UNCHANGED <<next_call_id, stage, closure, call_id, reused>>
    BY DEF Deliver
  <1>2. PICK threw \in BOOLEAN : HandleOutput(k, threw)
    BY DEF Deliver
  <1> DEFINE r == Outcome(q, threw)
  <1>3. /\ completers' = [completers EXCEPT ![n] = None]
        /\ future' = IF waits THEN [future EXCEPT ![q] = r] ELSE future
        /\ answer' = IF waits THEN [answer EXCEPT ![q] = k] ELSE answer
    BY <1>2 DEF HandleOutput
  <1>4. r \in Ready
    BY DEF Outcome, Ready
  <1>5. n \in Ids /\ q \in Calls \cup {None} /\ None \notin Calls
    BY DartFnAssumption DEF FnInv, FnTypeOK
  <1>6. stage[k] = "sent"
    BY <1>1 DEF FnInv, CallInv
  <1>7. OpaqueInv' /\ Mail' = Mail
    BY <1>1, BoxesKept
  <1> HIDE DEF q, r
  <1>8. /\ \A j \in Calls : dart'[j] = IF j = k THEN "over" ELSE dart[j]
        /\ \A j \in Calls : future'[j] = IF waits /\ j = q THEN r ELSE future[j]
        /\ \A j \in Calls : answer'[j] = IF waits /\ j = q THEN k ELSE answer[j]
        /\ \A m \in Ids : completers'[m] = IF m = n THEN None ELSE completers[m]
    BY <1>1, <1>3, <1>5 DEF FnInv, FnTypeOK
  <1>9. FnTypeOK'
    BY <1>1, <1>3, <1>4, <1>5 DEF FnInv, FnTypeOK, DartStates
  <1>10. Invokes'
    BY <1>1, <1>7, <1>8 DEF FnInv, Invokes, OfIsolate
  <1>11. CallInv'
    <2>1. \A j \in Calls : future'[j] = "none" <=> future[j] = "none"
      BY <1>4, <1>8 DEF Ready
    <2> QED BY <1>1, <1>6, <1>8, <2>1 DEF FnInv, CallInv, opaqueVars
  <1>12. CloneTravelsWithCall'
    BY <1>1, <1>6, <1>8 DEF FnInv, CloneTravelsWithCall, opaqueVars
  <1>13. ~reused => q = k
    BY <1>1 DEF FnInv, CompleterInv, q
  <1>14. CompleterInv'
    <2> SUFFICES ASSUME ~reused, NEW j \in Calls
                 PROVE  /\ stage'[j] = "inserted" \/ dart'[j] \notin {"none", "over"} =>
                             completers'[call_id'[j]] = j
                        /\ dart'[j] = "over" => future'[j] # "pending"
      BY <1>1 DEF CompleterInv
    <2>1. /\ stage[j] = "inserted" \/ dart[j] \notin {"none", "over"} => completers[call_id[j]] = j
          /\ dart[j] = "over" => future[j] # "pending"
      BY DEF FnInv, CompleterInv
    <2>2. CASE j = k
      <3>1. future'[k] # "pending"
        BY <1>4, <1>5, <1>8, <1>13 DEF Ready
      <3> QED BY <1>1, <1>6, <1>8, <2>2, <3>1
    <2>3. CASE j # k
      <3>1. call_id[j] \in Ids /\ call_id'[j] = call_id[j] /\ stage'[j] = stage[j] /\ dart'[j] = dart[j]
        BY <1>1, <1>8, <2>3 DEF FnInv, FnTypeOK
      <3>2. future'[j] = future[j]
        BY <1>8, <1>13, <2>3
      <3>3. completers[call_id[j]] = j => completers'[call_id[j]] = j
        BY <1>8, <1>13, <2>3, <3>1 DEF q
      <3> QED BY <2>1, <3>1, <3>2, <3>3
    <2> QED BY <2>2, <2>3
  <1>15. AnswerIsOwn'
    BY <1>1, <1>8, <1>13 DEF FnInv, AnswerIsOwn
  <1> QED BY <1>7, <1>9, <1>10, <1>11, <1>12, <1>14, <1>15 DEF FnInv

LEMMA EncodeOutputThrowsInv ==
  ASSUME OpaqueInv, FnInv, NEW k \in Calls, EncodeOutputThrows(k)
  PROVE  OpaqueInv' /\ FnInv'
  <1>1. /\ dart[k] = "running" /\ dart' = [dart EXCEPT ![k] = "unsent"]
        /\ UNCHANGED opaqueVars
        /\ UNCHANGED <<next_call_id, completers, stage, closure, call_id, future, answer, reused>>
    BY DEF EncodeOutputThrows
  <1>2. OpaqueInv' /\ Mail' = Mail
    BY <1>1, BoxesKept
  <1>3. \A j \in Calls : dart'[j] = IF j = k THEN "unsent" ELSE dart[j]
    BY <1>1 DEF FnInv, FnTypeOK
  <1>4. FnTypeOK'
    BY <1>1 DEF FnInv, FnTypeOK, DartStates
  <1>5. CallInv' /\ CompleterInv' /\ AnswerIsOwn'
    BY <1>1, <1>3 DEF FnInv, CallInv, CompleterInv, AnswerIsOwn, opaqueVars
  <1>6. Invokes'
    BY <1>1, <1>2, <1>3 DEF FnInv, Invokes, OfIsolate
  <1>7. CloneTravelsWithCall'
    <2>1. stage[k] = "sent"
      BY <1>1 DEF FnInv, CallInv
    <2> QED BY <1>1, <1>3, <2>1 DEF FnInv, CloneTravelsWithCall, opaqueVars
  <1> QED BY <1>2, <1>4, <1>5, <1>6, <1>7 DEF FnInv

(* The port of isolate i closes: what its calls had in the mail is lost. *)
LEMMA PortClosedInv ==
  ASSUME OpaqueInv, FnInv, NEW i \in Isolates, ClosePort(i), UNCHANGED <<owners, raw>>,
         alive' \in {alive, alive \ {i}},
         dart' \in [Calls -> DartStates],
         \A k \in Calls :
           \/ dart'[k] = dart[k] /\ ~(OfIsolate(k, i) /\ dart[k] = "mail")
           \/ OfIsolate(k, i) /\ dart[k] = "mail" /\ dart'[k] = "undelivered"
           \/ OfIsolate(k, i) /\ dart[k] = "running" /\ dart'[k] = "lost" /\ i \notin alive',
         UNCHANGED <<next_call_id, completers, stage, closure, call_id, future, answer, reused>>
  PROVE  OpaqueInv' /\ FnInv'
  <1>1. /\ OpaqueInv' /\ open' = open \ {i}
        /\ \A j \in Isolates : Mail'[j] = IF j = i THEN {} ELSE Mail[j]
    BY ClosePortInv
  <1>2. FnTypeOK'
    BY DEF FnInv, FnTypeOK
  <1>3. Invokes'
    <2> SUFFICES ASSUME NEW k \in Calls, NEW j \in Isolates
                 PROVE  InvokeMessage(k) \in Mail'[j] <=> (OfIsolate(k, j) /\ dart[k] = "mail")'
      BY DEF Invokes
    <2>1. InvokeMessage(k) \in Mail[j] <=> OfIsolate(k, j) /\ dart[k] = "mail"
      BY DEF FnInv, Invokes
    <2>2. dart'[k] = "mail" => dart[k] = "mail" /\ ~OfIsolate(k, i)
      OBVIOUS
    <2>3. CASE j = i
      BY <1>1, <2>2, <2>3 DEF OfIsolate
    <2>4. CASE j # i
      <3>1. OfIsolate(k, j) /\ dart[k] = "mail" => dart'[k] = "mail"
        BY <2>4 DEF OfIsolate
      <3>2. InvokeMessage(k) \in Mail'[j] <=> InvokeMessage(k) \in Mail[j]
        BY <1>1, <2>4
      <3> QED BY <2>1, <2>2, <3>1, <3>2 DEF OfIsolate
    <2> QED BY <2>3, <2>4
  <1>4. CallInv'
    BY DEF FnInv, CallInv, OfIsolate
  <1>5. CompleterInv' /\ AnswerIsOwn'
    BY DEF FnInv, CompleterInv, AnswerIsOwn
  <1>6. CloneTravelsWithCall'
    BY <1>1 DEF FnInv, CloneTravelsWithCall, OfIsolate
  <1> QED BY <1>1, <1>2, <1>3, <1>4, <1>5, <1>6 DEF FnInv

LEMMA DisposeBridgeInv ==
  ASSUME OpaqueInv, FnInv, NEW i \in Isolates, DisposeBridge(i)
  PROVE  OpaqueInv' /\ FnInv'
  <1>1. /\ ClosePort(i) /\ UNCHANGED <<alive, owners, raw>>
        /\ dart' = [k \in Calls |->
             IF OfIsolate(k, i) /\ dart[k] = "mail" THEN "undelivered" ELSE dart[k]]
        /\ UNCHANGED <<next_call_id, completers, stage, closure, call_id, future, answer, reused>>
    BY DEF DisposeBridge, Dispose
  <1>2. dart' \in [Calls -> DartStates]
    BY <1>1 DEF FnInv, FnTypeOK, DartStates
  <1> QED BY <1>1, <1>2, PortClosedInv

LEMMA ExitIsolateInv ==
  ASSUME OpaqueInv, FnInv, NEW i \in Isolates, ExitIsolate(i)
  PROVE  OpaqueInv' /\ FnInv'
  <1>1. /\ ClosePort(i) /\ UNCHANGED <<owners, raw>> /\ alive' = alive \ {i}
        /\ dart' = [k \in Calls |->
             IF OfIsolate(k, i) /\ dart[k] = "mail" THEN "undelivered"
             ELSE IF OfIsolate(k, i) /\ dart[k] = "running" THEN "lost" ELSE dart[k]]
        /\ UNCHANGED <<next_call_id, completers, stage, closure, call_id, future, answer, reused>>
    BY DEF ExitIsolate, Exit
  <1>2. dart' \in [Calls -> DartStates]
    BY <1>1 DEF FnInv, FnTypeOK, DartStates
  <1>3. \A k \in Calls :
          \/ dart'[k] = dart[k] /\ ~(OfIsolate(k, i) /\ dart[k] = "mail")
          \/ OfIsolate(k, i) /\ dart[k] = "mail" /\ dart'[k] = "undelivered"
          \/ OfIsolate(k, i) /\ dart[k] = "running" /\ dart'[k] = "lost" /\ i \notin alive'
    BY <1>1
  <1> QED BY <1>1, <1>2, <1>3, PortClosedInv

-----------------------------------------------------------------------------

LEMMA InitInv == Init => Inv
  <1> SUFFICES ASSUME Init PROVE Inv
    OBVIOUS
  <1> USE DEF Init, OpaqueInit
  <1>1. \A i \in Isolates : Mail[i] = {}
    <2>1. Elements(<<>>) = {}
      BY DEF Elements
    <2>2. \A i \in Isolates : Mail[i] = Elements(<<>>)
      BY DEF Mail
    <2> QED BY <2>1, <2>2
  <1>2. OpaqueTypeOK /\ Once
    BY DEF OpaqueTypeOK, Once, HandleStates
  <1>3. Closed /\ Drops /\ Boxes /\ HandleInv
    BY <1>1 DEF Closed, Drops, Boxes, HandleInv
  <1>4. FnTypeOK
    BY IdFacts DEF FnTypeOK, Stages, DartStates
  <1>5. Invokes /\ CallInv /\ CompleterInv /\ AnswerIsOwn
    BY <1>1 DEF Invokes, OfIsolate, CallInv, CompleterInv, AnswerIsOwn
  <1>6. CloneTravelsWithCall
    BY DEF CloneTravelsWithCall
  <1> QED BY <1>2, <1>3, <1>4, <1>5, <1>6 DEF Inv, OpaqueInv, FnInv

LEMMA OpaqueStepInv == ASSUME Inv, OpaqueStep, UNCHANGED fnVars PROVE Inv'
  <1> USE DEF Inv
  <1>1. OpaqueInv' /\ CallsKept
    <2>1. PICK o \in Objects :
            \/ DropInner(o) \/ OnDrop(o)
            \/ \E h \in Handles :
                 \/ Encode(o, h) \/ Drop(o, h) \/ IntoInner(o, h)
                 \/ EncodeToDart(o, h) \/ DecodeInDart(o, h)
                 \/ \E g \in Handles : Clone(o, g, h)
      BY DEF OpaqueStep
    <2> QED BY <2>1, DropInnerInv, OnDropInv, EncodeInv, DropInv, IntoInnerInv,
               EncodeToDartInv, DecodeInDartInv, CloneInv
  <1> QED BY <1>1, BoxStepKeepsCalls

LEMMA NextInv == Inv /\ [Next]_vars => Inv'
  <1> SUFFICES ASSUME Inv, [Next]_vars PROVE Inv'
    OBVIOUS
  <1> USE DEF Inv
  <1>1. CASE OpaqueStep /\ UNCHANGED fnVars
    BY <1>1, OpaqueStepInv
  <1>2. CASE \E k \in Calls, o \in Objects : FetchId(k, o)
    BY <1>2, FetchIdInv
  <1>3. CASE \E k \in Calls : InsertCompleter(k) \/ PostInvoke(k) \/ DropFuture(k)
    BY <1>3, InsertCompleterInv, PostInvokeInv, DropFutureInv
  <1>4. CASE \E k \in Calls : OnInvoke(k) \/ Deliver(k) \/ EncodeOutputThrows(k)
    BY <1>4, OnInvokeInv, DeliverInv, EncodeOutputThrowsInv
  <1>5. CASE \E i \in Isolates : DisposeBridge(i) \/ ExitIsolate(i)
    BY <1>5, DisposeBridgeInv, ExitIsolateInv
  <1>6. CASE UNCHANGED vars
    <2>1. UNCHANGED opaqueVars /\ UNCHANGED fnVars
      BY <1>6 DEF vars
    <2>2. OpaqueInv' /\ Mail' = Mail
      BY <2>1, BoxesKept
    <2>3. CallsKept
      BY <2>1, <2>2 DEF CallsKept, opaqueVars
    <2> QED BY <2>1, <2>2, <2>3, BoxStepKeepsCalls
  <1> QED BY <1>1, <1>2, <1>3, <1>4, <1>5, <1>6 DEF Next

(* Boxes, ports and calls agree in every reachable state: the conjunction    *)
(* from which the theorems below follow.                                     *)
THEOREM Invariance == Spec => []Inv
  BY InitInv, NextInv, PTL DEF Spec

(* No persistent handle is deleted, moved or leaked under an owner of a      *)
(* clone, on whatever thread the other clones are dropped.                   *)
THEOREM HandleValid == Spec => []NoHandleUnderOwnerDeleted
  <1>1. Inv => NoHandleUnderOwnerDeleted
    BY DEF Inv, OpaqueInv, Boxes, NoHandleUnderOwnerDeleted
  <1> QED BY <1>1, Invariance, PTL

(* A box without owners was freed, moved out, or its address is in the mail, *)
(* once, unless the port of its isolate has closed.                          *)
THEOREM BoxFreed == Spec => []BoxFreedUnlessPortClosed
  <1>1. ASSUME Inv PROVE BoxFreedUnlessPortClosed
    <2> SUFFICES ASSUME NEW o \in Objects
                 PROVE  /\ handle[o] = "boxed" => owners[o] # {}
                        /\ handle[o] = "leaked" => Home[o] \notin open
                        /\ handle[o] = "posted" <=> InMail(Home[o], DropMessage(o))
                        /\ \A n, m \in DOMAIN mail[Home[o]] :
                             mail[Home[o]][n] = DropMessage(o) /\ mail[Home[o]][m] = DropMessage(o) => n = m
      BY DEF BoxFreedUnlessPortClosed
    <2>1. Home[o] \in Isolates
      BY OpaqueAssumption
    <2>2. DropMessage(o) \in Mail[Home[o]] <=> InMail(Home[o], DropMessage(o))
      BY <2>1 DEF Mail, Elements, InMail
    <2>3. handle[o] = "posted" <=> InMail(Home[o], DropMessage(o))
      BY <1>1, <2>1, <2>2 DEF Inv, OpaqueInv, Drops
    <2>4. \A n, m \in DOMAIN mail[Home[o]] :
            mail[Home[o]][n] = DropMessage(o) /\ mail[Home[o]][m] = DropMessage(o) => n = m
      BY <1>1, <2>1 DEF Inv, OpaqueInv, Once
    <2>5. (handle[o] = "boxed" => owners[o] # {}) /\ (handle[o] = "leaked" => Home[o] \notin open)
      BY <1>1 DEF Inv, OpaqueInv, Boxes
    <2> QED BY <2>3, <2>4, <2>5
  <1> QED BY <1>1, Invariance, PTL

(* The clone that a call carries lives exactly until its isolate has it in   *)
(* its hands, and leaks only with a message that the port did not deliver.   *)
THEOREM CloneTravels == Spec => []CloneTravelsWithCall
  <1>1. Inv => CloneTravelsWithCall
    BY DEF Inv, FnInv
  <1> QED BY <1>1, Invariance, PTL

(* Until a call id in use is given out again, whoever awaits a closure gets  *)
(* the output of that very call.                                             *)
THEOREM OwnAnswer == Spec => []AnswerIsOwn
  <1>1. Inv => AnswerIsOwn
    BY DEF Inv, FnInv
  <1> QED BY <1>1, Invariance, PTL

(* An awaited call has its completer in the map, and waits for ever only if  *)
(* its arguments did not decode, its output did not encode or its port is    *)
(* closed.                                                                   *)
THEOREM Pending == Spec => []PendingIsUnderWay
  <1>1. ASSUME Inv PROVE PendingIsUnderWay
    <2> SUFFICES ASSUME ~reused, NEW k \in Calls, future[k] = "pending"
                 PROVE  /\ completers[call_id[k]] = k
                        /\ UnderWay(k) \/ dart[k] \in {"failed", "unsent"} \/ Home[closure[k]] \notin open
      BY DEF PendingIsUnderWay
    <2>1. stage[k] \in {"inserted", "sent"} /\ (dart[k] = "none" <=> stage[k] # "sent")
      BY <1>1 DEF Inv, FnInv, FnTypeOK, CallInv, Stages
    <2>2. dart[k] # "over" /\ completers[call_id[k]] = k
      BY <1>1, <2>1 DEF Inv, FnInv, CompleterInv
    <2>3. dart[k] \in DartStates /\ open \subseteq alive
      BY <1>1 DEF Inv, FnInv, FnTypeOK, OpaqueInv, HandleInv
    <2>4. /\ dart[k] = "undelivered" => Home[closure[k]] \notin open
          /\ dart[k] = "lost" => Home[closure[k]] \notin open
      BY <1>1, <2>3 DEF Inv, FnInv, CallInv, CloneTravelsWithCall
    <2> QED BY <2>1, <2>2, <2>3, <2>4 DEF UnderWay, DartStates
  <1> QED BY <1>1, Invariance, PTL
-----------------------------------------------------------------------------
(* As many calls as there are ids                                          *)

\* The ids are given out in the order 1, 2, .., NumIds - 1, 0.
Rank(n) == IF n = 0 THEN NumIds - 1 ELSE n - 1

Started == {k \in Calls : stage[k] # "new"}

\* The next id is the one behind all that were given out, until all were.
NextIdIsFresh ==
  Cardinality(Started) < NumIds =>
    /\ Rank(next_call_id) = Cardinality(Started)
    /\ \A k \in Started : Rank(call_id[k]) < Rank(next_call_id)

OneCallPerId == \A k, q \in Started : call_id[k] = call_id[q] => k = q

\* The map leads from an id to the call that inserted it.
CompleterOwnsId ==
  \A n \in Ids : completers[n] # None =>
    /\ call_id[completers[n]] = n
    /\ stage[completers[n]] \in {"inserted", "sent"}

IdsInv == NextIdIsFresh /\ OneCallPerId /\ CompleterOwnsId /\ ~reused

(* The successor of an id has the next rank; % wraps at the last id only.  *)
LEMMA RankOfNext ==
  /\ \A n \in Ids : Rank(n) \in Ids
  /\ Rank(1 % NumIds) = 0
  /\ \A n \in Ids : Rank(n) < NumIds - 1 => Rank(NextId(n)) = Rank(n) + 1
  /\ \A n, m \in Ids : Rank(n) = Rank(m) => n = m
  <1>1. NumIds \in Nat /\ NumIds > 0
    BY DartFnAssumption
  <1>2. ASSUME NEW x \in 0 .. NumIds - 1 PROVE x % NumIds = x
    BY <1>1, SMT
  <1>3. NumIds % NumIds = 0
    BY <1>1, SMT
  <1>4. \A n \in Ids : NextId(n) = IF n = NumIds - 1 THEN 0 ELSE n + 1
    BY <1>1, <1>2, <1>3 DEF Ids, NextId
  <1>5. Rank(1 % NumIds) = 0
    <2>1. CASE NumIds = 1
      BY <1>3, <2>1 DEF Rank
    <2>2. CASE NumIds > 1
      BY <1>1, <1>2, <2>2 DEF Rank
    <2> QED BY <1>1, <2>1, <2>2
  <1>6. \A n \in Ids : Rank(n) < NumIds - 1 => Rank(NextId(n)) = Rank(n) + 1
    BY <1>1, <1>4 DEF Ids, Rank
  <1>7. \A n, m \in Ids : Rank(n) \in Ids /\ (Rank(n) = Rank(m) => n = m)
    BY <1>1 DEF Ids, Rank
  <1> QED BY <1>5, <1>6, <1>7

(* Only FetchId gives out an id, and only InsertCompleter puts one in the    *)
(* map: in every other step ids and map stay, or a completer leaves.         *)
IdsKept ==
  /\ UNCHANGED <<next_call_id, call_id, reused>>
  /\ \A k \in Calls : stage'[k] = stage[k] \/ (stage[k] = "inserted" /\ stage'[k] = "sent")
  /\ \A n \in Ids : completers'[n] \in {completers[n], None}

LEMMA IdSteps ==
  ASSUME FnTypeOK, [Next]_vars
  PROVE  \/ \E k \in Calls, o \in Objects : FetchId(k, o)
         \/ \E k \in Calls : InsertCompleter(k)
         \/ IdsKept
  <1>1. CASE UNCHANGED vars
    BY <1>1 DEF vars, fnVars, IdsKept
  <1>2. CASE OpaqueStep /\ UNCHANGED fnVars
    BY <1>2 DEF fnVars, IdsKept
  <1>3. ASSUME NEW k \in Calls, PostInvoke(k) PROVE IdsKept
    BY <1>3 DEF PostInvoke, FnTypeOK, IdsKept
  <1>4. ASSUME NEW k \in Calls, DropFuture(k) \/ OnInvoke(k) \/ EncodeOutputThrows(k) PROVE IdsKept
    BY <1>4 DEF DropFuture, OnInvoke, EncodeOutputThrows, IdsKept
  <1>5. ASSUME NEW k \in Calls, Deliver(k) PROVE IdsKept
    <2>1. completers' = [completers EXCEPT ![call_id[k]] = None]
      BY <1>5 DEF Deliver, HandleOutput
    <2>2. \A n \in Ids : completers'[n] \in {completers[n], None}
      BY <2>1 DEF FnTypeOK
    <2> QED BY <1>5, <2>2 DEF Deliver, IdsKept
  <1>6. ASSUME NEW i \in Isolates, DisposeBridge(i) \/ ExitIsolate(i) PROVE IdsKept
    BY <1>6 DEF DisposeBridge, ExitIsolate, IdsKept
  <1> QED BY <1>1, <1>2, <1>3, <1>4, <1>5, <1>6 DEF Next

LEMMA OthersKeepIds == ASSUME FnTypeOK, FnTypeOK', IdsInv, IdsKept PROVE IdsInv'
  <1>1. Started' = Started
    BY DEF Started, IdsKept
  <1>2. NextIdIsFresh' /\ OneCallPerId'
    BY <1>1 DEF IdsInv, NextIdIsFresh, OneCallPerId, Rank, IdsKept
  <1>3. CompleterOwnsId'
    BY DEF IdsInv, CompleterOwnsId, FnTypeOK, IdsKept
  <1> QED BY <1>2, <1>3 DEF IdsInv, IdsKept

LEMMA FetchIdKeepsIds ==
  ASSUME Inv, IdsInv, IsFiniteSet(Calls), Cardinality(Calls) <= NumIds,
         NEW k \in Calls, NEW o \in Objects, FetchId(k, o)
  PROVE  IdsInv'
  <1>1. /\ stage[k] = "new"
        /\ call_id' = [call_id EXCEPT ![k] = next_call_id]
        /\ next_call_id' = NextId(next_call_id)
        /\ stage' = [stage EXCEPT ![k] = "id"]
        /\ UNCHANGED <<completers, reused>>
    BY DEF FetchId
  <1>2. FnTypeOK /\ NumIds \in Nat \ {0}
    BY DartFnAssumption DEF Inv, FnInv
  <1>3. k \notin Started /\ Started \subseteq Calls /\ Started' = Started \cup {k}
    BY <1>1, <1>2 DEF FnTypeOK, Started
  <1>4. /\ IsFiniteSet(Started) /\ Cardinality(Started) \in Nat
        /\ Cardinality(Started') = Cardinality(Started) + 1
        /\ Cardinality(Started) < NumIds
    <2>1. IsFiniteSet(Started) /\ Cardinality(Started) \in Nat /\ Cardinality(Calls) \in Nat
      BY <1>3, FS_Subset, FS_CardinalityType
    <2>2. Cardinality(Started) <= Cardinality(Calls)
          /\ (Cardinality(Started) = Cardinality(Calls) => Started = Calls)
      BY <1>3, FS_Subset
    <2>3. Cardinality(Started) < NumIds
      BY <1>2, <1>3, <2>1, <2>2
    <2>4. Cardinality(Started') = Cardinality(Started) + 1
      BY <1>3, <2>1, FS_AddElement
    <2> QED BY <2>1, <2>3, <2>4
  <1>5. /\ Rank(next_call_id) = Cardinality(Started)
        /\ \A q \in Started : Rank(call_id[q]) < Cardinality(Started)
    BY <1>4 DEF IdsInv, NextIdIsFresh
  <1>6. \A q \in Calls : call_id'[q] = IF q = k THEN next_call_id ELSE call_id[q]
    BY <1>1, <1>2 DEF FnTypeOK
  <1>7. \A q \in Started : call_id[q] # next_call_id
    BY <1>4, <1>5
  <1>8. OneCallPerId'
    BY <1>3, <1>6, <1>7 DEF IdsInv, OneCallPerId
  <1>9. CompleterOwnsId'
    <2>1. \A q \in Calls : q # k => stage'[q] = stage[q] /\ call_id'[q] = call_id[q]
      BY <1>1, <1>2 DEF FnTypeOK
    <2> QED BY <1>1, <1>2, <2>1 DEF IdsInv, CompleterOwnsId, FnTypeOK
  <1>10. ASSUME Cardinality(Started') < NumIds
         PROVE  /\ Rank(next_call_id') = Cardinality(Started')
                /\ \A q \in Started' : Rank(call_id'[q]) < Rank(next_call_id')
    <2>1. Rank(next_call_id') = Rank(next_call_id) + 1
      <3>1. next_call_id \in Ids
        BY <1>2 DEF FnTypeOK
      <3>2. Rank(next_call_id) < NumIds - 1
        BY <1>2, <1>4, <1>5, <1>10
      <3> QED BY <1>1, <3>1, <3>2, RankOfNext
    <2>2. \A q \in Started : Rank(call_id[q]) \in Nat
      <3>1. \A q \in Started : Rank(call_id[q]) \in Ids
        BY <1>2, <1>3, RankOfNext DEF FnTypeOK
      <3>2. Ids \subseteq Nat
        BY <1>2 DEF Ids
      <3> QED BY <3>1, <3>2
    <2> QED BY <1>3, <1>4, <1>5, <1>6, <2>1, <2>2
  <1>11. NextIdIsFresh'
    BY <1>10 DEF NextIdIsFresh, Rank
  <1> QED BY <1>1, <1>8, <1>9, <1>11 DEF IdsInv

(* The id of the inserting call is its own, and a completer in the map would *)
(* belong to a call that has inserted already.                               *)
LEMMA InsertKeepsIds ==
  ASSUME Inv, IdsInv, NEW k \in Calls, InsertCompleter(k)
  PROVE  IdsInv'
  <1>1. /\ stage[k] = "id"
        /\ completers' = [completers EXCEPT ![call_id[k]] = k]
        /\ reused' = (reused \/ completers[call_id[k]] # None)
        /\ stage' = [stage EXCEPT ![k] = "inserted"]
        /\ UNCHANGED <<next_call_id, call_id>>
    BY DEF InsertCompleter
  <1>2. FnTypeOK /\ k # None
    BY DartFnAssumption DEF Inv, FnInv
  <1>3. \A q \in Calls : stage'[q] = IF q = k THEN "inserted" ELSE stage[q]
    BY <1>1, <1>2 DEF FnTypeOK
  <1>4. Started' = Started /\ k \in Started
    BY <1>1, <1>3 DEF Started
  <1>5. completers[call_id[k]] = None
    <2> SUFFICES ASSUME completers[call_id[k]] # None PROVE FALSE
      OBVIOUS
    <2> DEFINE q == completers[call_id[k]]
    <2>1. q \in Calls /\ call_id[q] = call_id[k] /\ stage[q] \in {"inserted", "sent"}
      BY <1>2 DEF FnTypeOK, IdsInv, CompleterOwnsId
    <2>2. q \in Started
      BY <2>1 DEF Started
    <2>3. q = k
      BY <1>4, <2>1, <2>2 DEF IdsInv, OneCallPerId
    <2> QED BY <1>1, <2>1, <2>3
  <1>6. NextIdIsFresh' /\ OneCallPerId'
    BY <1>1, <1>4 DEF IdsInv, NextIdIsFresh, OneCallPerId, Rank
  <1>7. \A n \in Ids : completers'[n] = IF n = call_id[k] THEN k ELSE completers[n]
    BY <1>1, <1>2 DEF FnTypeOK
  <1>8. CompleterOwnsId'
    BY <1>1, <1>2, <1>3, <1>7 DEF IdsInv, CompleterOwnsId, FnTypeOK
  <1> QED BY <1>1, <1>5, <1>6, <1>8 DEF IdsInv

(* As long as a process calls no more closures than there are ids, 2^32, no  *)
(* id is given out twice: fetch_add hands them out in their order, and the   *)
(* completer of an id belongs to the call that inserted it.                  *)
THEOREM IdsSuffice ==
  IsFiniteSet(Calls) /\ Cardinality(Calls) <= NumIds => (Spec => []IdsInv)
  <1> SUFFICES ASSUME IsFiniteSet(Calls), Cardinality(Calls) <= NumIds PROVE Spec => []IdsInv
    OBVIOUS
  <1>1. Init => IdsInv
    <2> SUFFICES ASSUME Init PROVE IdsInv
      OBVIOUS
    <2>1. Started = {} /\ Cardinality(Started) = 0
      BY FS_EmptySet DEF Init, Started
    <2>2. NextIdIsFresh /\ OneCallPerId
      BY <2>1, RankOfNext DEF Init, NextIdIsFresh, OneCallPerId
    <2> QED BY <2>2 DEF Init, IdsInv, CompleterOwnsId
  <1>2. Inv /\ Inv' /\ IdsInv /\ [Next]_vars => IdsInv'
    <2> SUFFICES ASSUME Inv, Inv', IdsInv, [Next]_vars PROVE IdsInv'
      OBVIOUS
    <2>1. FnTypeOK /\ FnTypeOK'
      BY DEF Inv, FnInv
    <2> QED BY <2>1, IdSteps, OthersKeepIds, FetchIdKeepsIds, InsertKeepsIds
  <1> QED BY <1>1, <1>2, Invariance, PTL DEF Spec

(* In such a process every future gets the output of its own call, and a     *)
(* pending one can still get it: without any condition on what happens.      *)
THEOREM AnswersNeverMix ==
  IsFiniteSet(Calls) /\ Cardinality(Calls) <= NumIds =>
    (Spec => [](\A k \in Calls : /\ answer[k] \in {None, k}
                                 /\ future[k] = "pending" => completers[call_id[k]] = k))
  <1> SUFFICES ASSUME IsFiniteSet(Calls), Cardinality(Calls) <= NumIds
               PROVE  Spec => [](\A k \in Calls :
                         /\ answer[k] \in {None, k}
                         /\ future[k] = "pending" => completers[call_id[k]] = k)
    OBVIOUS
  <1>1. Spec => []IdsInv
    BY IdsSuffice
  <1>2. IdsInv /\ AnswerIsOwn /\ PendingIsUnderWay =>
          \A k \in Calls : /\ answer[k] \in {None, k}
                           /\ future[k] = "pending" => completers[call_id[k]] = k
    BY DEF IdsInv, AnswerIsOwn, PendingIsUnderWay
  <1> QED BY <1>1, <1>2, OwnAnswer, Pending, PTL

-----------------------------------------------------------------------------
(* The abstract specification                                              *)

(* What the invariant says of one object, and what it is for BaseArc. *)
LEMMA FateOf ==
  ASSUME OpaqueInv, NEW o \in Objects
  PROVE  /\ handle[o] = "boxed" <=> owners[o] # {}
         /\ handle[o] = "none" => Fate[o] = "unborn"
         /\ handle[o] = "deleted" => Fate[o] = "dropped"
         /\ handle[o] \in {"boxed", "posted", "moved", "leaked"} => Fate[o] = "live"
  BY DEF OpaqueInv, OpaqueTypeOK, Boxes, Fate, HandleStates

(* A step that leaves the boxes as they are, up to the place of one, does not   *)
(* change what the objects are for BaseArc.                                     *)
LEMMA FateKept ==
  ASSUME \A o \in Objects : \/ handle'[o] = handle[o]
                            \/ /\ handle[o] \in {"boxed", "posted", "moved"}
                               /\ handle'[o] \in {"posted", "moved", "leaked"}
  PROVE  Fate' = Fate
  <1>1. \A o \in Objects :
          (CASE handle'[o] = "none" -> "unborn" [] handle'[o] = "deleted" -> "dropped" [] OTHER -> "live")
          = (CASE handle[o] = "none" -> "unborn" [] handle[o] = "deleted" -> "dropped" [] OTHER -> "live")
    OBVIOUS
  <1> QED BY <1>1 DEF Fate

(* A handle that is deleted, without an owner or with its last one. *)
LEMMA FateDropped ==
  ASSUME OpaqueInv, NEW o \in Objects, handle' = [handle EXCEPT ![o] = "deleted"]
  PROVE  Fate' = [Fate EXCEPT ![o] = "dropped"]
  <1>1. \A p \in Objects : handle'[p] = IF p = o THEN "deleted" ELSE handle[p]
    BY DEF OpaqueInv, OpaqueTypeOK
  <1>2. Fate' = [p \in Objects |-> IF p = o THEN "dropped" ELSE Fate[p]]
    BY <1>1 DEF Fate
  <1> QED BY <1>2 DEF Fate

LEMMA ReleaseReleases ==
  ASSUME OpaqueInv, NEW o \in Objects, NEW x \in owners[o], NEW here \in BOOLEAN,
         Release(o, x, here)
  PROVE  Abs!Release(o, x)
  <1>1. handle[o] = "boxed" /\ Fate[o] = "live"
    BY FateOf
  <1>2. CASE owners[o] = {x} /\ here
    BY <1>1, <1>2, FateDropped DEF Release, NonCloneDrop, Abs!Release
  <1>3. CASE owners[o] = {x} /\ ~here
    <2>1. PICK s \in {"posted", "leaked"} : handle' = [handle EXCEPT ![o] = s]
      BY <1>3 DEF Release, NonCloneDrop
    <2>2. Fate' = Fate
      BY <1>1, <2>1, FateKept DEF OpaqueInv, OpaqueTypeOK
    <2> QED BY <2>2 DEF Release, Abs!Release
  <1>4. CASE owners[o] # {x}
    <2>1. Fate' = Fate
      BY <1>4, FateKept DEF Release
    <2> QED BY <2>1 DEF Release, Abs!Release
  <1> QED BY <1>2, <1>3, <1>4

(* The deletion of a handle that has no owner any more. *)
LEMMA DeletionDestroys ==
  ASSUME OpaqueInv, NEW o \in Objects, handle[o] \in {"posted", "moved"},
         handle' = [handle EXCEPT ![o] = "deleted"], UNCHANGED owners
  PROVE  Abs!Destroy(o)
  <1>1. owners[o] = {} /\ Fate[o] = "live"
    BY FateOf
  <1> QED BY <1>1, FateDropped DEF Abs!Destroy

AbsStep == Abs!Next \/ UNCHANGED <<owners, Fate>>

LEMMA BoxSteps ==
  ASSUME OpaqueInv, OpaqueStep PROVE AbsStep
  <1>1. ASSUME NEW o \in Objects, DropInner(o) PROVE AbsStep
    <2>1. Abs!Destroy(o)
      BY <1>1, DeletionDestroys DEF DropInner
    <2> QED BY <2>1 DEF Abs!Next, AbsStep
  <1>2. ASSUME NEW o \in Objects, OnDrop(o) PROVE AbsStep
    <2>1. Home[o] \in Isolates /\ mail \in [Isolates -> Seq(Messages)]
      BY OpaqueAssumption DEF OpaqueInv, OpaqueTypeOK
    <2>2. mail[Home[o]] # <<>> /\ Head(mail[Home[o]]) = DropMessage(o)
      BY <1>2 DEF OnDrop
    <2>3. 1 \in DOMAIN mail[Home[o]] /\ mail[Home[o]][1] = DropMessage(o)
      BY <2>1, <2>2
    <2>4. handle[o] = "posted"
      BY <2>1, <2>3 DEF OpaqueInv, Drops, Mail, Elements
    <2>5. Abs!Destroy(o)
      BY <1>2, <2>4, DeletionDestroys DEF OnDrop
    <2> QED BY <2>5 DEF Abs!Next, AbsStep
  <1>3. ASSUME NEW o \in Objects, NEW h \in Handles, Encode(o, h) PROVE AbsStep
    <2>1. Fate[o] = "unborn" /\ \A p \in Objects : handle'[p] = IF p = o THEN "boxed" ELSE handle[p]
      BY <1>3, FateOf DEF Encode, OpaqueInv, OpaqueTypeOK
    <2>2. Fate' = [p \in Objects |-> IF p = o THEN "live" ELSE Fate[p]]
      BY <2>1 DEF Fate
    <2>3. Fate' = [Fate EXCEPT ![o] = "live"]
      BY <2>2 DEF Fate
    <2>4. Abs!New(o, h)
      BY <1>3, <2>1, <2>3 DEF Encode, Unused, Abs!New, Abs!Unused
    <2> QED BY <2>4 DEF Abs!Next, AbsStep
  <1>4. ASSUME NEW o \in Objects, NEW h \in Handles, Drop(o, h) PROVE AbsStep
    <2>1. h \in owners[o] /\ \E here \in BOOLEAN : Release(o, h, here)
      BY <1>4 DEF Drop, Holds, Contexts
    <2>2. Abs!Release(o, h)
      BY <2>1, ReleaseReleases
    <2> QED BY <2>2 DEF Abs!Next, AbsStep
  <1>5. ASSUME NEW o \in Objects, NEW h \in Handles, IntoInner(o, h) PROVE AbsStep
    <2>1. h \in owners[o] /\ owners[o] = {h}
      BY <1>5 DEF IntoInner, Holds
    <2>2. CASE \E here \in BOOLEAN : Release(o, h, here)
      <3>1. Abs!Release(o, h)
        BY <2>1, <2>2, ReleaseReleases
      <3> QED BY <3>1 DEF Abs!Next, AbsStep
    <2>3. CASE owners' = [owners EXCEPT ![o] = {}] /\ handle' = [handle EXCEPT ![o] = "moved"]
      <3>1. handle[o] = "boxed"
        BY <2>1, FateOf
      <3>2. Fate' = Fate
        BY <2>3, <3>1, FateKept DEF OpaqueInv, OpaqueTypeOK
      <3>3. owners[o] \ {h} = {}
        BY <2>1
      <3>4. Abs!Release(o, h)
        BY <2>1, <2>3, <3>2, <3>3 DEF Abs!Release
      <3> QED BY <3>4 DEF Abs!Next, AbsStep
    <2> QED BY <1>5, <2>2, <2>3 DEF IntoInner, Contexts
  <1>6. ASSUME NEW o \in Objects, NEW h \in Handles, EncodeToDart(o, h) PROVE AbsStep
    BY <1>6, FateKept DEF EncodeToDart, AbsStep
  <1>7. ASSUME NEW o \in Objects, NEW h \in Handles, DecodeInDart(o, h) PROVE AbsStep
    <2>1. Abs!Release(o, h)
      BY <1>7, ReleaseReleases DEF DecodeInDart
    <2> QED BY <2>1 DEF Abs!Next, AbsStep
  <1>8. ASSUME NEW o \in Objects, NEW g \in Handles, NEW h \in Handles, Clone(o, g, h) PROVE AbsStep
    <2>1. Abs!Share(o, g, h)
      BY <1>8, FateKept DEF Clone, Holds, Unused, Abs!Share, Abs!Unused
    <2> QED BY <2>1 DEF Abs!Next, AbsStep
  <1> QED BY <1>1, <1>2, <1>3, <1>4, <1>5, <1>6, <1>7, <1>8 DEF OpaqueStep

(* The clone that a call takes, and that its isolate drops. *)
LEMMA CallSteps ==
  ASSUME Inv, NEW k \in Calls PROVE
    /\ (\E o \in Objects : FetchId(k, o)) => AbsStep
    /\ OnInvoke(k) => AbsStep
    /\ InsertCompleter(k) \/ PostInvoke(k) \/ DropFuture(k) \/ Deliver(k) \/ EncodeOutputThrows(k)
         => AbsStep
  <1>1. ASSUME NEW o \in Objects, FetchId(k, o) PROVE AbsStep
    <2>1. PICK h \in Handles : h \in owners[o]
      BY <1>1 DEF FetchId, Holds
    <2>2. \A p \in Objects : k \notin owners[p]
      BY <1>1, DartFnAssumption DEF FetchId, Inv, FnInv, CallInv, CloneTravelsWithCall
    <2>3. Abs!Share(o, h, k)
      BY <1>1, <2>1, <2>2, FateKept DEF FetchId, Abs!Share, Abs!Unused
    <2> QED BY <2>3 DEF Abs!Next, AbsStep
  <1>2. ASSUME OnInvoke(k) PROVE AbsStep
    <2> DEFINE o == closure[k]
               i == Home[o]
    <2>1. /\ o # None /\ mail[i] # <<>> /\ Head(mail[i]) = InvokeMessage(k)
          /\ owners' = [owners EXCEPT ![o] = @ \ {k}]
          /\ handle' = [handle EXCEPT ![o] = IF owners[o] = {k} THEN "deleted" ELSE @]
      BY <1>2 DEF OnInvoke
    <2>2. o \in Objects /\ i \in Isolates
      BY <2>1, OpaqueAssumption DEF Inv, FnInv, FnTypeOK
    <2>3. 1 \in DOMAIN mail[i] /\ mail[i][1] = InvokeMessage(k)
      BY <2>1, <2>2 DEF Inv, OpaqueInv, OpaqueTypeOK
    <2>4. dart[k] = "mail"
      BY <2>2, <2>3 DEF Inv, FnInv, Invokes, Mail, Elements
    <2>5. k \in owners[o]
      BY <2>2, <2>4 DEF Inv, FnInv, CloneTravelsWithCall
    <2>6. Fate[o] = "live"
      BY <2>2, <2>5, FateOf DEF Inv
    <2>7. CASE owners[o] = {k}
      BY <2>1, <2>2, <2>5, <2>6, <2>7, FateDropped DEF Abs!Release, Abs!Next, AbsStep, Inv
    <2>8. CASE owners[o] # {k}
      <3>1. handle' = handle
        BY <2>1, <2>2, <2>8 DEF Inv, OpaqueInv, OpaqueTypeOK
      <3>2. Abs!Release(o, k)
        BY <2>1, <2>5, <3>1, FateKept DEF Abs!Release
      <3> QED BY <2>2, <3>2 DEF Abs!Next, AbsStep
    <2> QED BY <2>7, <2>8
  <1>3. ASSUME \/ InsertCompleter(k) \/ PostInvoke(k) \/ DropFuture(k) \/ Deliver(k)
               \/ EncodeOutputThrows(k)
        PROVE  AbsStep
    <2>1. UNCHANGED <<owners, handle>>
      BY <1>3 DEF InsertCompleter, PostInvoke, DropFuture, Deliver, EncodeOutputThrows,
             opaqueVars
    <2> QED BY <2>1, FateKept DEF AbsStep
  <1> QED BY <1>1, <1>2, <1>3

(* A port that closes leaks the boxes whose addresses are in it; no handle is   *)
(* deleted.                                                                     *)
LEMMA ClosingHidden ==
  ASSUME NEW i \in Isolates, DisposeBridge(i) \/ ExitIsolate(i) PROVE AbsStep
  <1>1. UNCHANGED owners /\ ClosePort(i)
    BY DEF DisposeBridge, ExitIsolate, Dispose, Exit
  <1>2. \A o \in Objects :
          handle'[o] = handle[o] \/ (handle[o] = "posted" /\ handle'[o] = "leaked")
    BY <1>1 DEF ClosePort
  <1>3. Fate' = Fate
    BY <1>2, FateKept
  <1> QED BY <1>1, <1>3 DEF AbsStep

(* A persistent handle is shared as the trait BaseArc says: it outlives its    *)
(* owners, who are Rust clones and calls under way, and is deleted once.       *)
THEOREM Refinement == Spec => ImplementsBaseArc
  <1>1. Init => Abs!Init
    BY DEF Init, OpaqueInit, Fate, Abs!Init
  <1>2. Inv /\ [Next]_vars => [Abs!Next]_(Abs!arcVars)
    <2> SUFFICES ASSUME Inv, [Next]_vars PROVE AbsStep
      BY DEF AbsStep, Abs!arcVars
    <2>1. CASE OpaqueStep
      BY <2>1, BoxSteps DEF Inv
    <2>2. CASE UNCHANGED vars
      BY <2>2, FateKept DEF vars, opaqueVars, AbsStep
    <2> QED BY <2>1, <2>2, CallSteps, ClosingHidden DEF Next
  <1> QED BY <1>1, <1>2, Invariance, PTL DEF Spec, ImplementsBaseArc, Abs!Spec
=============================================================================
