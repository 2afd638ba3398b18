---------------------------- MODULE AmdNicProofs ----------------------------
(***************************************************************************)
(* The network driver, for rings of every length, any number of calls of   *)
(* Send and of frames that arrive: each filled descriptor is handed over   *)
(* once and in order, what goes out is what Send was given, and in the     *)
(* order in which it was; the buffers' overlap is in the conditions.       *)
(***************************************************************************)
EXTENDS AmdNic, SequenceTheorems, TLAPS

USE RingSizeAssumption

\* The descriptor a number falls on, counting round the ring.
Slot(n) == n % RingSize

-----------------------------------------------------------------------------
(* The invariant. *)

Labels == SendLabels \union {"boot", "idle", "off", "handle", "receive", "rearm", "ack"}

\* Each context is somewhere, and interrupts are off until Activate has run.
Places ==
    /\ pc \in [Context -> Labels]
    /\ pc["main"] = "boot" => pc["irq"] = "off"

\* The card fills the receive ring once, from its start, and never finds a
\* descriptor again that it has filled.
FilledOnce ==
    /\ \A i \in Ring : i < rxAt => rx[i].state # "card"
    /\ \A i \in Ring : rx[rxAt].state = "card" /\ i > rxAt => rx[i].state = "card"
    /\ \A i \in Ring : rx[rxAt].state # "card" => rx[i].state # "card"

Delivery == [frame : Nat, bytes : Nat]

\* What the handler has passed holds no frame, and what is still in the ring is
\* newer than what was delivered, in the order of the ring.
StillToDeliver ==
    /\ delivered \in Seq(Delivery)
    /\ \A n \in DOMAIN delivered : delivered[n].frame <= arrivals
    /\ Holding => rx[currenRecvBuffer].state = "full"
    /\ \A i \in Ring : rx[i].state \in {"card", "full"} => i >= currenRecvBuffer
    /\ \A i \in Ring : rx[i].state = "full" => rx[i].frame <= arrivals
    /\ \A i, j \in Ring : rx[i].state = "full" /\ rx[j].state = "full" /\ i < j
                             => rx[i].frame < rx[j].frame
    /\ \A i \in Ring : rx[i].state = "full" /\ ~(Holding /\ i = currenRecvBuffer)
                          => \A n \in DOMAIN delivered : delivered[n].frame < rx[i].frame

\* Until a frame arrives over another, a descriptor that is still to be handed
\* over is for the frame in the receive buffers, so that there is one at most.
InBuffers ==
    /\ spoilt => "overlaid" \in hit
    /\ "overlaid" \notin hit =>
          \A i \in Ring : rx[i].state = "full" /\ ~(Holding /\ i = currenRecvBuffer)
                             => rx[i].frame = recvArea

\* Is some of context c's frame, or all, in the send buffers, and not published?
Copying(c) == pc[c] \in {"copyHead", "publish"}

\* Until frames crowd each other, or one arrives over another, the send buffers
\* hold as much of the one that is on its way out as was copied, and no other
\* is on its way.
AreaIsOut ==
    hit \intersect {"crowded", "overlaid"} = {} =>
        /\ \A i \in Ring : tx[i].own => Whole(tx[i].frame)
        /\ \A c \in Context : pc[c] = "publish" => Whole(frame[c])
        /\ \A c \in Context : pc[c] = "copyHead" => sendArea.tail = frame[c]
        /\ \A c \in Context : Copying(c) => /\ \A i \in Ring : ~tx[i].own
                                            /\ \A d \in Context \ {c} : ~Copying(d)

\* currentSendBuffer follows the number of claims.
Advances(c) == pc[c] \in {"increment", "store"}
Counted ==
    /\ (\A c \in Context : ~Advances(c)) => currentSendBuffer = Slot(claims)
    /\ \A c \in Context : Advances(c) =>
          frame[c] = claims /\ desc[c] = currentSendBuffer
    /\ \A c \in Context : pc[c] = "store" => loaded[c] = currentSendBuffer

\* A context that has claimed a descriptor holds it for a frame of its own that
\* is not out, less than a lap behind the last one claimed.
Held ==
    \A c \in Context : Claimed(c) =>
        /\ frame[c] > Len(sent) /\ frame[c] <= claims /\ claims < frame[c] + RingSize
        /\ desc[c] = Slot(frame[c] - 1)
        /\ \A d \in Context \ {c} : Claimed(d) => frame[d] # frame[c]
        /\ \A i \in Ring : tx[i].own => tx[i].frame # frame[c]

\* The card has sent all frames up to some number, and each later one is in its
\* descriptor or on its way there.
Pending ==
    /\ sent \in Seq(Nat) /\ Len(sent) <= claims
    /\ \A n \in 1 .. Len(sent) : sent[n] = n
    /\ txAt = Slot(Len(sent))
    /\ \A i \in Ring : tx[i].own =>
          tx[i].frame > Len(sent) /\ tx[i].frame <= claims /\ i = Slot(tx[i].frame - 1)
    /\ \A f \in 1 .. claims : f > Len(sent) =>
          \/ tx[Slot(f - 1)].own /\ tx[Slot(f - 1)].frame = f
          \/ \E c \in Context : Claimed(c) /\ frame[c] = f

InOrder == hit \intersect {"raced", "overwritten"} = {} => Counted /\ Held /\ Pending

IInv == TypeOK /\ Places /\ FilledOnce /\ StillToDeliver /\ InBuffers /\ AreaIsOut
               /\ InOrder /\ DeliveredOnce /\ TransmittedIntact

-----------------------------------------------------------------------------
LEMMA Sizes == RingSize \in Nat /\ RingSize > 0
  OBVIOUS

LEMMA SlotIsIndex ==
  ASSUME NEW n \in Nat
  PROVE  /\ Slot(n) \in Ring
         /\ n = RingSize * (n \div RingSize) + Slot(n)
         /\ n \div RingSize \in Nat
  BY SMT DEF Slot, Ring

LEMMA AfterInRing ==
  ASSUME NEW i \in Ring
  PROVE  After(i) \in Ring /\ After(i) = IF i = RingSize - 1 THEN 0 ELSE i + 1
<1>1. CASE i = RingSize - 1
  <2>1. (i + 1) % RingSize = 0
    BY <1>1, SMT DEF Ring
  <2> QED
    BY <1>1, <2>1 DEF After, Ring
<1>2. CASE i # RingSize - 1
  BY <1>2, SMT DEF After, Ring
<1> QED
  BY <1>1, <1>2

\* Two numbers that fall on one descriptor are at least a lap apart.
LEMMA LapApart ==
  ASSUME NEW m \in Nat, NEW n \in Nat, m < n, Slot(m) = Slot(n)
  PROVE  n >= m + RingSize
<1> DEFINE p == m \div RingSize
           q == n \div RingSize
<1>1. /\ m = RingSize * p + Slot(m) /\ n = RingSize * q + Slot(n)
      /\ p \in Nat /\ q \in Nat /\ Slot(m) \in Ring /\ Slot(n) \in Ring
  BY SlotIsIndex
<1> HIDE DEF p, q
<1>2. RingSize * p \in Nat /\ RingSize * q \in Nat /\ RingSize * p < RingSize * q
  BY <1>1, Sizes DEF Ring
<1>3. p < q
  BY <1>1, <1>2, Sizes
<1>4. RingSize * q >= RingSize * p + RingSize
  BY <1>1, <1>3, Sizes
<1> QED
  BY <1>1, <1>2, <1>4, Sizes DEF Ring

LEMMA DivisionUnique ==
  ASSUME NEW p \in Nat, NEW q \in Nat, NEW i \in Ring, NEW j \in Ring,
         RingSize * p + i = RingSize * q + j
  PROVE  i = j
<1>1. RingSize * p \in Nat /\ RingSize * q \in Nat
  BY Sizes
<1>2. CASE p < q
  <2>1. RingSize * q >= RingSize * p + RingSize
    BY <1>2, Sizes
  <2> QED
    BY <1>1, <2>1, Sizes DEF Ring
<1>3. CASE q < p
  <2>1. RingSize * p >= RingSize * q + RingSize
    BY <1>3, Sizes
  <2> QED
    BY <1>1, <2>1, Sizes DEF Ring
<1>4. CASE p = q
  BY <1>1, <1>4, Sizes DEF Ring
<1> QED
  BY <1>2, <1>3, <1>4

\* Counting on is going on round the ring.
LEMMA SlotAfter ==
  ASSUME NEW n \in Nat
  PROVE  After(Slot(n)) = Slot(n + 1)
<1> DEFINE p == n \div RingSize
           q == (n + 1) \div RingSize
<1>1. /\ n = RingSize * p + Slot(n) /\ n + 1 = RingSize * q + Slot(n + 1)
      /\ p \in Nat /\ q \in Nat /\ Slot(n) \in Ring /\ Slot(n + 1) \in Ring
  BY SlotIsIndex
<1> HIDE DEF p, q
<1>2. CASE Slot(n) = RingSize - 1
  <2>1. RingSize * (p + 1) + 0 = RingSize * q + Slot(n + 1) /\ p + 1 \in Nat /\ 0 \in Ring
    BY <1>1, <1>2, Sizes DEF Ring
  <2>2. Slot(n + 1) = 0
    BY <1>1, <2>1, DivisionUnique
  <2> QED
    BY <1>1, <1>2, <2>2, AfterInRing
<1>3. CASE Slot(n) # RingSize - 1
  <2>1. RingSize * p + (Slot(n) + 1) = RingSize * q + Slot(n + 1) /\ Slot(n) + 1 \in Ring
    BY <1>1, <1>3, Sizes DEF Ring
  <2>2. Slot(n + 1) = Slot(n) + 1
    BY <1>1, <2>1, DivisionUnique
  <2> QED
    BY <1>1, <1>3, <2>2, AfterInRing
<1> QED
  BY <1>2, <1>3

LEMMA SlotZero == Slot(0) = 0
<1>1. 0 = RingSize * (0 \div RingSize) + Slot(0) /\ 0 \div RingSize \in Nat /\ Slot(0) \in Ring
  BY SlotIsIndex
<1>2. RingSize * 0 + 0 = RingSize * (0 \div RingSize) + Slot(0) /\ 0 \in Ring
  BY <1>1, Sizes DEF Ring
<1> QED
  BY <1>1, <1>2, DivisionUnique

\* A lap further is the same descriptor.
LEMMA SlotRound ==
  ASSUME NEW n \in Nat
  PROVE  Slot(n + RingSize) = Slot(n)
<1> DEFINE p == n \div RingSize
           q == (n + RingSize) \div RingSize
<1>1. /\ n = RingSize * p + Slot(n) /\ n + RingSize = RingSize * q + Slot(n + RingSize)
      /\ p \in Nat /\ q \in Nat /\ Slot(n) \in Ring /\ Slot(n + RingSize) \in Ring
  BY SlotIsIndex, Sizes
<1> HIDE DEF p, q
<1>2. RingSize * (p + 1) + Slot(n) = RingSize * q + Slot(n + RingSize) /\ p + 1 \in Nat
  BY <1>1, Sizes DEF Ring
<1> QED
  BY <1>1, <1>2, DivisionUnique

\* A delivery may be appended if it is for a frame above those of all before it.
LEMMA AppendDelivery ==
  ASSUME NEW s \in Seq(Delivery), NEW e \in Delivery,
         \A i, j \in DOMAIN s : i < j => s[i].frame < s[j].frame,
         \A n \in DOMAIN s : s[n].frame < e.frame
  PROVE  \A i, j \in DOMAIN Append(s, e) : i < j => Append(s, e)[i].frame < Append(s, e)[j].frame
<1>1. /\ Append(s, e) \in Seq(Delivery) /\ Len(Append(s, e)) = Len(s) + 1
      /\ \A n \in 1 .. Len(s) : Append(s, e)[n] = s[n]
      /\ Append(s, e)[Len(s) + 1] = e
  BY AppendProperties
<1>2. DOMAIN Append(s, e) = 1 .. (Len(s) + 1) /\ DOMAIN s = 1 .. Len(s) /\ Len(s) \in Nat
  BY <1>1, LenProperties
<1> QED
  BY <1>1, <1>2

LEMMA RxTypes ==
  ASSUME TypeOK
  PROVE  \A i \in Ring : rx[i].frame \in Nat
  BY DEF TypeOK

LEMMA DeliveredFrames ==
  ASSUME StillToDeliver
  PROVE  \A n \in DOMAIN delivered : delivered[n].frame \in Nat
<1>1. \A n \in DOMAIN delivered : delivered[n] \in Delivery
  BY LenProperties, ElementOfSeq DEF StillToDeliver
<1> QED
  BY ONLY <1>1 DEF Delivery

\* When the handler goes on from a descriptor that is neither the card's nor
\* full, nothing of either kind lies behind it, also when it goes on at the
\* start of the ring.
LEMMA PassedOn ==
  ASSUME TypeOK, FilledOnce, StillToDeliver, NEW r,
         currenRecvBuffer' = After(currenRecvBuffer),
         r[currenRecvBuffer].state \notin {"card", "full"},
         \A i \in Ring : i # currenRecvBuffer => r[i] = rx[i],
         rx[currenRecvBuffer].state # "card"
  PROVE  \A i \in Ring : r[i].state \in {"card", "full"} => i >= currenRecvBuffer'
<1>1. /\ currenRecvBuffer \in Ring
      /\ currenRecvBuffer' = IF currenRecvBuffer = RingSize - 1 THEN 0 ELSE currenRecvBuffer + 1
  BY AfterInRing DEF TypeOK
<1> QED
  BY <1>1, Sizes DEF Ring, StillToDeliver

LEMMA ActivateKeeps ==
  ASSUME IInv, Activate
  PROVE  IInv'
<1> USE DEF IInv, Activate, At, Runs, Goto, sendVars, recvVars
<1>1. TypeOK'
  BY AfterInRing, Sizes DEF TypeOK, Places, SendLabels, Context, Ring, NoFrame
<1>2. Places'
  BY DEF Places, Labels, SendLabels, TypeOK, Context
<1>3. FilledOnce'
  BY DEF FilledOnce, TypeOK
<1>4. StillToDeliver'
  BY DEF StillToDeliver, Holding, TypeOK, Places, SendLabels, Context
<1>5. AreaIsOut'
  BY DEF AreaIsOut, Whole, Copying, Places, Context
<1>6. InOrder'
  BY DEF InOrder, Counted, Held, Pending, Advances, Claimed, Places, Context
<1>7. DeliveredOnce'
  BY DEF DeliveredOnce
<1>8. TransmittedIntact'
  BY DEF TransmittedIntact
<1>9. InBuffers'
  BY DEF InBuffers, Holding, SendLabels, Places, Context
<1> QED
  BY <1>1, <1>2, <1>3, <1>4, <1>5, <1>6, <1>7, <1>8, <1>9

LEMMA CallSendKeeps ==
  ASSUME IInv, CallSend
  PROVE  IInv'
<1> USE DEF IInv, CallSend, At, Runs, Goto, card, recvVars
<1>1. TypeOK'
  <2>1. sends' \in 0 .. MaxSends
    BY MaxSendsAssumption DEF TypeOK
  <2> QED
    BY <2>1 DEF TypeOK, Places, SendLabels, Context
<1>2. Places'
  BY DEF Places, Labels, SendLabels, TypeOK, Context
<1>3. FilledOnce'
  BY DEF FilledOnce, TypeOK
<1>4. StillToDeliver'
  BY DEF StillToDeliver, Holding, TypeOK, Places, SendLabels, Context
<1>5. AreaIsOut'
  BY DEF AreaIsOut, Whole, Copying, Places, Context
<1>6. InOrder'
  BY DEF InOrder, Counted, Held, Pending, Advances, Claimed, Places, Context
<1>7. DeliveredOnce'
  BY DEF DeliveredOnce
<1>8. TransmittedIntact'
  BY DEF TransmittedIntact
<1>9. InBuffers'
  BY DEF InBuffers, Holding, SendLabels, Places, Context
<1> QED
  BY <1>1, <1>2, <1>3, <1>4, <1>5, <1>6, <1>7, <1>8, <1>9

LEMMA ClaimKeeps ==
  ASSUME IInv, NEW c \in Context, Claim(c)
  PROVE  IInv'
<1> USE DEF IInv, Claim, At, Runs, Goto, card, recvVars
<1>1. TypeOK'
  <2>1. hit' \subseteq {"raced", "overwritten", "crowded", "overlaid", "late"}
    BY DEF TypeOK
  <2>2. desc' \in [Context -> Ring] /\ frame' \in [Context -> Nat] /\ claims' \in Nat
    BY DEF TypeOK
  <2> QED
    BY <2>1, <2>2 DEF TypeOK, Places, SendLabels, Context
<1>2. Places'
  BY DEF Places, Labels, SendLabels, TypeOK, Context
<1>3. FilledOnce'
  BY DEF FilledOnce, TypeOK
<1>4. StillToDeliver'
  BY DEF StillToDeliver, Holding, TypeOK, Places, SendLabels, Context
<1>5. AreaIsOut'
  BY DEF AreaIsOut, Whole, Copying, Places, Context
<1>6. InOrder'
  <2> SUFFICES ASSUME hit' \intersect {"raced", "overwritten"} = {}
               PROVE  Counted' /\ Held' /\ Pending'
    BY DEF InOrder
  <2>1. /\ Counted /\ Held /\ Pending
        /\ \A d \in Context \ {c} : ~(Claimed(d) /\ desc[d] = currentSendBuffer)
    BY DEF InOrder
  <2>2. /\ \A d \in Context : /\ Claimed(d)' <=> Claimed(d) \/ d = c
                              /\ Advances(d)' <=> Advances(d) \/ d = c
        /\ ~Claimed(c) /\ ~Advances(c) /\ \A d \in Context : pc'[d] = "store" <=> pc[d] = "store"
    BY DEF Claimed, Advances, Places, Context
  <2>3. claims \in Nat /\ Len(sent) \in Nat /\ Len(sent) <= claims
    BY <2>1, LenProperties DEF TypeOK, Pending
  <2>4. /\ frame'[c] = claims + 1 /\ desc'[c] = currentSendBuffer /\ claims' = claims + 1
        /\ \A d \in Context \ {c} : frame'[d] = frame[d] /\ desc'[d] = desc[d]
    BY DEF TypeOK
  <2>5. \A d \in Context : ~Advances(d)
    BY <2>1, <2>2 DEF Counted, Advances, Claimed
  <2>6. currentSendBuffer = Slot(claims)
    BY <2>1, <2>5 DEF Counted
  <2>7. Counted'
    BY <2>2, <2>4, <2>5 DEF Counted, Advances
  <2>8. \A d \in Context \ {c} : Claimed(d) => claims + 1 < frame[d] + RingSize
    <3> SUFFICES ASSUME NEW d \in Context \ {c}, Claimed(d), ~(claims + 1 < frame[d] + RingSize)
                 PROVE  FALSE
      OBVIOUS
    <3>1. /\ frame[d] \in Nat /\ frame[d] > 0 /\ frame[d] <= claims /\ claims < frame[d] + RingSize
          /\ desc[d] = Slot(frame[d] - 1) /\ frame[d] - 1 \in Nat
      <4>1. frame[d] \in Nat
        BY DEF TypeOK
      <4>2. /\ frame[d] > Len(sent) /\ frame[d] <= claims /\ claims < frame[d] + RingSize
            /\ desc[d] = Slot(frame[d] - 1)
        BY <2>1 DEF Held
      <4> QED
        BY ONLY <2>3, <4>1, <4>2
    <3>2. claims = (frame[d] - 1) + RingSize
      BY <2>3, <3>1, Sizes
    <3>3. Slot(claims) = Slot(frame[d] - 1)
      BY <3>1, <3>2, SlotRound
    <3> QED
      BY <2>1, <2>6, <3>1, <3>3
  <2>9. \A d \in Context : Claimed(d) => frame[d] \in Nat /\ frame[d] <= claims
    BY <2>1 DEF Held, TypeOK
  <2>10. \A i \in Ring : tx[i].own => tx[i].frame \in Nat /\ tx[i].frame <= claims
    BY <2>1 DEF Pending, TypeOK
  <2>11. Held'
    <3>1. ASSUME NEW d \in Context, Claimed(d)'
          PROVE  /\ frame'[d] > Len(sent) /\ frame'[d] <= claims' /\ claims' < frame'[d] + RingSize
                 /\ desc'[d] = Slot(frame'[d] - 1)
                 /\ \A e \in Context \ {d} : Claimed(e)' => frame'[e] # frame'[d]
                 /\ \A i \in Ring : tx[i].own => tx[i].frame # frame'[d]
      <4>1. CASE d = c
        BY ONLY c \in Context, <2>2, <2>3, <2>4, <2>6, <2>9, <2>10, <4>1, Sizes
      <4>2. CASE d # c
        BY ONLY c \in Context, d \in Context, <2>1, <2>2, <2>3, <2>4, <2>8, <2>9, <3>1, <4>2
           DEF Held
      <4> QED
        BY <4>1, <4>2
    <3> QED
      BY <3>1 DEF Held
  <2>12. Pending'
    <3>1. \A i \in Ring : tx[i].own =>
              tx[i].frame > Len(sent) /\ tx[i].frame <= claims' /\ i = Slot(tx[i].frame - 1)
      BY <2>1, <2>3, <2>4, <2>10 DEF Pending
    <3>2. ASSUME NEW f \in 1 .. claims', f > Len(sent)
          PROVE  \/ tx[Slot(f - 1)].own /\ tx[Slot(f - 1)].frame = f
                 \/ \E d \in Context : Claimed(d)' /\ frame'[d] = f
      <4>1. CASE f = claims + 1
        BY <2>2, <2>4, <4>1
      <4>2. CASE f # claims + 1
        <5>1. f \in 1 .. claims
          BY <2>3, <2>4, <4>2
        <5> QED
          BY ONLY c \in Context, <2>1, <2>2, <2>4, <3>2, <5>1 DEF Pending
      <4> QED
        BY <4>1, <4>2
    <3> QED
      BY <2>1, <2>3, <2>4, <3>1, <3>2 DEF Pending
  <2> QED
    BY <2>7, <2>11, <2>12
<1>7. DeliveredOnce'
  BY DEF DeliveredOnce
<1>8. TransmittedIntact'
  BY DEF TransmittedIntact
<1>9. InBuffers'
  BY DEF InBuffers, Holding, SendLabels, Places, Context
<1> QED
  BY <1>1, <1>2, <1>3, <1>4, <1>5, <1>6, <1>7, <1>8, <1>9

LEMMA IncrementKeeps ==
  ASSUME IInv, NEW c \in Context, Increment(c)
  PROVE  IInv'
<1> USE DEF IInv, Increment, At, Runs, Goto, card, recvVars
<1>1. TypeOK'
  BY AfterInRing, Sizes DEF TypeOK, Places, SendLabels, Context, Ring, NoFrame
<1>2. Places'
  BY DEF Places, Labels, SendLabels, TypeOK, Context
<1>3. FilledOnce'
  BY DEF FilledOnce, TypeOK
<1>4. StillToDeliver'
  BY DEF StillToDeliver, Holding, TypeOK, Places, SendLabels, Context
<1>5. AreaIsOut'
  BY DEF AreaIsOut, Whole, Copying, Places, Context
<1>6. InOrder'
  <2> SUFFICES ASSUME hit \intersect {"raced", "overwritten"} = {}
               PROVE  Counted' /\ Held' /\ Pending'
    BY DEF InOrder
  <2>1. Counted /\ Held /\ Pending
    BY DEF InOrder
  <2>2. \A d \in Context : (Claimed(d)' <=> Claimed(d)) /\ (Advances(d)' <=> Advances(d))
    BY DEF Claimed, Advances, Places, Context
  <2>3. Counted'
    BY <2>1, <2>2 DEF Counted, TypeOK, Places
  <2>4. Held'
    BY <2>1, <2>2 DEF Held
  <2>5. Pending'
    BY <2>1, <2>2 DEF Pending
  <2> QED
    BY <2>3, <2>4, <2>5
<1>7. DeliveredOnce'
  BY DEF DeliveredOnce
<1>8. TransmittedIntact'
  BY DEF TransmittedIntact
<1>9. InBuffers'
  BY DEF InBuffers, Holding, SendLabels, Places, Context
<1> QED
  BY <1>1, <1>2, <1>3, <1>4, <1>5, <1>6, <1>7, <1>8, <1>9

LEMMA StoreKeeps ==
  ASSUME IInv, NEW c \in Context, Store(c)
  PROVE  IInv'
<1> USE DEF IInv, Store, At, Runs, Goto, card, recvVars
<1>1. TypeOK'
  BY AfterInRing, Sizes DEF TypeOK, Places, SendLabels, Context, Ring, NoFrame
<1>2. Places'
  BY DEF Places, Labels, SendLabels, TypeOK, Context
<1>3. FilledOnce'
  BY DEF FilledOnce, TypeOK
<1>4. StillToDeliver'
  BY DEF StillToDeliver, Holding, TypeOK, Places, SendLabels, Context
<1>5. AreaIsOut'
  BY DEF AreaIsOut, Whole, Copying, Places, Context
<1>6. InOrder'
  <2> SUFFICES ASSUME hit \intersect {"raced", "overwritten"} = {}
               PROVE  Counted' /\ Held' /\ Pending'
    BY DEF InOrder
  <2>1. Counted /\ Held /\ Pending
    BY DEF InOrder
  <2>2. \A d \in Context : (Claimed(d)' <=> Claimed(d)) /\ (Advances(d)' <=> Advances(d) /\ d # c)
    BY DEF Claimed, Advances, Places, Context
  <2>3. Counted'
    <3>1. /\ frame[c] = claims /\ loaded[c] = desc[c] /\ desc[c] = Slot(frame[c] - 1)
          /\ frame[c] \in Nat /\ frame[c] > Len(sent) /\ Len(sent) \in Nat
      <4>1. pc[c] = "store" /\ Advances(c) /\ Claimed(c)
        BY DEF Advances, Claimed
      <4>2. frame[c] \in Nat
        BY DEF TypeOK
      <4>3. Len(sent) \in Nat
        BY <2>1, LenProperties DEF Pending
      <4> QED
        BY ONLY c \in Context, <2>1, <4>1, <4>2, <4>3 DEF Counted, Held
    <3>2. currentSendBuffer' = Slot(claims)
      <4>1. frame[c] - 1 \in Nat
        BY <3>1
      <4> QED
        BY <3>1, <4>1, SlotAfter
    <3>3. \A d \in Context : ~Advances(d)'
      \* two contexts that advance hold the same descriptor for the same frame
      BY <2>1, <2>2 DEF Counted, Held, Advances, Claimed
    <3> QED
      BY <3>2, <3>3 DEF Counted, Advances
  <2>4. Held'
    BY <2>1, <2>2 DEF Held
  <2>5. Pending'
    BY <2>1, <2>2 DEF Pending
  <2> QED
    BY <2>3, <2>4, <2>5
<1>7. DeliveredOnce'
  BY DEF DeliveredOnce
<1>8. TransmittedIntact'
  BY DEF TransmittedIntact
<1>9. InBuffers'
  BY DEF InBuffers, Holding, SendLabels, Places, Context
<1> QED
  BY <1>1, <1>2, <1>3, <1>4, <1>5, <1>6, <1>7, <1>8, <1>9

LEMMA CopyTailKeeps ==
  ASSUME IInv, NEW c \in Context, CopyTail(c)
  PROVE  IInv'
<1> USE DEF IInv, CopyTail, At, Runs, Goto, card, recvVars
<1>1. TypeOK'
  <2>1. Source(c) \in Nat
    BY DEF Source, TypeOK, NoFrame
  <2>2. sendArea' \in [tail : Nat, head : Nat]
    BY <2>1 DEF TypeOK
  <2>3. hit' \subseteq {"raced", "overwritten", "crowded", "overlaid", "late"}
    BY DEF TypeOK
  <2> QED
    BY <2>2, <2>3 DEF TypeOK, Places, SendLabels, Context
<1>2. Places'
  BY DEF Places, Labels, SendLabels, TypeOK, Context
<1>3. FilledOnce'
  BY DEF FilledOnce, TypeOK
<1>4. StillToDeliver'
  BY DEF StillToDeliver, Holding, TypeOK, Places, SendLabels, Context
<1>5. AreaIsOut'
  <2> SUFFICES ASSUME hit' \intersect {"crowded", "overlaid"} = {}
               PROVE  AreaIsOut'
    BY DEF AreaIsOut
  <2>1. Source(c) = frame[c]
    BY DEF Source, InBuffers
  <2>2. sendArea'.tail = frame[c] /\ sendArea'.head = sendArea.head
    BY <2>1 DEF TypeOK
  <2> QED
    BY <2>2 DEF AreaIsOut, Outstanding, Whole, Copying, Places, Context
<1>6. InOrder'
  BY DEF InOrder, Counted, Held, Pending, Advances, Claimed, Places, Context
<1>7. DeliveredOnce'
  BY DEF DeliveredOnce
<1>8. TransmittedIntact'
  BY DEF TransmittedIntact
<1>9. InBuffers'
  BY DEF InBuffers, Holding, SendLabels, Places, Context
<1> QED
  BY <1>1, <1>2, <1>3, <1>4, <1>5, <1>6, <1>7, <1>8, <1>9

LEMMA CopyHeadKeeps ==
  ASSUME IInv, NEW c \in Context, CopyHead(c)
  PROVE  IInv'
<1> USE DEF IInv, CopyHead, At, Runs, Goto, card, recvVars
<1>1. TypeOK'
  <2>1. Source(c) \in Nat
    BY DEF Source, TypeOK, NoFrame
  <2>2. sendArea' \in [tail : Nat, head : Nat]
    BY <2>1 DEF TypeOK
  <2>3. hit' \subseteq {"raced", "overwritten", "crowded", "overlaid", "late"}
    BY DEF TypeOK
  <2> QED
    BY <2>2, <2>3 DEF TypeOK, Places, SendLabels, Context
<1>2. Places'
  BY DEF Places, Labels, SendLabels, TypeOK, Context
<1>3. FilledOnce'
  BY DEF FilledOnce, TypeOK
<1>4. StillToDeliver'
  BY DEF StillToDeliver, Holding, TypeOK, Places, SendLabels, Context
<1>5. AreaIsOut'
  <2> SUFFICES ASSUME hit' \intersect {"crowded", "overlaid"} = {}
               PROVE  AreaIsOut'
    BY DEF AreaIsOut
  <2>1. Source(c) = frame[c]
    BY DEF Source, InBuffers
  <2>2. sendArea'.head = frame[c] /\ sendArea'.tail = sendArea.tail
    BY <2>1 DEF TypeOK
  <2> QED
    BY <2>2 DEF AreaIsOut, Outstanding, Whole, Copying, Places, Context
<1>6. InOrder'
  BY DEF InOrder, Counted, Held, Pending, Advances, Claimed, Places, Context
<1>7. DeliveredOnce'
  BY DEF DeliveredOnce
<1>8. TransmittedIntact'
  BY DEF TransmittedIntact
<1>9. InBuffers'
  BY DEF InBuffers, Holding, SendLabels, Places, Context
<1> QED
  BY <1>1, <1>2, <1>3, <1>4, <1>5, <1>6, <1>7, <1>8, <1>9

LEMMA PublishKeeps ==
  ASSUME IInv, NEW c \in Context, Publish(c)
  PROVE  IInv'
<1> USE DEF IInv, Publish, At, Runs, Goto, card, recvVars
<1>1. TypeOK'
  BY AfterInRing, Sizes DEF TypeOK, Places, SendLabels, Context, Ring, NoFrame
<1>2. Places'
  BY DEF Places, Labels, SendLabels, TypeOK, Context
<1>3. FilledOnce'
  BY DEF FilledOnce, TypeOK
<1>4. StillToDeliver'
  BY DEF StillToDeliver, Holding, TypeOK, Places, SendLabels, Context
<1>5. AreaIsOut'
  BY DEF AreaIsOut, Whole, Copying, Places, Context
<1>6. InOrder'
  <2> SUFFICES ASSUME hit' \intersect {"raced", "overwritten"} = {}
               PROVE  Counted' /\ Held' /\ Pending'
    BY DEF InOrder
  <2>1. Counted /\ Held /\ Pending /\ ~tx[desc[c]].own
    BY DEF InOrder
  <2>2. /\ \A d \in Context : /\ Claimed(d)' <=> Claimed(d) /\ d # c
                              /\ Advances(d)' <=> Advances(d)
        /\ Claimed(c) /\ \A d \in Context : pc'[d] = "store" <=> pc[d] = "store"
    BY DEF Claimed, Advances, Places, Context
  <2>3. /\ desc[c] \in Ring /\ tx'[desc[c]].own /\ tx'[desc[c]].frame = frame[c]
        /\ \A i \in Ring : i # desc[c] => tx'[i] = tx[i]
    BY DEF TypeOK
  <2>4. UNCHANGED <<currentSendBuffer, claims, loaded, desc, frame, sent, txAt>>
    OBVIOUS
  <2>5. Counted'
    BY ONLY c \in Context, <2>1, <2>2, <2>4 DEF Counted
  <2>6. Held'
    BY ONLY c \in Context, <2>1, <2>2, <2>3, <2>4 DEF Held
  <2>7. Pending'
    <3>1. \A i \in Ring : tx'[i].own =>
              tx'[i].frame > Len(sent) /\ tx'[i].frame <= claims /\ i = Slot(tx'[i].frame - 1)
      BY ONLY c \in Context, <2>1, <2>2, <2>3 DEF Pending, Held
    <3>2. ASSUME NEW f \in 1 .. claims, f > Len(sent)
          PROVE  \/ tx'[Slot(f - 1)].own /\ tx'[Slot(f - 1)].frame = f
                 \/ \E d \in Context : Claimed(d)' /\ frame[d] = f
      <4>1. Slot(f - 1) \in Ring
        BY SlotIsIndex DEF TypeOK
      <4> QED
        BY ONLY c \in Context, <2>1, <2>2, <2>3, <2>4, <3>2, <4>1 DEF Pending, Held
    <3> QED
      BY <2>1, <3>1, <3>2 DEF Pending
  <2> QED
    BY <2>5, <2>6, <2>7
<1>7. DeliveredOnce'
  BY DEF DeliveredOnce
<1>8. TransmittedIntact'
  BY DEF TransmittedIntact
<1>9. InBuffers'
  BY DEF InBuffers, Holding, SendLabels, Places, Context
<1> QED
  BY <1>1, <1>2, <1>3, <1>4, <1>5, <1>6, <1>7, <1>8, <1>9

LEMMA SelectKeeps ==
  ASSUME IInv, NEW c \in Context, Select(c)
  PROVE  IInv'
<1> USE DEF IInv, Select, At, Runs, Goto, card, sendVars, recvVars
<1>1. TypeOK'
  BY AfterInRing, Sizes DEF TypeOK, Places, SendLabels, Context, Ring, NoFrame
<1>2. Places'
  BY DEF Places, Labels, SendLabels, TypeOK, Context
<1>3. FilledOnce'
  BY DEF FilledOnce, TypeOK
<1>4. StillToDeliver'
  BY DEF StillToDeliver, Holding, TypeOK, Places, SendLabels, Context
<1>5. AreaIsOut'
  BY DEF AreaIsOut, Whole, Copying, Places, Context
<1>6. InOrder'
  BY DEF InOrder, Counted, Held, Pending, Advances, Claimed, Places, Context
<1>7. DeliveredOnce'
  BY DEF DeliveredOnce
<1>8. TransmittedIntact'
  BY DEF TransmittedIntact
<1>9. InBuffers'
  BY DEF InBuffers, Holding, SendLabels, Places, Context
<1> QED
  BY <1>1, <1>2, <1>3, <1>4, <1>5, <1>6, <1>7, <1>8, <1>9

LEMMA DemandKeeps ==
  ASSUME IInv, NEW c \in Context, Demand(c)
  PROVE  IInv'
<1> USE DEF IInv, Demand, At, Runs, Goto, card, recvVars
<1>1. TypeOK'
  <2>1. desc' \in [Context -> Ring] /\ loaded' \in [Context -> Ring] /\ frame' \in [Context -> Nat]
    BY Sizes DEF TypeOK, Ring, NoFrame
  <2> QED
    BY <2>1 DEF TypeOK, Places, SendLabels, Context
<1>2. Places'
  BY DEF Places, Labels, SendLabels, TypeOK, Context
<1>3. FilledOnce'
  BY DEF FilledOnce, TypeOK
<1>4. StillToDeliver'
  BY DEF StillToDeliver, Holding, TypeOK, Places, SendLabels, Context
<1>5. AreaIsOut'
  BY DEF AreaIsOut, Whole, Copying, Places, Context
<1>6. InOrder'
  BY DEF InOrder, Counted, Held, Pending, Advances, Claimed, Places, Context
<1>7. DeliveredOnce'
  BY DEF DeliveredOnce
<1>8. TransmittedIntact'
  BY DEF TransmittedIntact
<1>9. InBuffers'
  BY DEF InBuffers, Holding, SendLabels, Places, Context
<1> QED
  BY <1>1, <1>2, <1>3, <1>4, <1>5, <1>6, <1>7, <1>8, <1>9

LEMMA InterruptKeeps ==
  ASSUME IInv, Interrupt
  PROVE  IInv'
<1> USE DEF IInv, Interrupt, Goto, card, sendVars, recvVars
<1>1. TypeOK'
  BY AfterInRing, Sizes DEF TypeOK, Places, SendLabels, Context, Ring, NoFrame
<1>2. Places'
  BY DEF Places, Labels, SendLabels, TypeOK, Context
<1>3. FilledOnce'
  BY DEF FilledOnce, TypeOK
<1>4. StillToDeliver'
  BY DEF StillToDeliver, Holding, TypeOK, Places, SendLabels, Context
<1>5. AreaIsOut'
  BY DEF AreaIsOut, Whole, Copying, Places, Context
<1>6. InOrder'
  BY DEF InOrder, Counted, Held, Pending, Advances, Claimed, Places, Context
<1>7. DeliveredOnce'
  BY DEF DeliveredOnce
<1>8. TransmittedIntact'
  BY DEF TransmittedIntact
<1>9. InBuffers'
  BY DEF InBuffers, Holding, SendLabels, Places, Context
<1> QED
  BY <1>1, <1>2, <1>3, <1>4, <1>5, <1>6, <1>7, <1>8, <1>9

LEMMA HandleKeeps ==
  ASSUME IInv, Handle
  PROVE  IInv'
<1> USE DEF IInv, Handle, At, Runs, Goto, card, sendVars
<1>1. TypeOK'
  BY AfterInRing, Sizes DEF TypeOK, Places, SendLabels, Context, Ring, NoFrame
<1>2. Places'
  BY DEF Places, Labels, SendLabels, TypeOK, Context
<1>3. FilledOnce'
  BY DEF FilledOnce, TypeOK
<1>4. StillToDeliver'
  BY DEF StillToDeliver, Holding, TypeOK, Places, SendLabels, Context
<1>5. AreaIsOut'
  BY DEF AreaIsOut, Whole, Copying, Places, Context
<1>6. InOrder'
  BY DEF InOrder, Counted, Held, Pending, Advances, Claimed, Places, Context
<1>7. DeliveredOnce'
  BY DEF DeliveredOnce
<1>8. TransmittedIntact'
  BY DEF TransmittedIntact
<1>9. InBuffers'
  BY DEF InBuffers, Holding, SendLabels, Places, Context
<1> QED
  BY <1>1, <1>2, <1>3, <1>4, <1>5, <1>6, <1>7, <1>8, <1>9

LEMMA ReceiveDoneKeeps ==
  ASSUME IInv, ReceiveDone
  PROVE  IInv'
<1> USE DEF IInv, ReceiveDone, At, Runs, Goto, Here, card, sendVars, recvVars
<1>1. TypeOK'
  BY AfterInRing, Sizes DEF TypeOK, Places, SendLabels, Context, Ring, NoFrame
<1>2. Places'
  BY DEF Places, Labels, SendLabels, TypeOK, Context
<1>3. FilledOnce'
  BY DEF FilledOnce, TypeOK
<1>4. StillToDeliver'
  BY DEF StillToDeliver, Holding, TypeOK, Places, SendLabels, Context
<1>5. AreaIsOut'
  BY DEF AreaIsOut, Whole, Copying, Places, Context
<1>6. InOrder'
  BY DEF InOrder, Counted, Held, Pending, Advances, Claimed, Places, Context
<1>7. DeliveredOnce'
  BY DEF DeliveredOnce
<1>8. TransmittedIntact'
  BY DEF TransmittedIntact
<1>9. InBuffers'
  BY DEF InBuffers, Holding, SendLabels, Places, Context
<1> QED
  BY <1>1, <1>2, <1>3, <1>4, <1>5, <1>6, <1>7, <1>8, <1>9

LEMMA ReceiveSkipKeeps ==
  ASSUME IInv, ReceiveSkip
  PROVE  IInv'
<1> USE DEF IInv, ReceiveSkip, At, Runs, Here, card, sendVars
<1>1. TypeOK'
  BY AfterInRing, Sizes DEF TypeOK, Places, SendLabels, Context, Ring, NoFrame
<1>2. Places'
  BY DEF Places, Labels, SendLabels, TypeOK, Context
<1>3. FilledOnce'
  BY DEF FilledOnce, TypeOK
<1>4. StillToDeliver'
  <2>1. currenRecvBuffer \in Ring
    BY DEF TypeOK
  <2>2. \A i \in Ring : rx[i].state \in {"card", "full"} => i >= currenRecvBuffer'
    BY <2>1, PassedOn
  <2>3. ~Holding /\ ~Holding'
    BY DEF Holding, SendLabels
  <2> QED
    BY <2>2, <2>3 DEF StillToDeliver
<1>5. AreaIsOut'
  BY DEF AreaIsOut, Whole, Copying, Places, Context
<1>6. InOrder'
  BY DEF InOrder, Counted, Held, Pending, Advances, Claimed, Places, Context
<1>7. DeliveredOnce'
  BY DEF DeliveredOnce
<1>8. TransmittedIntact'
  BY DEF TransmittedIntact
<1>9. InBuffers'
  BY DEF InBuffers, Holding, SendLabels, Places, Context
<1> QED
  BY <1>1, <1>2, <1>3, <1>4, <1>5, <1>6, <1>7, <1>8, <1>9

LEMMA DeliverKeeps ==
  ASSUME IInv, NEW reply \in BOOLEAN, Deliver(reply)
  PROVE  IInv'
<1> DEFINE new == rx[currenRecvBuffer].frame
<1>a. PICK bytes \in Found : delivered' = Append(delivered, [frame |-> new, bytes |-> bytes])
  BY DEF Deliver
<1> DEFINE e == [frame |-> new, bytes |-> bytes]
<1>b. /\ ~Holding /\ Holding' /\ currenRecvBuffer \in Ring
      /\ rx[currenRecvBuffer].state = "full"
  BY DEF IInv, Deliver, At, Runs, Goto, Here, Holding, SendLabels, TypeOK, Places, Context
<1>c. delivered \in Seq(Delivery) /\ new \in Nat /\ e \in Delivery
  BY <1>b DEF IInv, StillToDeliver, TypeOK, Found, NoFrame, Delivery
<1>d. /\ delivered' \in Seq(Delivery) /\ Len(delivered') = Len(delivered) + 1
      /\ \A n \in 1 .. Len(delivered) : delivered'[n] = delivered[n]
      /\ delivered'[Len(delivered) + 1] = e
  BY <1>a, <1>c, AppendProperties
<1>e. \A n \in DOMAIN delivered' : n = Len(delivered) + 1 \/ n \in DOMAIN delivered
  BY <1>c, <1>d, LenProperties
<1>f. \A n \in DOMAIN delivered : delivered'[n] = delivered[n]
  BY <1>c, <1>d, LenProperties
<1> HIDE DEF new, e
<1>g. e.frame = new /\ e.bytes = bytes
  BY DEF e
<1> USE DEF IInv, Deliver, At, Runs, Goto, Here, card, sendVars
<1>1. TypeOK'
  BY AfterInRing, Sizes DEF TypeOK, Places, SendLabels, Context, Ring, NoFrame
<1>2. Places'
  BY DEF Places, Labels, SendLabels, TypeOK, Context
<1>3. FilledOnce'
  BY DEF FilledOnce, TypeOK
<1>4. StillToDeliver'
  <2>1. rx[currenRecvBuffer].frame = new
    BY DEF new
  <2>2. \A n \in DOMAIN delivered' : delivered'[n].frame <= arrivals
    BY <2>1, <1>b, <1>d, <1>e, <1>f, <1>g DEF StillToDeliver
  <2>3. \A i \in Ring : rx[i].state = "full" /\ i # currenRecvBuffer => new < rx[i].frame
    BY <2>1, <1>b, RxTypes DEF StillToDeliver, Ring
  <2>4. \A i \in Ring : rx[i].state = "full" /\ i # currenRecvBuffer
                          => \A n \in DOMAIN delivered' : delivered'[n].frame < rx[i].frame
    BY <2>3, <1>b, <1>d, <1>e, <1>f, <1>g DEF StillToDeliver
  <2> QED
    BY <2>2, <2>4, <1>b, <1>d DEF StillToDeliver
<1>5. AreaIsOut'
  BY DEF AreaIsOut, Whole, Copying, Places, Context
<1>6. InOrder'
  BY DEF InOrder, Counted, Held, Pending, Advances, Claimed, Places, Context
<1>7. DeliveredOnce'
  <2>1. \A n \in DOMAIN delivered : delivered[n].frame < e.frame
    BY <1>b, <1>g DEF StillToDeliver, new
  <2>2. \A i, j \in DOMAIN delivered' : i < j => delivered'[i].frame < delivered'[j].frame
    BY ONLY <1>a, <1>c, <2>1, DeliveredOnce, AppendDelivery DEF DeliveredOnce, e
  <2>3. "overlaid" \notin hit => bytes = new
    BY <1>b DEF InBuffers, Found, new
  <2>4. "overlaid" \notin hit =>
            \A n \in DOMAIN delivered' : delivered'[n].bytes = delivered'[n].frame
    BY <2>3, <1>d, <1>e, <1>f, <1>g DEF DeliveredOnce
  <2> QED
    BY <2>2, <2>4 DEF DeliveredOnce
<1>8. TransmittedIntact'
  BY DEF TransmittedIntact
<1>9. InBuffers'
  BY <1>b DEF InBuffers
<1> QED
  BY <1>1, <1>2, <1>3, <1>4, <1>5, <1>6, <1>7, <1>8, <1>9

LEMMA RearmKeeps ==
  ASSUME IInv, Rearm
  PROVE  IInv'
<1> USE DEF IInv, Rearm, At, Runs, Goto, card, sendVars
<1>1. TypeOK'
  <2>1. rx' \in [Ring -> [state : {"card", "full", "error", "emptied"}, frame : Nat]]
    BY DEF TypeOK, NoFrame
  <2> QED
    BY <2>1, AfterInRing DEF TypeOK, Places, Context, SendLabels
<1>2. Places'
  BY DEF Places, Labels, SendLabels, TypeOK, Context
<1>3. FilledOnce'
  <2>1. currenRecvBuffer \in Ring /\ rx[currenRecvBuffer].state = "full"
    BY DEF StillToDeliver, Holding, TypeOK
  <2>2. \A i \in Ring : rx'[i].state = "card" <=> rx[i].state = "card"
    BY <2>1 DEF TypeOK
  <2> QED
    BY <2>2 DEF FilledOnce, TypeOK
<1>4. StillToDeliver'
  <2>1. /\ rx'[currenRecvBuffer].state = "emptied"
        /\ \A i \in Ring : i # currenRecvBuffer => rx'[i] = rx[i]
    BY DEF TypeOK
  <2>2. currenRecvBuffer \in Ring /\ rx[currenRecvBuffer].state = "full"
    BY DEF StillToDeliver, Holding, TypeOK
  <2>3. \A i \in Ring : rx'[i].state \in {"card", "full"} => i >= currenRecvBuffer'
    BY <2>1, <2>2, PassedOn
  <2>4. ~Holding'
    BY DEF Holding, SendLabels, Places, Context
  <2> QED
    BY <2>1, <2>3, <2>4 DEF StillToDeliver
<1>5. AreaIsOut'
  BY DEF AreaIsOut, Whole, Copying, Places, Context
<1>6. InOrder'
  BY DEF InOrder, Counted, Held, Pending, Advances, Claimed, Places, Context
<1>7. DeliveredOnce'
  BY DEF DeliveredOnce
<1>8. TransmittedIntact'
  BY DEF TransmittedIntact
<1>9. InBuffers'
  <2>1. /\ currenRecvBuffer \in Ring /\ Holding
        /\ rx'[currenRecvBuffer].state = "emptied"
        /\ \A i \in Ring : i # currenRecvBuffer => rx'[i] = rx[i]
    BY DEF Holding, TypeOK
  <2>2. UNCHANGED <<recvArea, spoilt, hit>>
    OBVIOUS
  <2> QED
    BY ONLY InBuffers, <2>1, <2>2 DEF InBuffers
<1> QED
  BY <1>1, <1>2, <1>3, <1>4, <1>5, <1>6, <1>7, <1>8, <1>9

LEMMA AckKeeps ==
  ASSUME IInv, Ack
  PROVE  IInv'
<1> USE DEF IInv, Ack, At, Runs, Goto, Here, card, sendVars
<1>1. TypeOK'
  BY AfterInRing, Sizes DEF TypeOK, Places, SendLabels, Context, Ring, NoFrame
<1>2. Places'
  BY DEF Places, Labels, SendLabels, TypeOK, Context
<1>3. FilledOnce'
  BY DEF FilledOnce, TypeOK
<1>4. StillToDeliver'
  BY DEF StillToDeliver, Holding, TypeOK, Places, SendLabels, Context
<1>5. AreaIsOut'
  BY DEF AreaIsOut, Whole, Copying, Places, Context
<1>6. InOrder'
  BY DEF InOrder, Counted, Held, Pending, Advances, Claimed, Places, Context
<1>7. DeliveredOnce'
  BY DEF DeliveredOnce
<1>8. TransmittedIntact'
  BY DEF TransmittedIntact
<1>9. InBuffers'
  BY DEF InBuffers, Holding, SendLabels, Places, Context
<1> QED
  BY <1>1, <1>2, <1>3, <1>4, <1>5, <1>6, <1>7, <1>8, <1>9

LEMMA CardReceivesKeeps ==
  ASSUME IInv, NEW state \in {"full", "error"}, CardReceives(state)
  PROVE  IInv'
<1> USE DEF IInv, CardReceives, card, sendVars
<1>1. TypeOK'
  <2>1. rx' \in [Ring -> [state : {"card", "full", "error", "emptied"}, frame : Nat]]
    BY MaxArrivalsAssumption DEF TypeOK
  <2>2. rxAt' \in Ring /\ arrivals' \in 0 .. MaxArrivals
    BY AfterInRing, MaxArrivalsAssumption DEF TypeOK
  <2> QED
    BY <2>1, <2>2 DEF TypeOK
<1>2. Places'
  BY DEF Places, Labels, SendLabels, TypeOK, Context
<1>3. FilledOnce'
  <2>1. \A i \in Ring : rx'[i].state = "card" <=> i # rxAt /\ rx[i].state = "card"
    BY DEF TypeOK
  <2>2. rxAt \in Ring /\ rxAt' \in Ring /\ rxAt' = IF rxAt = RingSize - 1 THEN 0 ELSE rxAt + 1
    BY AfterInRing DEF TypeOK
  <2> QED
    BY <2>1, <2>2, Sizes DEF FilledOnce, Ring
<1>4. StillToDeliver'
  <2>1. arrivals \in Nat /\ \A n \in DOMAIN delivered : delivered[n].frame \in Nat
    BY ONLY IInv, MaxArrivalsAssumption, DeliveredFrames DEF IInv, TypeOK
  <2>2. /\ rx'[rxAt].state = state /\ rx'[rxAt].frame = arrivals + 1
        /\ \A i \in Ring : i # rxAt => rx'[i] = rx[i]
    BY DEF TypeOK
  <2>3. \A i \in Ring : rx[i].frame \in Nat
    BY DEF TypeOK
  <2>4. rxAt \in Ring /\ \A i \in Ring : i > rxAt => rx[i].state = "card"
    BY DEF TypeOK, FilledOnce
  <2>5. \A i \in Ring : rx'[i].state = "full" => rx'[i].frame <= arrivals'
    BY <2>1, <2>2, <2>3 DEF StillToDeliver
  <2>6. \A i, j \in Ring : rx'[i].state = "full" /\ rx'[j].state = "full" /\ i < j
                             => rx'[i].frame < rx'[j].frame
    BY <2>1, <2>2, <2>3, <2>4 DEF StillToDeliver, Ring
  <2>7. Holding' = Holding /\ (Holding => rxAt # currenRecvBuffer)
    BY DEF Holding, StillToDeliver
  <2>8. \A i \in Ring : rx'[i].state = "full" /\ ~(Holding /\ i = currenRecvBuffer)
                          => \A n \in DOMAIN delivered : delivered[n].frame < rx'[i].frame
    BY <2>1, <2>2, <2>3 DEF StillToDeliver
  <2>9. \A i \in Ring : rx'[i].state \in {"card", "full"} => i >= currenRecvBuffer
    BY <2>2, <2>4 DEF StillToDeliver
  <2>10. delivered \in Seq(Delivery) /\ \A n \in DOMAIN delivered : delivered[n].frame <= arrivals'
    BY <2>1 DEF StillToDeliver
  <2>11. Holding => rx'[currenRecvBuffer].state = "full"
    BY <2>2, <2>7 DEF StillToDeliver, TypeOK
  <2> QED
    BY <2>5, <2>6, <2>7, <2>8, <2>9, <2>10, <2>11 DEF StillToDeliver
<1>5. AreaIsOut'
  BY DEF AreaIsOut, Whole, Copying, Places, Context
<1>6. InOrder'
  BY DEF InOrder, Counted, Held, Pending, Advances, Claimed, Places, Context
<1>7. DeliveredOnce'
  BY DEF DeliveredOnce
<1>8. TransmittedIntact'
  BY DEF TransmittedIntact
<1>9. InBuffers'
  <2> SUFFICES ASSUME "overlaid" \notin hit'
               PROVE  InBuffers'
    BY DEF InBuffers
  <2>1. ~Holding /\ ~Holding' /\ \A i \in Ring : ~Unread(i)
    BY DEF Holding
  <2>2. \A i \in Ring : rx[i].state # "full"
    <3> SUFFICES ASSUME NEW i \in Ring, rx[i].state = "full" PROVE Unread(i)
      BY <2>1
    <3>1. \A n \in DOMAIN delivered : delivered[n].frame < rx[i].frame
      BY <2>1 DEF StillToDeliver
    <3>2. \A n \in DOMAIN delivered : delivered[n].frame \in Nat /\ rx[i].frame \in Nat
      BY DeliveredFrames, RxTypes
    <3> QED
      BY ONLY <3>1, <3>2, rx[i].state = "full" DEF Unread
  <2>3. /\ rxAt \in Ring /\ rx'[rxAt].frame = recvArea'
        /\ \A i \in Ring : i # rxAt => rx'[i] = rx[i]
    BY DEF TypeOK
  <2>4. ~spoilt'
    BY <2>1 DEF InBuffers
  <2> QED
    BY ONLY <2>2, <2>3, <2>4 DEF InBuffers
<1> QED
  BY <1>1, <1>2, <1>3, <1>4, <1>5, <1>6, <1>7, <1>8, <1>9

LEMMA CardMissesKeeps ==
  ASSUME IInv, CardMisses
  PROVE  IInv'
<1> USE DEF IInv, CardMisses, card, sendVars, recvVars
<1>1. TypeOK'
  BY MaxArrivalsAssumption DEF TypeOK
<1>2. Places'
  BY DEF Places, Labels, SendLabels, TypeOK, Context
<1>3. FilledOnce'
  BY DEF FilledOnce, TypeOK
<1>4. StillToDeliver'
  <2>1. arrivals \in Nat /\ \A n \in DOMAIN delivered : delivered[n].frame \in Nat
    BY ONLY IInv, MaxArrivalsAssumption, DeliveredFrames DEF IInv, TypeOK
  <2>2. \A i \in Ring : rx[i].frame \in Nat
    BY DEF TypeOK
  <2> QED
    BY <2>1, <2>2 DEF StillToDeliver, Holding
<1>5. AreaIsOut'
  BY DEF AreaIsOut, Whole, Copying, Places, Context
<1>6. InOrder'
  BY DEF InOrder, Counted, Held, Pending, Advances, Claimed, Places, Context
<1>7. DeliveredOnce'
  BY DEF DeliveredOnce
<1>8. TransmittedIntact'
  BY DEF TransmittedIntact
<1>9. InBuffers'
  BY DEF InBuffers, Holding, SendLabels, Places, Context
<1> QED
  BY <1>1, <1>2, <1>3, <1>4, <1>5, <1>6, <1>7, <1>8, <1>9

LEMMA CardTransmitsKeeps ==
  ASSUME IInv, CardTransmits
  PROVE  IInv'
<1> USE DEF IInv, CardTransmits, recvVars
<1>1. TypeOK'
  <2>1. tx' \in [Ring -> [own : BOOLEAN, frame : Nat]]
    BY DEF TypeOK, NoFrame
  <2>2. txAt' \in Ring
    BY AfterInRing DEF TypeOK
  <2>3. garbled' \in BOOLEAN
    BY Zenon DEF TypeOK
  <2> QED
    BY <2>1, <2>2, <2>3 DEF TypeOK
<1>2. Places'
  BY DEF Places, Labels, SendLabels, TypeOK, Context
<1>3. FilledOnce'
  BY DEF FilledOnce, TypeOK
<1>4. StillToDeliver'
  BY DEF StillToDeliver, Holding, TypeOK, Places, SendLabels, Context
<1>5. AreaIsOut'
  BY DEF AreaIsOut, Whole, Copying, Places, Context
<1>6. InOrder'
  <2> SUFFICES ASSUME hit \intersect {"raced", "overwritten"} = {}
               PROVE  Counted' /\ Held' /\ Pending'
    BY DEF InOrder
  <2> DEFINE out == Len(sent)
             next == tx[txAt].frame
  <2>1. Counted /\ Held /\ Pending
    BY DEF InOrder
  <2>2. /\ out \in Nat /\ claims \in Nat /\ txAt \in Ring /\ next \in Nat
        /\ next > out /\ next <= claims /\ txAt = Slot(out) /\ txAt = Slot(next - 1)
    BY <2>1, LenProperties DEF Pending, TypeOK
  <2>3. \A d \in Context : (Claimed(d)' <=> Claimed(d)) /\ (Advances(d)' <=> Advances(d))
    BY DEF Claimed, Advances
  <2>4. next = out + 1
    <3> SUFFICES ASSUME next # out + 1 PROVE FALSE
      OBVIOUS
    <3>1. next - 1 >= out + RingSize
      BY <2>2, LapApart
    <3>2. PICK c \in Context : Claimed(c) /\ frame[c] = out + 1
      <4>1. out + 1 \in 1 .. claims /\ out + 1 > out /\ (out + 1) - 1 = out
        BY <2>2
      <4> QED
        BY <2>1, <2>2, <4>1 DEF Pending
    <3>3. claims < frame[c] + RingSize
      BY <2>1, <3>2 DEF Held
    <3> QED
      BY <2>2, <3>1, <3>2, <3>3, Sizes
  <2>5. /\ sent' \in Seq(Nat) /\ Len(sent') = out + 1 /\ sent'[out + 1] = out + 1
        /\ \A n \in 1 .. out : sent'[n] = sent[n]
    BY <2>1, <2>2, <2>4, AppendProperties DEF Pending
  <2>6. ~tx'[txAt].own /\ \A i \in Ring : i # txAt => tx'[i] = tx[i]
    BY <2>2 DEF TypeOK
  <2>7. Counted'
    BY <2>1, <2>3 DEF Counted
  <2>8. Held'
    <3>1. \A d \in Context : Claimed(d) => frame[d] \in Nat /\ frame[d] > out + 1
      <4>1. \A d \in Context : frame[d] \in Nat
        BY DEF TypeOK
      <4>2. \A d \in Context : Claimed(d) => frame[d] > out /\ frame[d] # next
        BY <2>1, <2>2 DEF Held
      <4> QED
        BY ONLY <2>2, <2>4, <4>1, <4>2
    <3> QED
      BY <2>1, <2>3, <2>5, <2>6, <3>1 DEF Held
  <2>9. Pending'
    <3>1. \A n \in 1 .. Len(sent') : sent'[n] = n
      BY <2>1, <2>2, <2>5 DEF Pending
    <3>2. txAt' = Slot(Len(sent'))
      BY <2>2, <2>5, SlotAfter
    <3>3. ASSUME NEW i \in Ring, tx'[i].own
          PROVE  tx'[i].frame > out + 1 /\ tx'[i].frame <= claims /\ i = Slot(tx'[i].frame - 1)
      <4>1. i # txAt /\ tx'[i] = tx[i]
        BY <2>6, <3>3
      <4>2. /\ tx[i].frame \in Nat /\ tx[i].frame > out /\ tx[i].frame <= claims
            /\ i = Slot(tx[i].frame - 1)
        BY <2>1, <3>3, <4>1 DEF Pending, TypeOK
      <4>3. tx[i].frame # out + 1
        BY <2>2, <2>4, <4>1, <4>2
      <4> QED
        BY <2>2, <4>1, <4>2, <4>3
    <3>4. ASSUME NEW f \in 1 .. claims, f > out + 1
          PROVE  \/ tx'[Slot(f - 1)].own /\ tx'[Slot(f - 1)].frame = f
                 \/ \E d \in Context : Claimed(d)' /\ frame[d] = f
      <4>0. f - 1 \in Nat /\ f > out
        BY <2>2, <3>4
      <4>1. Slot(f - 1) \in Ring
        BY ONLY <4>0, SlotIsIndex
      <4>2. CASE tx[Slot(f - 1)].own /\ tx[Slot(f - 1)].frame = f
        BY <2>2, <2>4, <2>6, <3>4, <4>1, <4>2
      <4>3. CASE \E d \in Context : Claimed(d) /\ frame[d] = f
        BY <2>3, <4>3
      <4> QED
        BY <2>1, <4>0, <4>2, <4>3 DEF Pending
    <3> QED
      BY <2>2, <2>4, <2>5, <3>1, <3>2, <3>3, <3>4 DEF Pending
  <2> QED
    BY <2>7, <2>8, <2>9
<1>7. DeliveredOnce'
  BY DEF DeliveredOnce
<1>8. TransmittedIntact'
  BY DEF TransmittedIntact, AreaIsOut, TypeOK
<1>9. InBuffers'
  BY DEF InBuffers, Holding, SendLabels, Places, Context
<1> QED
  BY <1>1, <1>2, <1>3, <1>4, <1>5, <1>6, <1>7, <1>8, <1>9

LEMMA StutterKeeps ==
  ASSUME IInv, UNCHANGED vars
  PROVE  IInv'
<1> USE DEF IInv, vars, card, sendVars, recvVars
<1>1. TypeOK'
  BY DEF TypeOK
<1>2. Places'
  BY DEF Places, Labels, SendLabels, TypeOK, Context
<1>3. FilledOnce'
  BY DEF FilledOnce, TypeOK
<1>4. StillToDeliver'
  BY DEF StillToDeliver, Holding, TypeOK, Places, SendLabels, Context
<1>5. AreaIsOut'
  BY DEF AreaIsOut, Whole, Copying, Places, Context
<1>6. InOrder'
  BY DEF InOrder, Counted, Held, Pending, Advances, Claimed, Places, Context
<1>7. DeliveredOnce'
  BY DEF DeliveredOnce
<1>8. TransmittedIntact'
  BY DEF TransmittedIntact
<1>9. InBuffers'
  BY DEF InBuffers, Holding, SendLabels, Places, Context
<1> QED
  BY <1>1, <1>2, <1>3, <1>4, <1>5, <1>6, <1>7, <1>8, <1>9

-----------------------------------------------------------------------------
(* The invariant and what follows from it. *)

LEMMA InitIInv == Init => IInv
<1> SUFFICES ASSUME Init PROVE IInv
  OBVIOUS
<1> USE DEF Init
<1>1. TypeOK
  <2>1. 0 \in Ring
    BY RingSizeAssumption DEF Ring
  <2>2. 0 \in 0..MaxSends
    BY MaxSendsAssumption
  <2>3. 0 \in 0..MaxArrivals
    BY MaxArrivalsAssumption
  <2>4. /\ tx \in [Ring -> [own : BOOLEAN, frame : Nat]]
        /\ rx \in [Ring -> [state : {"card", "full", "error", "emptied"}, frame : Nat]]
    BY DEF NoFrame
  <2>5. pc["main"] = "boot" /\ pc["irq"] = "off"
    BY DEF Context
  <2>6. /\ desc \in [Context -> Ring] /\ loaded \in [Context -> Ring]
        /\ frame \in [Context -> Nat]
    BY <2>1 DEF NoFrame
  <2> QED
    BY <2>1, <2>2, <2>3, <2>4, <2>5, <2>6 DEF TypeOK, NoFrame
<1>2. Places
  BY DEF Places, Labels, Context
<1>3. FilledOnce
  BY Sizes DEF FilledOnce, Ring
<1>4. StillToDeliver
  BY Sizes DEF StillToDeliver, Holding, SendLabels, Context, Ring
<1>5. AreaIsOut /\ InBuffers
  BY DEF AreaIsOut, Copying, InBuffers, Context
<1>6. InOrder
  <2>1. Slot(0) = 0
    BY SlotZero
  <2> QED
    BY <2>1 DEF InOrder, Counted, Held, Pending, Advances, Claimed, Context
<1>7. DeliveredOnce /\ TransmittedIntact
  BY DEF DeliveredOnce, Increasing, TransmittedIntact
<1> QED
  BY <1>1, <1>2, <1>3, <1>4, <1>5, <1>6, <1>7 DEF IInv

LEMMA NextIInv ==
  ASSUME IInv, [Next]_vars
  PROVE  IInv'
<1>1. CASE Activate \/ CallSend \/ Idle \/ UNCHANGED vars
  BY <1>1, ActivateKeeps, CallSendKeeps, StutterKeeps DEF Idle
<1>2. ASSUME NEW c \in Context, SendStep(c)
      PROVE  IInv'
  BY <1>2, ClaimKeeps, IncrementKeeps, StoreKeeps, CopyTailKeeps, CopyHeadKeeps,
     PublishKeeps, SelectKeeps, DemandKeeps DEF SendStep
<1>3. CASE Interrupt \/ HandlerStep
  <2>1. "irq" \in Context
    BY DEF Context
  <2> QED
    BY <1>2, <1>3, <2>1, InterruptKeeps, HandleKeeps, ReceiveDoneKeeps, ReceiveSkipKeeps,
       DeliverKeeps, RearmKeeps, AckKeeps DEF HandlerStep
<1>4. CASE (\E state \in {"full", "error"} : CardReceives(state)) \/ CardMisses \/ CardTransmits
  BY <1>4, CardReceivesKeeps, CardMissesKeeps, CardTransmitsKeeps
<1> QED
  BY <1>1, <1>2, <1>3, <1>4 DEF Next

LEMMA Invariant == Spec => []IInv
<1>1. IInv /\ [Next]_vars => IInv'
  BY NextIInv
<1> QED
  BY <1>1, InitIInv, PTL DEF Spec

\* Type correctness: however Send, the handler and the card interleave, every
\* index of the driver and of the card stays in its ring.
THEOREM TypeCorrect == Spec => []TypeOK
<1>1. IInv => TypeOK
  BY DEF IInv
<1> QED
  BY <1>1, Invariant, PTL

\* DeliveredOnce: Receive hands over each descriptor that the card filled once and
\* in that order, although its loop goes on round the ring over descriptors that
\* never become the card's again; and with the bytes it was filled with, unless
\* a frame arrived over one that was not handed over or still in use.
THEOREM EachDeliveredOnce == Spec => []DeliveredOnce
<1>1. IInv => DeliveredOnce
  BY DEF IInv
<1> QED
  BY <1>1, Invariant, PTL

\* TransmittedIntact: a frame that goes out is the one that Send was given,
\* unless the copying of another began, also in the middle of its own, before it
\* was out, or a frame arrived over one in the receive buffers.
THEOREM SentAsGiven == Spec => []TransmittedIntact
<1>1. IInv => TransmittedIntact
  BY DEF IInv
<1> QED
  BY <1>1, Invariant, PTL

\* SentInOrder: frames go out in the order in which Send claimed descriptors,
\* also when a reply is published while the Send it interrupted still copies,
\* as long as no two Sends claim one descriptor and none overwrites one.
THEOREM SentAsClaimed == Spec => []SentInOrder
<1>1. IInv => SentInOrder
  BY LenProperties DEF IInv, InOrder, Pending, SentInOrder, Increasing
<1> QED
  BY <1>1, Invariant, PTL

=============================================================================
