--------------------------- MODULE EtherArpProofs ---------------------------
(***************************************************************************)
(* Proofs about ARP, for every set of addresses and cards, every cache     *)
(* length and any number of frames and resolutions.                        *)
(***************************************************************************)
EXTENDS EtherArp, TLAPS

Entry == [ip : Ip, mac : Mac]

\* The search has passed only entries of other addresses.
Passed == \A n \in 1..var : cache[n].ip # ip

IInv == TypeOK /\ Passed /\ ResolveFindsFirst

USE AddressAssumption, CacheSizeAssumption, BoundsAssumption

LEMMA InitInv == Init => IInv
<1> SUFFICES ASSUME Init PROVE IInv
  OBVIOUS
<1>1. TypeOK
  BY DEF Init, TypeOK, Type
<1>2. Passed /\ ResolveFindsFirst
  BY DEF Init, Passed, ResolveFindsFirst
<1> QED
  BY <1>1, <1>2 DEF IInv

\* What is known of a frame, whatever else it holds.
LEMMA FrameFields ==
    ASSUME NEW f \in Incoming
    PROVE  /\ f.srcIp \in Ip /\ f.srcMac \in Mac /\ f.from \in Mac
           /\ \E d, t, msg, to : f = Frame(f.srcMac, f.srcIp, t, msg, d, to)
<1>1. f.srcIp \in Ip /\ f.srcMac \in Mac /\ f.from \in Mac /\ f.from = f.srcMac
  BY DEF Incoming, Frame
<1>2. f = Frame(f.srcMac, f.srcIp, f.type, f.message, f.dstIp, f.to)
  BY DEF Incoming, Frame
<1> QED
  BY <1>1, <1>2

\* A search that goes on over an unchanged cache keeps what was found.
LEMMA FoundKept ==
    ASSUME IInv, cache' = cache, ip' = ip, resolve' = resolve
    PROVE  ResolveFindsFirst'
BY DEF IInv, ResolveFindsFirst, Entries

\* The cache as a sequence of entries.
LEMMA CacheSeq ==
    ASSUME TypeOK
    PROVE  cache \in Seq(Entry) /\ Len(cache) \in Nat /\ DOMAIN cache = 1..Len(cache)
BY DEF TypeOK, Entry

LEMMA CallResolveInv ==
    ASSUME IInv, NEW i \in Ip, CallResolve(i) PROVE IInv'
<1> USE DEF IInv
<1>1. TypeOK'
  BY DEF TypeOK, CallResolve
<1>2. Passed' /\ ResolveFindsFirst'
  BY DEF TypeOK, CallResolve, Passed, ResolveFindsFirst
<1> QED
  BY <1>1, <1>2

LEMMA LookupNextInv == ASSUME IInv, LookupNext PROVE IInv'
<1> USE DEF IInv
<1>1. TypeOK'
  BY DEF TypeOK, LookupNext
<1>2. Passed'
  BY DEF TypeOK, LookupNext, Passed
<1>3. ResolveFindsFirst'
  BY FoundKept DEF LookupNext
<1> QED
  BY <1>1, <1>2, <1>3

\* The entry that matches is the first of its address.
LEMMA LookupHitInv == ASSUME IInv, LookupHit PROVE IInv'
<1> USE DEF IInv
<1>1. var + 1 \in DOMAIN cache /\ cache[var + 1] \in Entry
  BY CacheSeq DEF TypeOK, LookupHit
<1>2. TypeOK'
  BY <1>1 DEF TypeOK, LookupHit, Returned, Entry
<1>3. Passed'
  BY DEF LookupHit, Returned, Passed
<1>4. ASSUME NEW k \in Entries(ip) PROVE var + 1 <= k
  BY <1>4 DEF TypeOK, LookupHit, Passed, Entries
<1>5. ResolveFindsFirst'
  BY <1>1, <1>4 DEF LookupHit, Returned, ResolveFindsFirst, Entries
<1> QED
  BY <1>2, <1>3, <1>5

LEMMA LookupMissInv == ASSUME IInv, LookupMiss PROVE IInv'
<1> USE DEF IInv
<1>1. TypeOK'
  BY DEF TypeOK, LookupMiss, Returned
<1>2. Passed' /\ ResolveFindsFirst'
  BY DEF LookupMiss, Returned, Passed, ResolveFindsFirst
<1> QED
  BY <1>1, <1>2

LEMMA ReqMACAddrInv == ASSUME IInv, ReqMACAddr PROVE IInv'
BY FoundKept DEF IInv, TypeOK, ReqMACAddr, Passed

LEMMA ReturnInv == ASSUME IInv, Return PROVE IInv'
BY FoundKept DEF IInv, TypeOK, Return, Passed

\* An answer is entered behind all entries, so that no search is disturbed.
LEMMA EnterInv ==
    ASSUME IInv, NEW f \in Incoming, ReceiveResponse(f) PROVE IInv'
<1> USE DEF IInv
<1> DEFINE e == [ip |-> f.srcIp, mac |-> f.srcMac]
<1>1. e \in Entry /\ UNCHANGED <<handler, pc, ip, var, resolve, resolves>>
  BY FrameFields DEF ReceiveResponse, Arrives, Entry, mainVars
<1>2. (cache' = Append(cache, e) /\ Len(cache) < CacheSize) \/ cache' = cache
  BY DEF ReceiveResponse, Enter
<1>3. /\ cache' \in Seq(Entry) /\ Len(cache') <= CacheSize /\ Len(cache) <= Len(cache')
      /\ \A n \in 1..Len(cache) : n \in DOMAIN cache' /\ cache'[n] = cache[n]
  <2>1. Len(cache) <= CacheSize
    BY DEF TypeOK
  <2>2. CASE cache' = cache
    BY <2>1, <2>2, CacheSeq
  <2>3. CASE cache' = Append(cache, e) /\ Len(cache) < CacheSize
    <3> HIDE DEF e
    <3> QED
      BY <1>1, <2>3, CacheSeq
  <2> QED
    BY <1>2, <2>2, <2>3
<1>4. TypeOK'
  BY <1>1, <1>3 DEF TypeOK, ReceiveResponse, Arrives, Entry
<1>5. Passed'
  BY <1>1, <1>3 DEF TypeOK, Passed
<1>6. ResolveFindsFirst'
  <2> SUFFICES ASSUME resolve # Broadcast
               PROVE  \E n \in Entries(ip)' : /\ cache'[n].mac = resolve
                                              /\ \A k \in Entries(ip)' : n <= k
    BY <1>1 DEF ResolveFindsFirst, Entries
  <2>1. PICK n \in Entries(ip) : /\ cache[n].mac = resolve
                                 /\ \A k \in Entries(ip) : n <= k
    BY DEF ResolveFindsFirst
  <2>2. n \in Entries(ip)' /\ cache'[n].mac = resolve
    BY <1>1, <1>3, <2>1 DEF TypeOK, Entries
  <2>3. ASSUME NEW k \in Entries(ip)' PROVE n <= k
    BY <1>1, <1>3, <2>1, <2>3 DEF TypeOK, Entries
  <2> QED
    BY <2>2, <2>3
<1> QED
  BY <1>4, <1>5, <1>6

\* Every other frame leaves the cache and the main thread alone.
LEMMA OtherFrameInv ==
    ASSUME IInv, NEW f \in Incoming,
           ReceiveRequest(f) \/ ReceiveOther(f) \/ ReceiveNothing(f)
    PROVE  IInv'
<1> USE DEF IInv
<1>1. /\ UNCHANGED <<handler, cache, pc, ip, var, resolve, resolves>>
      /\ frames < MaxFrames /\ frames' = frames + 1
  BY DEF ReceiveRequest, ReceiveOther, ReceiveNothing, Arrives, mainVars
<1> QED
  BY <1>1, FoundKept DEF TypeOK, Passed

LEMMA NextInv == ASSUME IInv, [Next]_vars PROVE IInv'
<1>1. CASE \E i \in Ip : CallResolve(i)
  BY <1>1, CallResolveInv
<1>2. CASE LookupNext
  BY <1>2, LookupNextInv
<1>3. CASE LookupHit
  BY <1>3, LookupHitInv
<1>4. CASE LookupMiss
  BY <1>4, LookupMissInv
<1>5. CASE ReqMACAddr
  BY <1>5, ReqMACAddrInv
<1>6. CASE Return
  BY <1>6, ReturnInv
<1>7. CASE \E f \in Incoming : ReceiveResponse(f)
  BY <1>7, EnterInv
<1>8. CASE \E f \in Incoming : ReceiveRequest(f) \/ ReceiveOther(f) \/ ReceiveNothing(f)
  BY <1>8, OtherFrameInv
<1>9. CASE Idle \/ UNCHANGED vars
  BY <1>9, FoundKept DEF IInv, TypeOK, Passed, Idle, vars, mainVars
<1> QED
  BY <1>1, <1>2, <1>3, <1>4, <1>5, <1>6, <1>7, <1>8, <1>9 DEF Next, ResolveStep

LEMMA Invariance == Spec => []IInv
<1>1. Init => IInv
  BY InitInv
<1>2. IInv /\ [Next]_vars => IInv'
  BY NextInv
<1> QED
  BY <1>1, <1>2, PTL DEF Spec

-----------------------------------------------------------------------------
\* The cache stays within its arrays and the search within the cache, whatever
\* arrives (OnEtherFrameReceived, GetMACFromCache).
THEOREM TypeCorrect == Spec => []TypeOK
<1>1. IInv => TypeOK
  BY DEF IInv
<1> QED
  BY <1>1, Invariance, PTL

\* What Resolve returns is the first entry of its address, although the handler
\* enters answers during the search (Resolve, GetMACFromCache).
THEOREM FirstIsFound == Spec => []ResolveFindsFirst
<1>1. IInv => ResolveFindsFirst
  BY DEF IInv
<1> QED
  BY <1>1, Invariance, PTL

\* Resolve gives up only when the cache has no entry (Resolve).
THEOREM NoAnswerMissed == Spec => NothingMissed
<1> DEFINE Gives == pc = "second" /\ pc' = "return" /\ resolve' = Broadcast
<1>1. ASSUME IInv, [Next]_vars, Gives PROVE Entries(ip) = {}
  <2>1. LookupHit \/ LookupMiss
    BY <1>1 DEF Next, ResolveStep, CallResolve, LookupNext, ReqMACAddr, Return, Idle,
                ReceiveRequest, ReceiveResponse, ReceiveOther, ReceiveNothing, Arrives,
                vars, mainVars
  <2>2. ~LookupHit
    <3> SUFFICES ASSUME LookupHit PROVE FALSE
      OBVIOUS
    <3>1. cache[var + 1] \in Entry
      BY <1>1, CacheSeq DEF IInv, TypeOK, LookupHit
    <3> QED
      BY <1>1, <3>1 DEF LookupHit, Returned, Entry
  <2>3. LookupMiss
    BY <2>1, <2>2
  <2> QED
    BY <1>1, <2>3 DEF IInv, TypeOK, Passed, LookupMiss, Entries
<1>2. IInv /\ [Next]_vars => [Gives => Entries(ip) = {}]_vars
  BY <1>1
<1> QED
  BY <1>2, Invariance, PTL DEF Spec, NothingMissed

\* A frame that does not come from us is no answer of ours when it goes back.
LEMMA EchoIsNoAnswer ==
    ASSUME NEW f \in Incoming, AnswersGoToAsker, UNCHANGED asked, Undefined(f)
    PROVE  AnswersGoToAsker'
<1>1. SentBack(f).srcMac # OurMac
  BY FrameFields DEF SentBack, Incoming, Frame
<1> QED
  BY <1>1 DEF Undefined, AnswersGoToAsker

\* The answer written over a request goes to the host that asked
\* (OnEtherFrameReceived, onRawDataReceived).
THEOREM AnswersReachAsker == Spec => []AnswersGoToAsker
<1>1. Init => AnswersGoToAsker
  BY DEF Init, AnswersGoToAsker
<1>2. ASSUME AnswersGoToAsker, [Next]_vars PROVE AnswersGoToAsker'
  <2>1. ASSUME NEW f \in Incoming, ReceiveRequest(f) PROVE AnswersGoToAsker'
    <3> DEFINE a == SentBack(Answer(f))
    <3>1. PICK d, t, msg, to : f = Frame(f.srcMac, f.srcIp, t, msg, d, to)
      BY FrameFields
    <3>2. /\ a.dstIp = f.srcIp /\ a.dstMac = f.srcMac /\ a.to = f.srcMac
          /\ a.srcIp = OurIp /\ a.from = OurMac
      BY <3>1 DEF Frame, SentBack, Answer
    <3>3. out' = {a} /\ asked' = {<<f.srcIp, f.srcMac>>}
      BY <2>1 DEF ReceiveRequest
    <3> QED
      BY <3>2, <3>3 DEF AnswersGoToAsker
  <2>2. ASSUME NEW f \in Incoming, ReceiveResponse(f) \/ ReceiveOther(f)
        PROVE  AnswersGoToAsker'
    BY <1>2, <2>2, EchoIsNoAnswer DEF ReceiveResponse, ReceiveOther
  <2>3. CASE ReqMACAddr
    BY <2>3 DEF ReqMACAddr, AnswersGoToAsker, Frame
  <2>4. CASE UNCHANGED <<out, asked>>
    BY <1>2, <2>4 DEF AnswersGoToAsker
  <2> QED
    BY <1>2, <2>1, <2>2, <2>3, <2>4
    DEF Next, ResolveStep, CallResolve, LookupNext, LookupHit, LookupMiss, Return, Idle,
        ReceiveNothing, vars
<1> QED
  BY <1>1, <1>2, PTL DEF Spec
=============================================================================
