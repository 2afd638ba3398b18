------------------------------ MODULE EtherArp ------------------------------
(***************************************************************************)
(* Ethernet dispatch and ARP: src/GubiOs/src/net/etherframe.cpp and        *)
(* arp.cpp.  The main thread resolves addresses (Resolve); frames arrive   *)
(* in the network card's interrupt, between any two steps of the main      *)
(* thread, and are handled to the end: onRawDataReceived,                  *)
(* OnEtherFrameReceived and the Send of what is to be sent back.           *)
(*                                                                         *)
(* A frame's type is the pair of bytes on the wire, "0806" for ARP.  A     *)
(* uint16_t read from the wire by this processor has them swapped.         *)
(***************************************************************************)
EXTENDS Integers, Sequences

CONSTANTS Ip,          \* addresses of other hosts
          Mac,         \* their cards
          OurIp,       \* backend->GetIPAddr(); 0, as SetIPAddr is never called
          OurMac,
          Broadcast,
          CacheSize,   \* 128
          MaxFrames,   \* bound: frames that arrive
          MaxResolves  \* bound: calls of Resolve

ASSUME AddressAssumption ==
    OurIp \notin Ip /\ OurMac \notin Mac /\ Broadcast \notin Mac \union {OurMac}
ASSUME CacheSizeAssumption == CacheSize \in Nat
ASSUME BoundsAssumption == MaxFrames \in Nat /\ MaxResolves \in Nat

VARIABLES handler,    \* handler[t] # 0, for the types that matter
          cache,      \* IpCache and MACCache up to numCacheEntries
          pc,         \* where Resolve is
          ip,         \* its parameter
          var,        \* GetMACFromCache's loop variable
          resolve,    \* Resolve's local
          resolves,   \* calls of Resolve
          frames,     \* frames that arrived
          out,        \* the frame sent last, a set of one
          asked       \* auxiliary: who sent the request that ARP was given last

mainVars == <<pc, ip, var, resolve, resolves>>
vars == <<handler, cache, mainVars, frames, out, asked>>

Type == {"0806", "0608", "other"}

\* The two bytes exchanged: what the processor reads from the wire, and what
\* the expression for etherType_BE computes.
Swap(t) == CASE t = "0806" -> "0608" [] t = "0608" -> "0806" [] t = "other" -> "other"

etherType_BE == Swap("0806")

\* A message that is "short" has fewer bytes than ARP's; "other" is one with a
\* field that OnEtherFrameReceived does not accept.
Message == {"request", "response", "short", "other"}

\* A frame to the card "to", from the host with mac and address who, about dstIp.
Frame(mac, who, type, message, dstIp, to) ==
    [to |-> to, from |-> mac, type |-> type, message |-> message,
     srcIp |-> who, srcMac |-> mac, dstIp |-> dstIp, dstMac |-> Broadcast]

Incoming ==
    {Frame(m, i, t, msg, d, to) :
        m \in Mac, i \in Ip, t \in Type, msg \in Message,
        d \in {OurIp, CHOOSE j \in Ip : TRUE},
        to \in {OurMac, Broadcast, CHOOSE n \in Mac : TRUE}}

\* The handler is entered under the type's value, 0x0806, and nothing else is.
Init ==
    /\ handler = [t \in Type |-> t = "0806"]
    /\ cache = <<>>
    /\ pc = "idle"
    /\ ip = OurIp /\ var = 0 /\ resolve = Broadcast
    /\ resolves = 0 /\ frames = 0
    /\ out = {} /\ asked = {}

-----------------------------------------------------------------------------
(* Resolve, in the main thread. *)

CallResolve(i) ==
    /\ pc = "idle"
    /\ resolves < MaxResolves
    /\ resolves' = resolves + 1
    /\ ip' = i
    /\ var' = 0
    /\ resolve' = Broadcast
    /\ pc' = "first"
    /\ UNCHANGED <<handler, cache, frames, out, asked>>

\* Where Resolve goes on once GetMACFromCache has returned mac.
Returned(mac) ==
    /\ resolve' = mac
    /\ var' = 0
    /\ pc' = IF pc = "second" THEN "return"
             ELSE IF mac = Broadcast THEN "request" ELSE "second"

\* A bug LookupNext could have: the loop variable stays where it is.
LookupNextStuck ==
    /\ pc \in {"first", "second"}
    /\ var < Len(cache) /\ cache[var + 1].ip # ip
    /\ UNCHANGED vars

\* One iteration of GetMACFromCache that does not match.
LookupNext ==
    /\ pc \in {"first", "second"}
    /\ var < Len(cache) /\ cache[var + 1].ip # ip
    /\ var' = var + 1
    /\ UNCHANGED <<handler, cache, pc, ip, resolve, resolves, frames, out, asked>>

\* The iteration that matches.
LookupHit ==
    /\ pc \in {"first", "second"}
    /\ var < Len(cache) /\ cache[var + 1].ip = ip
    /\ Returned(cache[var + 1].mac)
    /\ UNCHANGED <<handler, cache, ip, resolves, frames, out, asked>>

\* A bug LookupMiss could have: the last entry is not looked at.
LookupMissEarly ==
    /\ pc \in {"first", "second"}
    /\ var >= Len(cache) - 1
    /\ Returned(Broadcast)
    /\ UNCHANGED <<handler, cache, ip, resolves, frames, out, asked>>

\* The test of numCacheEntries, read anew in each iteration, ends the loop.
LookupMiss ==
    /\ pc \in {"first", "second"}
    /\ var >= Len(cache)
    /\ Returned(Broadcast)
    /\ UNCHANGED <<handler, cache, ip, resolves, frames, out, asked>>

\* ReqMACAddr sends a request to everybody, under etherType_BE.
ReqMACAddr ==
    /\ pc = "request"
    /\ out' = {Frame(OurMac, OurIp, Swap(etherType_BE), "request", ip, Broadcast)}
    /\ pc' = "second"
    /\ UNCHANGED <<handler, cache, ip, var, resolve, resolves, frames, asked>>

\* "return resolve".
Return ==
    /\ pc = "return"
    /\ pc' = "idle"
    /\ UNCHANGED <<handler, cache, ip, var, resolve, resolves, frames, out, asked>>

ResolveStep == LookupNext \/ LookupHit \/ LookupMiss \/ ReqMACAddr \/ Return

-----------------------------------------------------------------------------
(* A frame, in the card's interrupt. *)

\* A bug Answer could have: the source is filled in before it is copied.
AnswerSourceFirst(f) ==
    [f EXCEPT !.message = "response", !.srcIp = OurIp, !.srcMac = OurMac,
              !.dstIp = OurIp, !.dstMac = OurMac]

\* A request made into its answer, in place.
Answer(f) ==
    [f EXCEPT !.message = "response", !.dstIp = f.srcIp, !.dstMac = f.srcMac,
              !.srcIp = OurIp, !.srcMac = OurMac]

\* A frame addressed back to its sender.
SentBack(f) == [f EXCEPT !.to = f.from, !.from = OurMac]

\* Is the frame passed on to ARP?  The table is indexed with the type as read.
Dispatched(f) == f.to \in {Broadcast, OurMac} /\ handler[Swap(f.type)]

ForUs(f, message) == Dispatched(f) /\ f.message = message /\ f.dstIp = OurIp

Arrives(f) ==
    /\ frames < MaxFrames
    /\ frames' = frames + 1
    /\ UNCHANGED <<handler, mainVars>>

\* A request for our address is answered.
ReceiveRequest(f) ==
    /\ Arrives(f)
    /\ ForUs(f, "request")
    /\ asked' = {<<f.srcIp, f.srcMac>>}
    /\ out' = {SentBack(Answer(f))}
    /\ UNCHANGED cache

\* What a function that falls off its end returns: false, or true, which sends
\* the frame back as it is.
Undefined(f) == out' \in {out, {SentBack(f)}}

\* Bugs Enter could have: a full cache is overrun; a newer answer replaces
\* the older.
EnterAlways(f) == Append(cache, [ip |-> f.srcIp, mac |-> f.srcMac])
EnterInFront(f) ==
    IF Len(cache) < CacheSize THEN <<[ip |-> f.srcIp, mac |-> f.srcMac]>> \o cache ELSE cache

\* The next free entry, if there is one.
Enter(f) ==
    IF Len(cache) < CacheSize THEN Append(cache, [ip |-> f.srcIp, mac |-> f.srcMac]) ELSE cache

\* A response is entered; nothing is returned.
ReceiveResponse(f) ==
    /\ Arrives(f)
    /\ ForUs(f, "response")
    /\ cache' = Enter(f)
    /\ Undefined(f)
    /\ UNCHANGED asked

\* Any other message long enough for ARP: nothing is done, nothing returned.
ReceiveOther(f) ==
    /\ Arrives(f)
    /\ Dispatched(f) /\ f.message # "short"
    /\ f.message = "other" \/ f.dstIp # OurIp
    /\ Undefined(f)
    /\ UNCHANGED <<cache, asked>>

\* A message too short for ARP, a frame for another card, or one whose type has
\* no handler is ignored.
ReceiveNothing(f) ==
    /\ Arrives(f)
    /\ ~Dispatched(f) \/ f.message = "short"
    /\ UNCHANGED <<cache, out, asked>>

Idle == pc = "idle" /\ UNCHANGED vars

Next ==
    \/ \E i \in Ip : CallResolve(i)
    \/ ResolveStep
    \/ \E f \in Incoming : \/ ReceiveRequest(f) \/ ReceiveResponse(f)
                           \/ ReceiveOther(f) \/ ReceiveNothing(f)
    \/ Idle

Spec == Init /\ [][Next]_vars

\* The main thread runs on; a handler lasts one step.
FairSpec == Spec /\ WF_vars(ResolveStep)
-----------------------------------------------------------------------------
\* The variables' types; the cache stays within its arrays, GetMACFromCache
\* within the cache.
TypeOK ==
    /\ handler \in [Type -> BOOLEAN]
    /\ cache \in Seq([ip : Ip, mac : Mac]) /\ Len(cache) <= CacheSize
    /\ pc \in {"idle", "first", "second", "request", "return"}
    /\ ip \in Ip \union {OurIp}
    /\ var \in 0..Len(cache)
    /\ resolve \in Mac \union {Broadcast}
    /\ resolves \in 0..MaxResolves /\ frames \in 0..MaxFrames

Entries(i) == {n \in DOMAIN cache : cache[n].ip = i}

\* Whatever is entered while the cache is searched, an address that Resolve
\* returns is the one in the first entry, which all later calls will return.
ResolveFindsFirst ==
    resolve # Broadcast =>
        \E n \in Entries(ip) : cache[n].mac = resolve /\ \A k \in Entries(ip) : n <= k

\* Resolve gives up only if there is no entry at that moment: an answer that was
\* entered while it was searching is found.
NothingMissed ==
    [][pc = "second" /\ pc' = "return" /\ resolve' = Broadcast => Entries(ip) = {}]_vars

\* An answer names us as its source and goes to the host that asked, although
\* it is written over the request.
AnswersGoToAsker ==
    \A f \in out : f.message = "response" /\ f.srcMac = OurMac =>
        /\ {<<f.dstIp, f.dstMac>>} = asked
        /\ f.srcIp = OurIp /\ f.from = OurMac /\ f.to = f.dstMac

\* Resolve returns, answered or not.
ResolveReturns == (pc # "idle") ~> (pc = "idle")

(***************************************************************************)
(* What does not hold of this code.                                        *)
(***************************************************************************)

\* A request on the wire for our address is not ignored.
RequestsHandled ==
    [][\A f \in Incoming :
          /\ f.type = "0806" /\ f.message = "request"
          /\ f.dstIp = OurIp /\ f.to \in {OurMac, Broadcast}
          => ~ReceiveNothing(f)]_vars
=============================================================================
