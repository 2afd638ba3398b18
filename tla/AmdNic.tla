------------------------------- MODULE AmdNic -------------------------------
(***************************************************************************)
(* The network driver: src/GubiOs/src/drivers/amd_am79C973.cpp, run by the *)
(* main thread (Send) and by the card's interrupt (HandleInterrupt,        *)
(* Receive, and Send again for a reply), which comes between any two steps *)
(* of the main thread.  The card (external) owns the other end of both     *)
(* rings and runs on its own.                                              *)
(*                                                                         *)
(* A descriptor's flags are reduced to who owns it and what is in it, a    *)
(* frame to a number.  Both sets of buffers are declared [2*1024+15][8]    *)
(* (amd_am79973.h:77, :82), so that they lie eight bytes apart: the eight  *)
(* send buffers are one area, copied into in steps, and the eight receive  *)
(* buffers are another, in which a frame that arrives lies over the one    *)
(* before.  The card reads the rings from where the constructor built them *)
(* and raises its line as long as a bit of CSR0 is set.                    *)
(***************************************************************************)
EXTENDS Integers, Sequences

CONSTANTS RingSize,     \* descriptors per ring, 8 in the code
          MaxSends,     \* bound: calls of Send by the main thread
          MaxArrivals   \* bound: frames that reach the card

ASSUME RingSizeAssumption == RingSize \in Nat \ {0}
ASSUME MaxSendsAssumption == MaxSends \in Nat
ASSUME MaxArrivalsAssumption == MaxArrivals \in Nat

VARIABLES
    rap,                 \* the card's register address port
    csr0,                \* CSR0's bits that raise an interrupt
    tx,                  \* send descriptors: does the card own it, its frame
    rx,                  \* receive descriptors: state and frame
    txAt, rxAt,          \* the card's place in each ring
    sendArea,            \* whose bytes the send buffers' two halves hold
    recvArea,            \* the frame that came last into the receive buffers
    spoilt,              \* did one come while the handler was using another?
    currentSendBuffer,
    currenRecvBuffer,
    pc,                  \* where each context is
    desc,                \* Send's sendDescriptor, per context
    loaded,              \* currentSendBuffer as Send's increment read it
    frame,               \* the frame Send is sending, per context
    status,              \* HandleInterrupt's tempData
    sends,               \* calls of Send by the main thread
    claims,              \* descriptors claimed, which numbers the frames
    arrivals,            \* frames that reached the card
    delivered,           \* handed to the RawDataHandler, in order: the frame
                         \* the descriptor is for, and whose bytes were there
    sent,                \* frames transmitted, in order
    garbled,             \* was a frame other than the one given transmitted?
    hit                  \* auxiliary: which of the things below happened

\* hit collects "raced": a reply's Send claimed the descriptor of the Send it
\* interrupted; "overwritten": Send filled a descriptor the card had not
\* finished with; "crowded": Send copied a frame while another was being copied
\* or on its way out; "overlaid": a frame arrived over one that was not handed
\* over or still in use; "late": the handler cleared RINT with a frame behind it.

card == <<csr0, txAt, rxAt, arrivals, sent, garbled>>
sendVars == <<tx, sendArea, currentSendBuffer, desc, loaded, frame, sends, claims>>
recvVars == <<rx, recvArea, spoilt, currenRecvBuffer, status, delivered>>
vars == <<rap, card, sendVars, recvVars, pc, hit>>

Ring == 0..(RingSize - 1)
Context == {"main", "irq"}
NoFrame == 0            \* also: bytes that are no one frame's
After(i) == (i + 1) % RingSize

\* The constructor: all send descriptors the driver's, all receive descriptors
\* the card's.
Init ==
    /\ rap = 2
    /\ csr0 = {}
    /\ tx = [i \in Ring |-> [own |-> FALSE, frame |-> NoFrame]]
    /\ rx = [i \in Ring |-> [state |-> "card", frame |-> NoFrame]]
    /\ txAt = 0 /\ rxAt = 0
    /\ sendArea = [tail |-> NoFrame, head |-> NoFrame]
    /\ recvArea = NoFrame
    /\ spoilt = FALSE
    /\ currentSendBuffer = 0 /\ currenRecvBuffer = 0
    /\ pc = [c \in Context |-> IF c = "main" THEN "boot" ELSE "off"]
    /\ desc = [c \in Context |-> 0]
    /\ loaded = [c \in Context |-> 0]
    /\ frame = [c \in Context |-> NoFrame]
    /\ status = {}
    /\ sends = 0 /\ claims = 0 /\ arrivals = 0
    /\ delivered = <<>> /\ sent = <<>>
    /\ garbled = FALSE
    /\ hit = {}

\* The context that has the processor: an interrupt runs to its end.
Runs(c) == c = "irq" \/ pc["irq"] = "off"

At(c, label) == Runs(c) /\ pc[c] = label
Goto(c, label) == pc' = [pc EXCEPT ![c] = label]

\* Activate, run before interrupts are enabled: initialise, set the features
\* of CSR4, start; CSR0 stays selected.
Activate ==
    /\ At("main", "boot")
    /\ rap' = 0
    /\ csr0' = {"IDON"}
    /\ Goto("main", "idle")
    /\ UNCHANGED <<txAt, rxAt, arrivals, sent, garbled, sendVars, recvVars, hit>>

-----------------------------------------------------------------------------
(* Send, in either context. *)

SendLabels == {"claim", "increment", "store", "copyTail", "copyHead", "publish", "select",
               "demand"}

\* Does context c hold a descriptor that it has not published?
Claimed(c) == pc[c] \in {"increment", "store", "copyTail", "copyHead", "publish"}

\* The main thread calls Send.
CallSend ==
    /\ At("main", "idle")
    /\ sends < MaxSends
    /\ sends' = sends + 1
    /\ Goto("main", "claim")
    /\ UNCHANGED <<rap, card, tx, sendArea, currentSendBuffer, desc, loaded, frame, claims,
                   recvVars, hit>>

\* "int sendDescriptor = currentSendBuffer".
Claim(c) ==
    /\ At(c, "claim")
    /\ desc' = [desc EXCEPT ![c] = currentSendBuffer]
    /\ claims' = claims + 1
    /\ frame' = [frame EXCEPT ![c] = claims + 1]
    /\ hit' = IF \E d \in Context \ {c} : Claimed(d) /\ desc[d] = currentSendBuffer
              THEN hit \union {"raced"} ELSE hit
    /\ Goto(c, "increment")
    /\ UNCHANGED <<rap, card, tx, sendArea, currentSendBuffer, loaded, sends, recvVars>>

\* "currentSendBuffer = (currentSendBuffer + 1) % 8" reads ...
Increment(c) ==
    /\ At(c, "increment")
    /\ loaded' = [loaded EXCEPT ![c] = currentSendBuffer]
    /\ Goto(c, "store")
    /\ UNCHANGED <<rap, card, tx, sendArea, currentSendBuffer, desc, frame, sends,
                   claims, recvVars, hit>>

\* Bugs Store could have: nothing is stored; "% 8" is left out; the
\* ring is walked backwards.
StoreForgotten(c) ==
    /\ At(c, "store")
    /\ Goto(c, "copyTail")
    /\ UNCHANGED <<rap, card, sendVars, recvVars, hit>>

StoreUnwrapped(c) ==
    /\ At(c, "store")
    /\ currentSendBuffer' = loaded[c] + 1
    /\ Goto(c, "copyTail")
    /\ UNCHANGED <<rap, card, tx, sendArea, desc, loaded, frame, sends, claims,
                   recvVars, hit>>

StoreBefore(c) ==
    /\ At(c, "store")
    /\ currentSendBuffer' = (loaded[c] + RingSize - 1) % RingSize
    /\ Goto(c, "copyTail")
    /\ UNCHANGED <<rap, card, tx, sendArea, desc, loaded, frame, sends, claims,
                   recvVars, hit>>

\* ... and writes, in two instructions.
Store(c) ==
    /\ At(c, "store")
    /\ currentSendBuffer' = After(loaded[c])
    /\ Goto(c, "copyTail")
    /\ UNCHANGED <<rap, card, tx, sendArea, desc, loaded, frame, sends, claims,
                   recvVars, hit>>

\* Is some of a frame in the send buffers that has not gone out yet?
Outstanding(c) ==
    \/ \E i \in Ring : tx[i].own
    \/ \E d \in Context \ {c} : pc[d] \in {"copyHead", "publish"}

\* What Send finds at "buffer": a reply is copied from the receive buffers, into
\* which the card may have stored another frame meanwhile.
Source(c) == IF c = "irq" /\ spoilt THEN NoFrame ELSE frame[c]

\* A bug CopyTail could have: the descriptor goes to the card before the bytes do.
CopyTailAfterOwn(c) ==
    /\ At(c, "copyTail")
    /\ \/ /\ tx[desc[c]].frame # frame[c]
          /\ tx' = [tx EXCEPT ![desc[c]] = [own |-> TRUE, frame |-> frame[c]]]
          /\ hit' = IF Outstanding(c) THEN hit \union {"crowded"} ELSE hit
          /\ UNCHANGED <<sendArea, pc>>
       \/ /\ tx[desc[c]].frame = frame[c]
          /\ sendArea' = [sendArea EXCEPT !.tail = Source(c)]
          /\ Goto(c, "copyHead")
          /\ UNCHANGED <<tx, hit>>
    /\ UNCHANGED <<rap, card, currentSendBuffer, desc, loaded, frame, sends, claims, recvVars>>

\* The copying loop goes from the end of the frame to its start, in the main
\* thread with interrupts enabled: it has copied the end ...
CopyTail(c) ==
    /\ At(c, "copyTail")
    /\ sendArea' = [sendArea EXCEPT !.tail = Source(c)]
    /\ hit' = IF Outstanding(c) THEN hit \union {"crowded"} ELSE hit
    /\ Goto(c, "copyHead")
    /\ UNCHANGED <<rap, card, tx, currentSendBuffer, desc, loaded, frame, sends,
                   claims, recvVars>>

\* ... and copies the rest.
CopyHead(c) ==
    /\ At(c, "copyHead")
    /\ sendArea' = [sendArea EXCEPT !.head = Source(c)]
    /\ Goto(c, "publish")
    /\ UNCHANGED <<rap, card, tx, currentSendBuffer, desc, loaded, frame, sends,
                   claims, recvVars, hit>>

\* The last store of the three that hand the descriptor to the card.
Publish(c) ==
    /\ At(c, "publish")
    /\ tx' = [tx EXCEPT ![desc[c]] = [own |-> TRUE, frame |-> frame[c]]]
    /\ hit' = IF tx[desc[c]].own THEN hit \union {"overwritten"} ELSE hit
    /\ Goto(c, "select")
    /\ UNCHANGED <<rap, card, sendArea, currentSendBuffer, desc, loaded, frame, sends,
                   claims, recvVars>>

Select(c) ==
    /\ At(c, "select")
    /\ rap' = 0
    /\ Goto(c, "demand")
    /\ UNCHANGED <<card, sendVars, recvVars, hit>>

\* 0x48 to CSR0 demands transmission and clears no bit; Send returns, to
\* Receive if that called it, and its locals are gone.
Demand(c) ==
    /\ At(c, "demand")
    /\ desc' = [desc EXCEPT ![c] = 0]
    /\ loaded' = [loaded EXCEPT ![c] = 0]
    /\ frame' = [frame EXCEPT ![c] = NoFrame]
    /\ Goto(c, IF c = "main" THEN "idle" ELSE "rearm")
    /\ UNCHANGED <<rap, card, tx, sendArea, currentSendBuffer, sends, claims, recvVars, hit>>

SendStep(c) == Claim(c) \/ Increment(c) \/ Store(c) \/ CopyTail(c) \/ CopyHead(c)
               \/ Publish(c) \/ Select(c) \/ Demand(c)

-----------------------------------------------------------------------------
(* HandleInterrupt and Receive. *)

\* The card's interrupt.
Interrupt ==
    /\ pc["irq"] = "off" /\ pc["main"] # "boot"
    /\ csr0 # {}
    /\ Goto("irq", "handle")
    /\ UNCHANGED <<rap, card, sendVars, recvVars, hit>>

\* Selects CSR0 and reads it.
Handle ==
    /\ At("irq", "handle")
    /\ rap' = 0
    /\ status' = csr0
    /\ Goto("irq", IF "RINT" \in csr0 THEN "receive" ELSE "ack")
    /\ UNCHANGED <<card, sendVars, rx, recvArea, spoilt, currenRecvBuffer, delivered, hit>>

Here == rx[currenRecvBuffer].state

\* The loop ends at a descriptor that is the card's.
ReceiveDone ==
    /\ At("irq", "receive")
    /\ Here = "card"
    /\ Goto("irq", "ack")
    /\ UNCHANGED <<rap, card, sendVars, recvVars, hit>>

\* A bug ReceiveSkip could have: "continue" without the increment.
ReceiveSkipStuck ==
    /\ At("irq", "receive")
    /\ Here \in {"error", "emptied"}
    /\ UNCHANGED vars

\* A descriptor with an error, or that holds no whole frame, is skipped as it is.
ReceiveSkip ==
    /\ At("irq", "receive")
    /\ Here \in {"error", "emptied"}
    /\ currenRecvBuffer' = After(currenRecvBuffer)
    /\ UNCHANGED <<rap, card, sendVars, rx, recvArea, spoilt, status, delivered, pc, hit>>

\* What the receive buffers hold for a descriptor: its frame, if no other came
\* after it; else that one, as buffers share an address, or some of both.
Found == IF recvArea = rx[currenRecvBuffer].frame THEN {recvArea} ELSE {recvArea, NoFrame}

\* The RawDataHandler gets what is in the buffer and may ask for it to be sent back.
Deliver(reply) ==
    /\ At("irq", "receive")
    /\ Here = "full"
    /\ \E bytes \in Found :
          delivered' = Append(delivered, [frame |-> rx[currenRecvBuffer].frame, bytes |-> bytes])
    /\ spoilt' = FALSE
    /\ Goto("irq", IF reply THEN "claim" ELSE "rearm")
    /\ UNCHANGED <<rap, card, sendVars, rx, recvArea, currenRecvBuffer, status, hit>>

\* A bug Rearm could have: the descriptor keeps its frame.
RearmForgotten ==
    /\ At("irq", "rearm")
    /\ currenRecvBuffer' = After(currenRecvBuffer)
    /\ Goto("irq", "receive")
    /\ UNCHANGED <<rap, card, sendVars, rx, recvArea, spoilt, status, delivered, hit>>

\* "flags = 0x80007FF", one digit short: neither OWN nor the bits of a whole
\* frame are set, so the descriptor is the driver's and empty.
Rearm ==
    /\ At("irq", "rearm")
    /\ rx' = [rx EXCEPT ![currenRecvBuffer] = [state |-> "emptied", frame |-> NoFrame]]
    /\ currenRecvBuffer' = After(currenRecvBuffer)
    /\ Goto("irq", "receive")
    /\ UNCHANGED <<rap, card, sendVars, recvArea, spoilt, status, delivered, hit>>

\* A bug Ack could have: it clears the bits it did not see as well.
AckAll ==
    /\ At("irq", "ack")
    /\ rap' = 0
    /\ csr0' = {}
    /\ status' = {}
    /\ Goto("irq", "off")
    /\ UNCHANGED <<txAt, rxAt, arrivals, sent, garbled, sendVars, rx, recvArea, spoilt,
                   currenRecvBuffer, delivered, hit>>

\* Writes back what was read: a bit that was set is cleared.
Ack ==
    /\ At("irq", "ack")
    /\ rap' = 0
    /\ csr0' = csr0 \ status
    /\ hit' = IF "RINT" \in status /\ Here # "card" THEN hit \union {"late"} ELSE hit
    /\ status' = {}
    /\ Goto("irq", "off")
    /\ UNCHANGED <<txAt, rxAt, arrivals, sent, garbled, sendVars, rx, recvArea, spoilt,
                   currenRecvBuffer, delivered>>

HandlerStep ==
    \/ Handle \/ ReceiveDone \/ ReceiveSkip \/ Rearm \/ Ack
    \/ \E reply \in BOOLEAN : Deliver(reply)
    \/ SendStep("irq")

-----------------------------------------------------------------------------
(* The card. *)

\* The handler is using the frame that it was handed, in the receive buffer.
Holding == pc["irq"] \in SendLabels \union {"rearm"}

\* Descriptor i is for a frame that was not handed over yet.
Unread(i) ==
    rx[i].state = "full" /\ \A n \in DOMAIN delivered : delivered[n].frame # rx[i].frame

\* A frame arrives, whole or with an error, for a descriptor that is the card's,
\* and lies over what is in the receive buffers ...
CardReceives(state) ==
    /\ pc["main"] # "boot"
    /\ arrivals < MaxArrivals
    /\ rx[rxAt].state = "card"
    /\ arrivals' = arrivals + 1
    /\ rx' = [rx EXCEPT ![rxAt] = [state |-> state, frame |-> arrivals + 1]]
    /\ recvArea' = arrivals + 1
    /\ spoilt' = (spoilt \/ Holding)
    /\ hit' = IF Holding \/ \E i \in Ring : Unread(i) THEN hit \union {"overlaid"} ELSE hit
    /\ rxAt' = After(rxAt)
    /\ csr0' = csr0 \union {"RINT"}
    /\ UNCHANGED <<rap, txAt, sent, garbled, sendVars, currenRecvBuffer, status, delivered,
                   pc>>

\* ... or is missed.
CardMisses ==
    /\ pc["main"] # "boot"
    /\ arrivals < MaxArrivals
    /\ rx[rxAt].state # "card"
    /\ arrivals' = arrivals + 1
    /\ csr0' = csr0 \union {"MISS"}
    /\ UNCHANGED <<rap, txAt, rxAt, sent, garbled, sendVars, recvVars, pc, hit>>

\* Do the send buffers hold frame f and nothing else?
Whole(f) == sendArea.tail = f /\ sendArea.head = f

\* The card transmits the descriptor it is at, once that is the card's.
CardTransmits ==
    /\ tx[txAt].own
    /\ sent' = Append(sent, tx[txAt].frame)
    /\ garbled' = (garbled \/ ~Whole(tx[txAt].frame))
    /\ tx' = [tx EXCEPT ![txAt] = [own |-> FALSE, frame |-> NoFrame]]
    /\ txAt' = After(txAt)
    /\ csr0' = csr0 \union {"TINT"}
    /\ UNCHANGED <<rap, rxAt, arrivals, sendArea, currentSendBuffer, desc, loaded, frame,
                   sends, claims, recvVars, pc, hit>>

\* EntryPoint ends in "while(1);".
Idle == At("main", "idle") /\ UNCHANGED vars

Next ==
    \/ Activate \/ CallSend \/ Idle
    \/ \E c \in Context : SendStep(c)
    \/ Interrupt \/ HandlerStep
    \/ \E state \in {"full", "error"} : CardReceives(state)
    \/ CardMisses \/ CardTransmits

Spec == Init /\ [][Next]_vars

\* Both contexts run on, an interrupt that is due is taken, and the card
\* transmits what it owns.
FairSpec ==
    /\ Spec
    /\ WF_vars(Activate \/ SendStep("main"))
    /\ WF_vars(Interrupt)
    /\ WF_vars(HandlerStep)
    /\ WF_vars(CardTransmits)
-----------------------------------------------------------------------------
\* The variables' types: every index stays in its ring.
TypeOK ==
    /\ rap \in {0, 2}
    /\ csr0 \subseteq {"IDON", "RINT", "TINT", "MISS"} 
    /\ status \subseteq {"IDON", "RINT", "TINT", "MISS"}
    /\ tx \in [Ring -> [own : BOOLEAN, frame : Nat]]
    /\ rx \in [Ring -> [state : {"card", "full", "error", "emptied"}, frame : Nat]]
    /\ txAt \in Ring /\ rxAt \in Ring
    /\ currentSendBuffer \in Ring /\ currenRecvBuffer \in Ring
    /\ sendArea \in [tail : Nat, head : Nat] /\ recvArea \in Nat /\ spoilt \in BOOLEAN
    /\ pc["main"] \in {"boot", "idle"} \union SendLabels
    /\ pc["irq"] \in {"off", "handle", "receive", "rearm", "ack"} \union SendLabels
    /\ desc \in [Context -> Ring] /\ loaded \in [Context -> Ring]
    /\ frame \in [Context -> Nat]
    /\ sends \in 0..MaxSends /\ claims \in Nat /\ arrivals \in 0..MaxArrivals
    /\ garbled \in BOOLEAN
    /\ hit \subseteq {"raced", "overwritten", "crowded", "overlaid", "late"}

Increasing(s) == \A i, j \in DOMAIN s : i < j => s[i] < s[j]

\* Receive hands over each descriptor that the card filled once, in the order in
\* which it did, however often it goes round the ring; and with the bytes of the
\* frame it was filled with, unless another frame arrived in the receive
\* buffers, which overlap, before that one was read.
DeliveredOnce ==
    /\ \A i, j \in DOMAIN delivered : i < j => delivered[i].frame < delivered[j].frame
    /\ "overlaid" \notin hit => \A n \in DOMAIN delivered : delivered[n].bytes = delivered[n].frame

\* The frame that goes out is the one Send was given - all its bytes are in place
\* before the card may fetch them - unless the copying of another came between
\* its first byte and the card, in buffers that overlap, or a frame arrived over
\* one that was being sent back.
TransmittedIntact == garbled => hit \intersect {"crowded", "overlaid"} # {}

\* Frames go out in the order in which Send claimed descriptors for them, even
\* if a reply is published while the Send it interrupted is still copying.
SentInOrder == hit \intersect {"raced", "overwritten"} = {} => Increasing(sent)

\* All receive descriptors were used: none ever becomes the card's again.
Exhausted == \A i \in Ring : rx[i].state # "card"

\* What Send publishes is transmitted, unless a race or an overwritten
\* descriptor has put the driver out of step with the card, or Receive spins.
EventuallySent ==
    \A i \in Ring :
        tx[i].own ~> (~tx[i].own \/ {"raced", "overwritten"} \intersect hit # {} \/ Exhausted)

\* A descriptor that the card filled is handed over and emptied, unless its frame
\* came between Receive's last look at the ring and the acknowledgement.
FramesDelivered ==
    \A i \in Ring : (rx[i].state = "full") ~> (rx[i].state # "full" \/ "late" \in hit)

\* The interrupt handler returns, as long as the card has a descriptor left.
HandlerReturns == (pc["irq"] # "off") ~> (pc["irq"] = "off" \/ Exhausted)

(***************************************************************************)
(* What does not hold of this code.                                        *)
(***************************************************************************)

\* A receive descriptor goes back to the card once it is emptied.
EmptiedIsReturned == \A i \in Ring : rx[i].state # "emptied"
=============================================================================
