-------------------------------- MODULE Input -------------------------------
(***************************************************************************)
(* Keyboard and mouse: src/GubiOs/src/drivers/keyboard.cpp and mouse.cpp   *)
(* behind one 8042 controller (external), which has one output buffer for  *)
(* both, for the devices' acknowledgements and for its own answers.        *)
(*                                                                         *)
(* The drivers are activated with interrupts disabled, the mouse first     *)
(* (kernel.cpp:203-211).  Both read the data port right after a command,   *)
(* without waiting for the answer, and a read of an empty buffer returns   *)
(* the last byte once more.  What the controllers of the interrupts latch  *)
(* meanwhile is delivered when interrupts are enabled (kernel.cpp:237).    *)
(***************************************************************************)
EXTENDS Integers, Sequences

CONSTANTS Keys,           \* scan codes of the keys in use
          Buttons,        \* first bytes of the packets the mouse may send
          InitialConfig,  \* the controller's configuration byte at boot
          MaxKeys,        \* bound: bytes of the keyboard
          MaxPackets      \* bound: packets of the mouse

ASSUME KeysAssumption == Keys \subseteq 0..255
ASSUME ButtonsAssumption == Buttons \subseteq 0..255
ASSUME ConfigAssumption == InitialConfig \in 0..255
ASSUME BoundsAssumption == MaxKeys \in Nat /\ MaxPackets \in Nat

VARIABLES
    output,     \* the output buffer: its last byte, and whether it is new
    config,     \* the configuration byte
    answers,    \* answers to 0x20 the controller has not put out yet
    acks,       \* devices that have not acknowledged 0xF4 yet
    streaming,  \* does the mouse send packets?
    keys,       \* bytes the keyboard has sent
    packet,     \* how many bytes of its packet the mouse has sent
    packets,    \* packets it has begun
    irr,        \* interrupt requests latched: "keyboard", "mouse"
    pc,         \* where the main thread is in the two Activates
    handling,   \* the line of the interrupt in progress, or "none"
    status,     \* the configuration byte Activate is to write
    buffer, offset, button,  \* MouseDriver's fields
    printed,    \* what the keyboard's handler printed of the keyboard's bytes
    spurious,   \* auxiliary: the bytes it took that are not the keyboard's
    typed,      \* auxiliary: what the keys print that the keyboard put out since
                \* its Activate drained the buffer
    hit         \* auxiliary: "config" if a byte that is not the answer to 0x20
                \* was taken for it, "ack" if a byte that is not the mouse's
                \* acknowledgement was, "mouse" if the keyboard's handler took
                \* a byte of the mouse

controller == <<output, config, answers, acks, irr>>
devices == <<streaming, keys, packet, packets>>
main == <<pc, status, handling>>
mouse == <<buffer, offset, button>>
ghosts == <<printed, typed, spurious, hit>>
vars == <<controller, devices, main, mouse, ghosts>>
\* A byte, where it comes from, and its place in a packet of the mouse.
Byte(from, v, at) == [from |-> from, v |-> v, at |-> at]
Put(b) == [full |-> TRUE, byte |-> b]
Taken(o) == [o EXCEPT !.full = FALSE]
Full(from) == output.full /\ output.byte.from = from

ACK == 250

\* Is the bit set that has the value m?
Bit(v, m) == (v \div m) % 2 = 1
WithBit(v, m) == IF Bit(v, m) THEN v ELSE v + m

\* A bug the clearing could have: it is a subtraction.
WithoutBitMinus(v, m) == v - m

WithoutBit(v, m) == IF Bit(v, m) THEN v - m ELSE v

\* The configuration byte: interrupts on for each device, and off for good.
Enabled(c, d) == Bit(c, IF d = "mouse" THEN 2 ELSE 1)
Disabled(c, d) == Bit(c, IF d = "mouse" THEN 32 ELSE 16)

\* A new byte of the mouse raises the mouse's line, any other the keyboard's;
\* a line that rises leaves a request behind, even if it falls again.
Lines(o, c) == {d \in {"keyboard", "mouse"} :
                   o.full /\ Enabled(c, d) /\ (d = "mouse" <=> o.byte.from = "mouse")}
Latched(o, c) == irr \union (Lines(o, c) \ Lines(output, config))

Init ==
    /\ output = [full |-> FALSE, byte |-> Byte("controller", 0, 0)]
    /\ config = InitialConfig
    /\ answers = <<>> /\ acks = {} /\ irr = {}
    /\ streaming = FALSE /\ keys = 0 /\ packet = 0 /\ packets = 0
    /\ pc = "mouseOn" /\ status = 0 /\ handling = "none"
    /\ buffer = [j \in 0..2 |-> Byte("mouse", 0, 0)] /\ offset = 0 /\ button = 0
    /\ printed = <<>> /\ typed = <<>> /\ spurious = 0 /\ hit = {}

-----------------------------------------------------------------------------
(* What a scan code prints. *)

\* The scan codes with a case of their own, and the one that prints nothing.
Characters == (2..11) \union (16..25) \union (30..38) \union (44..53) \union {28, 57}
Silent == {69}
Printout(v) == [key |-> v, as |-> IF v \in Characters THEN "character" ELSE "digits"]

\* A bug the keyboard's handler could have: it prints releases as well.
ShownReleases(v) == IF v \in Silent THEN <<>> ELSE <<Printout(v)>>

\* A byte prints its character, two digits, or nothing: releases are above 0x80.
Shown(v) == IF v > 128 \/ v \in Silent THEN <<>> ELSE <<Printout(v)>>

-----------------------------------------------------------------------------
(* The controller and the devices. *)

\* The main thread's places after the keyboard's Activate drained the buffer.
Drained == {"keyboardQuery", "keyboardRead", "keyboardWrite", "keyboardStart", "sti", "run"}

PutOut(b) ==
    /\ ~output.full
    /\ output' = Put(b)
    /\ irr' = Latched(Put(b), config)
    /\ UNCHANGED config

Answer ==
    /\ answers # <<>>
    /\ PutOut(Byte("controller", Head(answers), 0))
    /\ answers' = Tail(answers)
    /\ UNCHANGED <<acks, devices, main, mouse, ghosts>>

Acknowledge(d) ==
    /\ d \in acks
    /\ ~Disabled(config, d)
    /\ PutOut(Byte(d, ACK, 0))
    /\ acks' = acks \ {d}
    /\ UNCHANGED <<answers, devices, main, mouse, ghosts>>

KeyByte(v) ==
    /\ keys < MaxKeys
    /\ "keyboard" \notin acks
    /\ ~Disabled(config, "keyboard")
    /\ PutOut(Byte("keyboard", v, 0))
    /\ keys' = keys + 1
    /\ typed' = IF pc \in Drained THEN typed \o Shown(v) ELSE typed
    /\ UNCHANGED <<answers, acks, streaming, packet, packets, main, mouse,
                   printed, spurious, hit>>

PacketByte(v) ==
    /\ streaming /\ "mouse" \notin acks
    /\ packet = 0 => packets < MaxPackets
    /\ ~Disabled(config, "mouse")
    /\ PutOut(Byte("mouse", IF packet = 0 THEN v ELSE 0, packet + 1))
    /\ packet' = (packet + 1) % 3
    /\ packets' = IF packet = 0 THEN packets + 1 ELSE packets
    /\ UNCHANGED <<answers, acks, streaming, keys, main, mouse, ghosts>>

-----------------------------------------------------------------------------
(* MouseDriver::Activate and KeyboardDriver::Activate. *)

\* The data port is read, whatever is in it.
ReadData ==
    /\ output' = Taken(output)
    /\ UNCHANGED <<config, irr>>

NoAnswer == IF Full("controller") THEN hit ELSE hit \union {"config"}

MouseOn ==
    /\ pc = "mouseOn"
    /\ offset' = 0 /\ button' = 0
    /\ config' = WithoutBit(config, 32)
    /\ irr' = Latched(output, config')
    /\ pc' = "mouseQuery"
    /\ UNCHANGED <<output, answers, acks, devices, status, handling, buffer, ghosts>>

\* 0x20 asks for the configuration.
Query(from, to) ==
    /\ pc = from
    /\ answers' = Append(answers, config)
    /\ pc' = to
    /\ UNCHANGED <<output, config, acks, irr, devices, status, handling, mouse, ghosts>>

MouseRead ==
    /\ pc = "mouseRead"
    /\ ReadData
    /\ status' = WithBit(output.byte.v, 2)
    /\ hit' = NoAnswer
    /\ pc' = "mouseWrite"
    /\ UNCHANGED <<answers, acks, devices, handling, mouse, printed, typed, spurious>>

\* 0x60 and the new configuration.
Write(from, to) ==
    /\ pc = from
    /\ config' = status
    /\ irr' = Latched(output, status)
    /\ pc' = to
    /\ UNCHANGED <<output, answers, acks, devices, status, handling, mouse, ghosts>>

\* 0xD4 and 0xF4: the mouse may send packets.
MouseStream ==
    /\ pc = "mouseStream"
    /\ acks' = acks \union {"mouse"}
    /\ streaming' = TRUE
    /\ pc' = "mouseAck"
    /\ UNCHANGED <<output, config, answers, irr, keys, packet, packets, status, handling, mouse, ghosts>>

MouseAck ==
    /\ pc = "mouseAck"
    /\ ReadData
    /\ hit' = IF Full("mouse") THEN hit ELSE hit \union {"ack"}
    /\ pc' = "keyboardOn"
    /\ UNCHANGED <<answers, acks, devices, status, handling, mouse, printed, typed, spurious>>

\* The keyboard's loop reads what is there.
Drain ==
    /\ pc = "keyboardOn"
    /\ output.full
    /\ ReadData
    /\ hit' = IF output.byte.at > 0 THEN hit \union {"mouse"} ELSE hit
    /\ UNCHANGED <<answers, acks, devices, main, mouse, printed, typed, spurious>>

KeyboardOn ==
    /\ pc = "keyboardOn"
    /\ ~output.full
    /\ config' = WithoutBit(config, 16)
    /\ irr' = Latched(output, config')
    /\ pc' = "keyboardQuery"
    /\ UNCHANGED <<output, answers, acks, devices, status, handling, mouse, ghosts>>

\* A bug the keyboard's could have: the clock stays off.
KeyboardReadOff ==
    /\ pc = "keyboardRead"
    /\ ReadData
    /\ status' = WithBit(WithBit(output.byte.v, 1), 16)
    /\ hit' = NoAnswer
    /\ pc' = "keyboardWrite"
    /\ UNCHANGED <<answers, acks, devices, handling, mouse, printed, typed, spurious>>

KeyboardRead ==
    /\ pc = "keyboardRead"
    /\ ReadData
    /\ status' = WithoutBit(WithBit(output.byte.v, 1), 16)
    /\ hit' = NoAnswer
    /\ pc' = "keyboardWrite"
    /\ UNCHANGED <<answers, acks, devices, handling, mouse, printed, typed, spurious>>

\* 0xF4 to the keyboard.
KeyboardStart ==
    /\ pc = "keyboardStart"
    /\ acks' = acks \union {"keyboard"}
    /\ pc' = "sti"
    /\ UNCHANGED <<output, config, answers, irr, devices, status, handling, mouse, ghosts>>

Sti ==
    /\ pc = "sti"
    /\ pc' = "run"
    /\ UNCHANGED <<controller, devices, status, handling, mouse, ghosts>>

\* "while(1);"
Loop == pc = "run" /\ UNCHANGED vars

-----------------------------------------------------------------------------
(* The handlers. *)

Take(d) ==
    /\ pc = "run" /\ handling = "none"
    /\ d \in irr
    /\ d = "mouse" => "keyboard" \notin irr
    /\ irr' = irr \ {d}
    /\ handling' = d
    /\ UNCHANGED <<output, config, answers, acks, devices, pc, status, mouse, ghosts>>

Done(d) == handling = d /\ handling' = "none" /\ UNCHANGED <<pc, status>>

\* A bug the keyboard's handler could have: releases stay where they are.
KeyboardInterruptPeeks ==
    /\ Done("keyboard")
    /\ IF output.byte.v > 128 THEN UNCHANGED output ELSE output' = Taken(output)
    /\ printed' = IF Full("keyboard") THEN printed \o Shown(output.byte.v) ELSE printed
    /\ spurious' = IF Full("keyboard") THEN spurious ELSE spurious + 1
    /\ hit' = IF Full("mouse") THEN hit \union {"mouse"} ELSE hit
    /\ UNCHANGED <<config, answers, acks, irr, devices, mouse, typed>>

\* The keyboard's handler reads the data port without a look at the status: it
\* may take a byte of the mouse, or the last byte once more.
KeyboardInterrupt ==
    /\ Done("keyboard")
    /\ ReadData
    /\ printed' = IF Full("keyboard") THEN printed \o Shown(output.byte.v) ELSE printed
    /\ spurious' = IF Full("keyboard") THEN spurious ELSE spurious + 1
    /\ hit' = IF Full("mouse") THEN hit \union {"mouse"} ELSE hit
    /\ UNCHANGED <<answers, acks, devices, mouse, typed>>

\* A bug the mouse's handler could have: its status is not looked at.
NotForMouseReads ==
    /\ Done("mouse")
    /\ ~Full("mouse")
    /\ ReadData
    /\ buffer' = [buffer EXCEPT ![offset] = output.byte]
    /\ offset' = (offset + 1) % 3
    /\ UNCHANGED <<button, answers, acks, devices, ghosts>>

\* The mouse's handler leaves what is not the mouse's.
NotForMouse ==
    /\ Done("mouse")
    /\ ~Full("mouse")
    /\ UNCHANGED <<controller, devices, mouse, ghosts>>

\* The third byte ends a packet.
MouseInterrupt ==
    /\ Done("mouse")
    /\ Full("mouse")
    /\ ReadData
    /\ buffer' = [buffer EXCEPT ![offset] = output.byte]
    /\ offset' = (offset + 1) % 3
    /\ button' = IF offset' = 0 THEN buffer'[0].v ELSE button
    /\ UNCHANGED <<answers, acks, devices, ghosts>>

Activates ==
    \/ MouseOn \/ Query("mouseQuery", "mouseRead") \/ MouseRead
    \/ Write("mouseWrite", "mouseStream") \/ MouseStream \/ MouseAck
    \/ Drain \/ KeyboardOn \/ Query("keyboardQuery", "keyboardRead") \/ KeyboardRead
    \/ Write("keyboardWrite", "keyboardStart") \/ KeyboardStart \/ Sti

Handles == Take("keyboard") \/ Take("mouse")
           \/ KeyboardInterrupt \/ NotForMouse \/ MouseInterrupt

Next ==
    \/ Answer
    \/ \E d \in {"keyboard", "mouse"} : Acknowledge(d)
    \/ \E v \in Keys : KeyByte(v)
    \/ \E v \in Buttons : PacketByte(v)
    \/ Activates
    \/ Handles
    \/ Loop

Spec == Init /\ [][Next]_vars

\* The main thread runs on and interrupts are taken; nothing is assumed about
\* the devices.
FairSpec == Spec /\ WF_vars(Activates) /\ WF_vars(Handles)
-----------------------------------------------------------------------------
Label == {"mouseOn", "mouseQuery", "mouseRead", "mouseWrite", "mouseStream", "mouseAck",
          "keyboardOn", "keyboardQuery", "keyboardRead", "keyboardWrite", "keyboardStart",
          "sti", "run"}
Prints == [key : 0..255, as : {"character", "digits"}]
Bytes == [from : {"keyboard", "mouse", "controller"}, v : 0..255, at : 0..3]

\* The variables' types: every status written is a byte, whatever byte it was
\* made of, and offset stays within the buffer.
TypeOK ==
    /\ output \in [full : BOOLEAN, byte : Bytes]
    /\ config \in 0..255 /\ status \in 0..255
    /\ answers \in Seq(0..255)
    /\ acks \subseteq {"keyboard", "mouse"} /\ irr \subseteq {"keyboard", "mouse"}
    /\ streaming \in BOOLEAN
    /\ keys \in 0..MaxKeys /\ packet \in 0..2 /\ packets \in 0..MaxPackets
    /\ pc \in Label /\ handling \in {"none", "keyboard", "mouse"}
    /\ buffer \in [0..2 -> Bytes] /\ offset \in 0..2 /\ button \in 0..255
    /\ printed \in Seq(Prints) /\ typed \in Seq(Prints)
    /\ spurious \in Nat /\ hit \subseteq {"config", "ack", "mouse"}

\* The driver's packets are the mouse's: the bytes it has collected are the
\* first ones of a packet, and no other byte is on its way but the next, unless
\* Activate's reads without waiting took or left a byte, or the keyboard's
\* handler took one.  Nothing brings the two back in step.
InStep ==
    hit = {} /\ pc = "run" =>
        /\ \A j \in 0..(offset - 1) : buffer[j].at = j + 1
        /\ packet = (offset + (IF Full("mouse") THEN 1 ELSE 0)) % 3

\* Bytes that are no key's are taken for one only as often as Activate left a
\* request or an answer behind: once, or three times if it read too early.
FewSpurious == spurious <= IF hit = {} THEN 1 ELSE 3

\* What the byte of the keyboard in the output buffer will print.
Due == IF Full("keyboard") THEN Shown(output.byte.v) ELSE <<>>

\* Every key is printed once, in order, from the keyboard's Activate on, and few
\* bytes are taken for a key that are none.
KeysInOrder ==
    /\ FewSpurious
    /\ "config" \notin hit /\ pc = "run" => printed \o Due = typed

\* The two Activates leave both devices and their interrupts on and the rest of
\* the configuration as it was, unless they took another byte for it.
Configured ==
    "config" \notin hit /\ pc \in {"sti", "run"} =>
        config = WithoutBit(WithoutBit(WithBit(WithBit(InitialConfig, 1), 2), 16), 32)

\* A byte does not stay in the output buffer, where it would block both devices,
\* unless a wrong configuration was written.
BytesRead == output.full ~> (~output.full \/ "config" \in hit)
=============================================================================
