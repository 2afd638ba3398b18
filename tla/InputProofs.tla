---------------------------- MODULE InputProofs -----------------------------
(***************************************************************************)
(* The keyboard and mouse drivers, for every configuration at boot and any *)
(* number of keys and packets: the configuration that is written, packets  *)
(* in step with the mouse, and keys printed once and in order.             *)
(***************************************************************************)
EXTENDS Input, SequenceTheorems, TLAPS

-----------------------------------------------------------------------------
(* The invariant. *)

\* The two Activates, up to the place in question.
BeforeMouseAck == {"mouseOn", "mouseQuery", "mouseRead", "mouseWrite", "mouseStream"}

\* The configuration as it is at each place.
MouseOnConfig == WithoutBit(InitialConfig, 32)
MouseConfig == WithBit(MouseOnConfig, 2)
KeyboardOnConfig == WithoutBit(MouseConfig, 16)
FinalConfig == WithoutBit(WithBit(KeyboardOnConfig, 1), 16)

ConfigSoFar ==
    /\ pc = "mouseOn" => config = InitialConfig
    /\ pc \in {"mouseQuery", "mouseRead", "mouseWrite"} => config = MouseOnConfig
    /\ pc \in {"mouseStream", "mouseAck", "keyboardOn"} => config = MouseConfig
    /\ pc \in {"keyboardQuery", "keyboardRead", "keyboardWrite"} => config = KeyboardOnConfig
    /\ pc \in {"keyboardStart", "sti", "run"} => config = FinalConfig

\* As long as each read took the answer to its own command, there is an answer,
\* in the queue or in the buffer, where one is to be read and nowhere else.
AnswerDue ==
    \/ answers = <<config>> /\ ~Full("controller")
    \/ answers = <<>> /\ Full("controller") /\ output.byte.v = config

AnswersInv ==
    "config" \notin hit =>
        /\ ConfigSoFar
        /\ pc \in {"mouseRead", "keyboardRead"} => AnswerDue
        /\ pc \notin {"mouseRead", "keyboardRead"} => answers = <<>> /\ ~Full("controller")
        /\ pc = "mouseWrite" => status = MouseConfig
        /\ pc = "keyboardWrite" => status = FinalConfig

\* As long as nothing took a byte of the mouse, the driver is as far in the
\* packet as the mouse, but for a byte in the buffer.
Offset == (offset + (IF Full("mouse") THEN 1 ELSE 0)) % 3

StepInv ==
    /\ pc # "run" => handling = "none" /\ offset = 0
    /\ pc \in BeforeMouseAck => ~streaming /\ packet = 0 /\ "mouse" \notin acks /\ ~Full("mouse")
    /\ hit = {} /\ pc = "mouseAck" =>
          /\ packet = 0
          /\ \/ "mouse" \in acks /\ ~Full("mouse")
             \/ "mouse" \notin acks /\ Full("mouse") /\ output.byte.at = 0
    /\ hit = {} /\ pc \notin BeforeMouseAck \union {"mouseAck"} =>
          /\ "mouse" \notin acks
          /\ Full("mouse") => output.byte.at = offset + 1
          /\ packet = Offset
          /\ \A j \in 0..(offset - 1) : buffer[j].at = j + 1

\* Requests of the keyboard's line, one that is handled and one that is
\* latched, with no byte of the keyboard that is still there for one of them.
Requests ==
    (IF handling = "keyboard" THEN 1 ELSE 0) + (IF "keyboard" \in irr THEN 1 ELSE 0)
Stale == IF Requests > 0 /\ Full("keyboard") THEN Requests - 1 ELSE Requests

SpuriousInv ==
    /\ pc # "run" => spurious = 0
    /\ Len(answers) + (IF Full("controller") THEN 1 ELSE 0)
          <= IF pc \in {"mouseOn", "mouseQuery"} THEN 0
             ELSE IF pc \in Drained \ {"keyboardQuery"} THEN 2 ELSE 1
    /\ spurious + Stale + Len(answers) <= 3
    /\ hit = {} => spurious + Stale <= 1

\* The main thread takes no byte of a key while it is as it should be; so the
\* handler has printed what was typed, but for the byte in the buffer.
KeysInv ==
    "config" \notin hit =>
        IF pc \in Drained THEN printed \o Due = typed ELSE printed = <<>> /\ typed = <<>>

IInv == TypeOK /\ AnswersInv /\ StepInv /\ SpuriousInv /\ KeysInv

-----------------------------------------------------------------------------
(* Bytes, bits and the buffer. *)

LEMMA BitsInByte ==
  ASSUME NEW v \in 0..255
  PROVE  /\ WithBit(v, 1) \in 0..255 /\ WithBit(v, 2) \in 0..255
         /\ WithoutBit(v, 16) \in 0..255 /\ WithoutBit(v, 32) \in 0..255
  BY SMT DEF WithBit, WithoutBit, Bit

\* The order in which the Activates set and clear the bits does not matter.
LEMMA SameConfig ==
  FinalConfig = WithoutBit(WithoutBit(WithBit(WithBit(InitialConfig, 1), 2), 16), 32)
  BY SMTT(60), ConfigAssumption DEF FinalConfig, KeyboardOnConfig, MouseConfig, MouseOnConfig,
     WithBit, WithoutBit, Bit

LEMMA TakenIs ==
  ASSUME TypeOK, output' = Taken(output)
  PROVE  /\ output' \in [full : BOOLEAN, byte : Bytes] /\ output'.byte = output.byte
         /\ ~output'.full /\ \A from : ~Full(from)'
<1>1. output \in [full : BOOLEAN, byte : Bytes] /\ output' = [output EXCEPT !.full = FALSE]
  BY DEF TypeOK, Taken
<1>2. /\ output' \in [full : BOOLEAN, byte : Bytes] /\ output'.byte = output.byte
      /\ ~output'.full
  BY ONLY <1>1
<1> QED
  BY ONLY <1>2 DEF Full

LEMMA PutIs ==
  ASSUME NEW b \in Bytes, output' = Put(b)
  PROVE  /\ output' \in [full : BOOLEAN, byte : Bytes] /\ output'.byte = b
         /\ output'.full /\ \A from : Full(from)' <=> b.from = from
  BY DEF Put, Full, Bytes

LEMMA LatchedIs ==
  ASSUME irr \subseteq {"keyboard", "mouse"}, NEW o, NEW c
  PROVE  irr \subseteq Latched(o, c) /\ Latched(o, c) \subseteq {"keyboard", "mouse"}
  BY DEF Latched, Lines

\* A byte of the mouse leaves no request on the keyboard's line.
LEMMA MouseLatchesItsOwn ==
  ASSUME NEW b, b.from = "mouse", NEW c
  PROVE  "keyboard" \in Latched(Put(b), c) <=> "keyboard" \in irr
  BY DEF Latched, Lines, Put

\* What a byte prints.
LEMMA ShownIs ==
  ASSUME NEW v \in 0..255
  PROVE  Shown(v) \in Seq(Prints)
<1>1. Printout(v) \in Prints
  BY DEF Printout, Prints
<1> QED
  BY <1>1 DEF Shown

-----------------------------------------------------------------------------
(* Each step keeps the invariant. *)

LEMMA AnswerKeeps ==
  ASSUME IInv, Answer
  PROVE  IInv'
<1> USE DEF IInv
<1> DEFINE b == Byte("controller", Head(answers), 0)
<1>1. b \in Bytes
  <2>1. Head(answers) \in 0..255
    <3>1. answers \in Seq(0..255) /\ answers # <<>>
      BY DEF Answer, TypeOK
    <3> QED
      BY ONLY <3>1, HeadTailProperties
  <2> QED
    BY <2>1 DEF Bytes, Byte
<1>2. output' = Put(b) /\ irr' = Latched(Put(b), config) /\ ~output.full
  BY DEF Answer, PutOut
<1>3. b.from = "controller" /\ b.at = 0 /\ b.v = Head(answers)
  BY DEF Byte
<1> HIDE DEF b
<1>4. /\ output' \in [full : BOOLEAN, byte : Bytes] /\ output'.byte = b
      /\ output'.full /\ \A from : Full(from)' <=> b.from = from
  BY <1>1, <1>2, PutIs
<1>5. \A from : ~Full(from)
  BY <1>2 DEF Full
<1>6. irr \subseteq irr' /\ irr' \subseteq {"keyboard", "mouse"}
  BY <1>2, LatchedIs DEF TypeOK
<1>7. TypeOK'
  <2>1. answers' \in Seq(0..255)
    <3>1. answers \in Seq(0..255) /\ answers # <<>> /\ answers' = Tail(answers)
      BY DEF Answer, TypeOK
    <3> QED
      BY ONLY <3>1, HeadTailProperties
  <2> QED
    BY <1>4, <1>6, <2>1 DEF TypeOK, Answer, PutOut, controller, devices, main, mouse, ghosts
<1>8. AnswersInv'
  BY <1>2, <1>3, <1>4, <1>5, <1>6 DEF AnswersInv, ConfigSoFar, AnswerDue, Answer, PutOut,
     controller, main, ghosts, TypeOK
<1>9. StepInv'
  BY <1>2, <1>3, <1>4, <1>5, <1>6 DEF StepInv, Offset, BeforeMouseAck, Answer, PutOut,
     controller, devices, main, mouse, ghosts
<1>10. SpuriousInv'
  BY SMTT(60), <1>3, <1>4, <1>5, <1>6 DEF SpuriousInv, Requests, Stale, Drained, AnswersInv,
     AnswerDue, StepInv, TypeOK, main, ghosts, Answer
<1>11. KeysInv'
  BY <1>3, <1>4, <1>5 DEF KeysInv, Due, Answer, main, ghosts
<1> QED
  BY <1>7, <1>8, <1>9, <1>10, <1>11

LEMMA AcknowledgeKeeps ==
  ASSUME IInv, NEW d \in {"keyboard", "mouse"}, Acknowledge(d)
  PROVE  IInv'
<1> USE DEF IInv
<1> DEFINE b == Byte(d, ACK, 0)
<1>1. b \in Bytes
  BY KeysAssumption, ButtonsAssumption DEF TypeOK, Bytes, Byte, ACK
<1>2. output' = Put(b) /\ irr' = Latched(Put(b), config) /\ ~output.full
  BY DEF Acknowledge, PutOut
<1>3. b.from = d /\ b.at = 0 /\ b.v = ACK
  BY DEF Byte
<1> HIDE DEF b
<1>4. /\ output' \in [full : BOOLEAN, byte : Bytes] /\ output'.byte = b
      /\ output'.full /\ \A from : Full(from)' <=> b.from = from
  BY <1>1, <1>2, PutIs
<1>5. \A from : ~Full(from)
  BY <1>2 DEF Full
<1>6. irr \subseteq irr' /\ irr' \subseteq {"keyboard", "mouse"}
  BY <1>2, LatchedIs DEF TypeOK
<1>7. TypeOK'
  BY <1>4, <1>6 DEF TypeOK, Acknowledge, PutOut, devices, main, mouse, ghosts
<1>8. AnswersInv'
  BY <1>2, <1>3, <1>4, <1>5, <1>6 DEF AnswersInv, ConfigSoFar, AnswerDue, Acknowledge, PutOut,
     main, ghosts
<1>9. StepInv'
  BY <1>2, <1>3, <1>4, <1>5, <1>6 DEF StepInv, Offset, BeforeMouseAck, Acknowledge, PutOut,
     devices, main, mouse, ghosts
<1>10. SpuriousInv'
  <2>1. UNCHANGED <<pc, answers, spurious, hit, handling>>
    BY DEF Acknowledge, main, ghosts
  <2>2. ~Full("controller")' /\ ~Full("controller") /\ ~Full("keyboard")
    BY <1>3, <1>4, <1>5
  <2>3. Stale' <= Stale
    <3>1. CASE d = "keyboard"
      <4>1. Full("keyboard")'
        BY <3>1, <1>3, <1>4
      <4> QED
        BY <4>1, <2>1, <2>2, <1>6 DEF Stale, Requests
    <3>2. CASE d = "mouse"
      <4>1. "keyboard" \in irr' <=> "keyboard" \in irr
        BY <3>2, <1>2, <1>3, MouseLatchesItsOwn
      <4>2. ~Full("keyboard")'
        BY <3>2, <1>3, <1>4
      <4> QED
        BY <4>1, <4>2, <2>1, <2>2 DEF Stale, Requests
    <3> QED
      BY <3>1, <3>2
  <2>4. Stale \in Int /\ Stale' \in Int /\ spurious \in Nat /\ Len(answers) \in Nat
    BY DEF Stale, Requests, TypeOK
  <2>5. spurious + Stale + Len(answers) <= 3 /\ (hit = {} => spurious + Stale <= 1)
    BY DEF SpuriousInv
  <2>6. spurious' + Stale' + Len(answers') <= 3 /\ (hit' = {} => spurious' + Stale' <= 1)
    <3>1. answers' = answers /\ spurious' = spurious /\ hit' = hit
      BY <2>1
    <3>2. spurious + Stale' + Len(answers) <= 3
      BY ONLY <2>3, <2>4, <2>5
    <3>3. ASSUME hit = {} PROVE spurious + Stale' <= 1
      <4>1. spurious + Stale <= 1
        BY <2>5, <3>3
      <4>2. \A s, t, u \in Int : s + t <= 1 /\ u <= t => s + u <= 1
        OBVIOUS
      <4>3. spurious \in Int /\ Stale \in Int /\ Stale' \in Int
        BY <2>4
      <4> QED
        BY ONLY <4>1, <4>2, <4>3, <2>3
    <3> QED
      BY ONLY <3>1, <3>2, <3>3
  <2> QED
    BY <2>1, <2>2, <2>6 DEF SpuriousInv
<1>11. KeysInv'
  <2>1. Due = <<>> /\ Due' = <<>>
    <3>1. Shown(ACK) = <<>>
      BY DEF Shown, ACK
    <3> QED
      BY <1>3, <1>4, <1>5, <3>1 DEF Due
  <2> QED
    BY <2>1 DEF KeysInv, Acknowledge, main, ghosts
<1> QED
  BY <1>7, <1>8, <1>9, <1>10, <1>11

LEMMA KeyByteKeeps ==
  ASSUME IInv, NEW v \in Keys, KeyByte(v)
  PROVE  IInv'
<1> USE DEF IInv
<1> DEFINE b == Byte("keyboard", v, 0)
<1>1. b \in Bytes
  BY KeysAssumption, ButtonsAssumption DEF TypeOK, Bytes, Byte, ACK
<1>2. output' = Put(b) /\ irr' = Latched(Put(b), config) /\ ~output.full
  BY DEF KeyByte, PutOut
<1>3. b.from = "keyboard" /\ b.at = 0 /\ b.v = v
  BY DEF Byte
<1> HIDE DEF b
<1>4. /\ output' \in [full : BOOLEAN, byte : Bytes] /\ output'.byte = b
      /\ output'.full /\ \A from : Full(from)' <=> b.from = from
  BY <1>1, <1>2, PutIs
<1>5. \A from : ~Full(from)
  BY <1>2 DEF Full
<1>6. irr \subseteq irr' /\ irr' \subseteq {"keyboard", "mouse"}
  BY <1>2, LatchedIs DEF TypeOK
<1>7. TypeOK'
  <2>1. keys' \in 0..MaxKeys
    BY BoundsAssumption DEF KeyByte, TypeOK
  <2>2. typed' \in Seq(Prints)
    BY KeysAssumption, ShownIs, ConcatProperties DEF KeyByte, TypeOK
  <2> QED
    BY <1>4, <1>6, <2>1, <2>2 DEF TypeOK, KeyByte, PutOut, main, mouse
<1>8. AnswersInv'
  BY <1>2, <1>3, <1>4, <1>5, <1>6 DEF AnswersInv, ConfigSoFar, AnswerDue, KeyByte, PutOut, main
<1>9. StepInv'
  BY <1>2, <1>3, <1>4, <1>5, <1>6 DEF StepInv, Offset, BeforeMouseAck, KeyByte, PutOut, main,
     mouse
<1>10. SpuriousInv'
  BY <1>2, <1>3, <1>4, <1>5, <1>6 DEF SpuriousInv, Requests, Stale, Drained, KeyByte, PutOut,
     main, TypeOK
<1>11. KeysInv'
  <2>1. Due = <<>> /\ Due' = Shown(v)
    BY <1>3, <1>4, <1>5 DEF Due
  <2>2. printed \o <<>> = printed
    BY ConcatEmptySeq DEF TypeOK
  <2> QED
    BY <2>1, <2>2 DEF KeysInv, KeyByte, main
<1> QED
  BY <1>7, <1>8, <1>9, <1>10, <1>11

LEMMA PacketByteKeeps ==
  ASSUME IInv, NEW v \in Buttons, PacketByte(v)
  PROVE  IInv'
<1> USE DEF IInv
<1> DEFINE b == Byte("mouse", IF packet = 0 THEN v ELSE 0, packet + 1)
<1>1. b \in Bytes
  BY KeysAssumption, ButtonsAssumption DEF TypeOK, Bytes, Byte, ACK
<1>2. output' = Put(b) /\ irr' = Latched(Put(b), config) /\ ~output.full
  BY DEF PacketByte, PutOut
<1>3. b.from = "mouse" /\ b.at = packet + 1 /\ b.v = (IF packet = 0 THEN v ELSE 0)
  BY DEF Byte
<1> HIDE DEF b
<1>4. /\ output' \in [full : BOOLEAN, byte : Bytes] /\ output'.byte = b
      /\ output'.full /\ \A from : Full(from)' <=> b.from = from
  BY <1>1, <1>2, PutIs
<1>5. \A from : ~Full(from)
  BY <1>2 DEF Full
<1>6. irr \subseteq irr' /\ irr' \subseteq {"keyboard", "mouse"}
  BY <1>2, LatchedIs DEF TypeOK
<1>7. TypeOK'
  <2>1. packets' \in 0..MaxPackets /\ packet' \in 0..2
    BY BoundsAssumption DEF PacketByte, TypeOK
  <2> QED
    BY <1>4, <1>6, <2>1 DEF TypeOK, PacketByte, PutOut, main, mouse, ghosts
<1>8. AnswersInv'
  BY <1>2, <1>3, <1>4, <1>5, <1>6 DEF AnswersInv, ConfigSoFar, AnswerDue, PacketByte, PutOut,
     main, ghosts
<1>9. StepInv'
  <2>1. UNCHANGED <<pc, hit, handling, offset, acks, streaming, buffer>>
    BY DEF PacketByte, main, ghosts, mouse
  <2>2. streaming /\ "mouse" \notin acks /\ packet' = (packet + 1) % 3
    BY DEF PacketByte
  <2>3. pc \notin BeforeMouseAck
    BY <2>2 DEF StepInv
  <2>4. ~(hit = {} /\ pc = "mouseAck")
    BY <2>2, <1>5 DEF StepInv
  <2>5. Full("mouse")' /\ output'.byte.at = packet + 1
    BY <1>3, <1>4
  <2>6. ASSUME hit = {} PROVE packet = offset /\ offset \in 0..2
    <3>1. packet = Offset
      BY <2>3, <2>4, <2>6 DEF StepInv
    <3>2. offset \in 0..2
      BY DEF TypeOK
    <3>3. packet = (offset + 0) % 3
      BY <3>1, <1>5 DEF Offset
    <3> QED
      BY ONLY <3>2, <3>3
  <2>7. ASSUME hit' = {}, pc' \notin BeforeMouseAck \union {"mouseAck"}
        PROVE  /\ "mouse" \notin acks'
               /\ Full("mouse")' => output'.byte.at = offset' + 1
               /\ packet' = Offset'
               /\ \A j \in 0..(offset' - 1) : buffer'[j].at = j + 1
    <3>1. hit = {} /\ pc \notin BeforeMouseAck \union {"mouseAck"}
      BY <2>7, <2>1
    <3>2. packet' = Offset'
      BY <3>1, <2>1, <2>2, <2>5, <2>6 DEF Offset
    <3>3. \A j \in 0..(offset - 1) : buffer[j].at = j + 1
      BY <3>1 DEF StepInv
    <3> QED
      BY <3>1, <3>2, <3>3, <2>1, <2>2, <2>5, <2>6
  <2>8. pc' # "run" => handling' = "none" /\ offset' = 0
    BY <2>1 DEF StepInv
  <2> QED
    BY <2>1, <2>3, <2>4, <2>7, <2>8 DEF StepInv
<1>10. SpuriousInv'
  <2>1. UNCHANGED <<pc, answers, spurious, hit, handling>>
    BY DEF PacketByte, main, ghosts
  <2>2. ~Full("controller")' /\ ~Full("controller") /\ ~Full("keyboard") /\ ~Full("keyboard")'
    BY <1>3, <1>4, <1>5
  <2>3. "keyboard" \in irr' <=> "keyboard" \in irr
    BY <1>2, <1>3, MouseLatchesItsOwn
  <2>4. Stale' = Stale
    BY <2>1, <2>2, <2>3 DEF Stale, Requests
  <2> QED
    BY <2>1, <2>2, <2>4 DEF SpuriousInv
<1>11. KeysInv'
  BY <1>3, <1>4, <1>5 DEF KeysInv, Due, PacketByte, main, ghosts
<1> QED
  BY <1>7, <1>8, <1>9, <1>10, <1>11

LEMMA MouseOnKeeps ==
  ASSUME IInv, MouseOn
  PROVE  IInv'
<1> USE DEF IInv
<1>1. irr \subseteq irr' /\ irr' \subseteq {"keyboard", "mouse"}
  BY LatchedIs DEF MouseOn, TypeOK
<1>2. \A from : Full(from)' <=> Full(from)
  BY DEF MouseOn, Full
<1>3. TypeOK'
  <2>1. config' \in 0..255
    BY BitsInByte DEF MouseOn, TypeOK
  <2> QED
    BY <1>1, <2>1 DEF TypeOK, MouseOn, Label, devices, ghosts
<1>4. AnswersInv'
  <2>1. /\ config' = WithoutBit(config, 32) /\ pc = "mouseOn" /\ pc' = "mouseQuery"
        /\ UNCHANGED <<answers, hit>>
    BY DEF MouseOn, ghosts
  <2> QED
    BY <1>2, <2>1 DEF AnswersInv, ConfigSoFar, MouseOnConfig
<1>5. StepInv'
  BY <1>1, <1>2 DEF StepInv, Offset, BeforeMouseAck, MouseOn, devices, ghosts
<1>6. SpuriousInv'
  BY <1>1, <1>2 DEF SpuriousInv, Requests, Stale, Drained, MouseOn, devices, ghosts, TypeOK,
     AnswersInv, AnswerDue, StepInv
<1>7. KeysInv'
  BY DEF KeysInv, Due, Full, Drained, MouseOn, ghosts
<1> QED
  BY <1>3, <1>4, <1>5, <1>6, <1>7

LEMMA MouseQueryKeeps ==
  ASSUME IInv, Query("mouseQuery", "mouseRead")
  PROVE  IInv'
<1> USE DEF IInv
<1>1. \A from : Full(from)' <=> Full(from)
  BY DEF Query, Full
<1>2. TypeOK'
  <2>1. answers' \in Seq(0..255)
    BY AppendProperties DEF Query, TypeOK
  <2> QED
    BY <2>1 DEF TypeOK, Query, Label, devices, mouse, ghosts
<1>3. AnswersInv'
  BY <1>1 DEF AnswersInv, ConfigSoFar, AnswerDue, Query, ghosts
<1>4. StepInv'
  BY <1>1 DEF StepInv, Offset, BeforeMouseAck, Query, devices, mouse, ghosts
<1>5. SpuriousInv'
  BY <1>1 DEF SpuriousInv, Requests, Stale, Drained, Query, ghosts
<1>6. KeysInv'
  BY DEF KeysInv, Due, Full, Drained, Query, ghosts
<1> QED
  BY <1>2, <1>3, <1>4, <1>5, <1>6

LEMMA MouseReadKeeps ==
  ASSUME IInv, MouseRead
  PROVE  IInv'
<1> USE DEF IInv
<1>1. /\ output' \in [full : BOOLEAN, byte : Bytes] /\ output'.byte = output.byte
      /\ ~output'.full /\ \A from : ~Full(from)'
  BY TakenIs DEF MouseRead, ReadData
<1>2. TypeOK'
  <2>1. status' \in 0..255
    BY BitsInByte DEF MouseRead, TypeOK, Bytes
  <2>2. hit' \subseteq {"config", "ack", "mouse"}
    BY DEF MouseRead, NoAnswer, TypeOK
  <2> QED
    BY <1>1, <2>1, <2>2 DEF TypeOK, MouseRead, ReadData, Label, controller, devices, mouse
<1>3. AnswersInv'
  <2> SUFFICES ASSUME "config" \notin hit' PROVE AnswersInv'
    BY DEF AnswersInv
  <2>1. /\ pc = "mouseRead" /\ pc' = "mouseWrite" /\ Full("controller") /\ "config" \notin hit
        /\ UNCHANGED <<answers, config>>
    BY DEF MouseRead, NoAnswer, ReadData
  <2>2. answers = <<>> /\ output.byte.v = config /\ ConfigSoFar
    BY <2>1 DEF AnswersInv, AnswerDue
  <2>3. status' = MouseConfig
    BY <2>1, <2>2 DEF MouseRead, ConfigSoFar, MouseConfig
  <2> QED
    BY <1>1, <2>1, <2>2, <2>3 DEF AnswersInv, ConfigSoFar
<1>4. StepInv'
  BY <1>1 DEF StepInv, Offset, BeforeMouseAck, MouseRead, ReadData, NoAnswer, controller,
     devices, mouse
<1>5. SpuriousInv'
  BY <1>1 DEF SpuriousInv, Requests, Stale, Drained, MouseRead, ReadData, NoAnswer,
     controller, devices, mouse, TypeOK, AnswersInv, AnswerDue, StepInv
<1>6. KeysInv'
  BY DEF KeysInv, Drained, MouseRead, NoAnswer
<1> QED
  BY <1>2, <1>3, <1>4, <1>5, <1>6

LEMMA MouseWriteKeeps ==
  ASSUME IInv, Write("mouseWrite", "mouseStream")
  PROVE  IInv'
<1> USE DEF IInv
<1>1. irr \subseteq irr' /\ irr' \subseteq {"keyboard", "mouse"}
  BY LatchedIs DEF Write, TypeOK
<1>2. \A from : Full(from)' <=> Full(from)
  BY DEF Write, Full
<1>3. TypeOK'
  BY <1>1, <1>2 DEF TypeOK, Label, Write, devices, mouse, ghosts
<1>4. AnswersInv'
  BY <1>1, <1>2 DEF AnswersInv, ConfigSoFar, Write, ghosts
<1>5. StepInv'
  BY <1>1, <1>2 DEF StepInv, Offset, BeforeMouseAck, Write, devices, mouse, ghosts
<1>6. SpuriousInv'
  BY <1>1, <1>2 DEF SpuriousInv, Requests, Stale, Drained, Write, devices, mouse, ghosts,
     TypeOK, AnswersInv, AnswerDue, StepInv
<1>7. KeysInv'
  BY DEF KeysInv, Due, Full, Drained, Write, ghosts
<1> QED
  BY <1>3, <1>4, <1>5, <1>6, <1>7

LEMMA MouseStreamKeeps ==
  ASSUME IInv, MouseStream
  PROVE  IInv'
<1> USE DEF IInv
<1>1. \A from : Full(from)' <=> Full(from)
  BY DEF MouseStream, Full
<1>2. TypeOK'
  BY <1>1 DEF TypeOK, Label, MouseStream, mouse, ghosts
<1>3. AnswersInv'
  BY <1>1 DEF AnswersInv, ConfigSoFar, MouseStream, ghosts
<1>4. StepInv'
  BY <1>1 DEF StepInv, Offset, BeforeMouseAck, MouseStream, mouse, ghosts
<1>5. SpuriousInv'
  BY <1>1 DEF SpuriousInv, Requests, Stale, Drained, MouseStream, ghosts
<1>6. KeysInv'
  BY DEF KeysInv, Due, Full, Drained, MouseStream, ghosts
<1> QED
  BY <1>2, <1>3, <1>4, <1>5, <1>6

LEMMA MouseAckKeeps ==
  ASSUME IInv, MouseAck
  PROVE  IInv'
<1> USE DEF IInv
<1>1. /\ output' \in [full : BOOLEAN, byte : Bytes] /\ output'.byte = output.byte
      /\ ~output'.full /\ \A from : ~Full(from)'
  BY TakenIs DEF MouseAck, ReadData
<1>2. TypeOK'
  BY <1>1 DEF TypeOK, Label, MouseAck, ReadData, devices, mouse
<1>3. AnswersInv'
  BY <1>1 DEF AnswersInv, ConfigSoFar, MouseAck, ReadData
<1>4. StepInv'
  <2>1. /\ pc = "mouseAck" /\ pc' = "keyboardOn"
        /\ UNCHANGED <<acks, packet, handling, offset, buffer>>
    BY DEF MouseAck, devices, mouse
  <2>2. handling = "none" /\ offset = 0
    BY <2>1 DEF StepInv
  <2>3. hit' = {} => packet = 0 /\ "mouse" \notin acks
    BY <2>1 DEF MouseAck, StepInv
  <2> QED
    BY <1>1, <2>1, <2>2, <2>3 DEF StepInv, Offset, BeforeMouseAck
<1>5. SpuriousInv'
  BY <1>1 DEF SpuriousInv, Requests, Stale, Drained, MouseAck, ReadData, devices, mouse,
     TypeOK, AnswersInv, AnswerDue, StepInv
<1>6. KeysInv'
  BY DEF KeysInv, Drained, MouseAck
<1> QED
  BY <1>2, <1>3, <1>4, <1>5, <1>6

LEMMA DrainKeeps ==
  ASSUME IInv, Drain
  PROVE  IInv'
<1> USE DEF IInv
<1>1. /\ output' \in [full : BOOLEAN, byte : Bytes] /\ output'.byte = output.byte
      /\ ~output'.full /\ \A from : ~Full(from)'
  BY TakenIs DEF Drain, ReadData
<1>2. TypeOK'
  BY <1>1 DEF TypeOK, Label, Drain, ReadData, devices, main, mouse
<1>3. AnswersInv'
  BY <1>1 DEF AnswersInv, ConfigSoFar, Drain, ReadData, main
<1>4. StepInv'
  BY <1>1 DEF StepInv, Offset, BeforeMouseAck, Drain, ReadData, devices, main, mouse
<1>5. SpuriousInv'
  BY <1>1 DEF SpuriousInv, Requests, Stale, Drained, Drain, ReadData, devices, main, mouse,
     TypeOK, AnswersInv, AnswerDue, StepInv
<1>6. KeysInv'
  BY DEF KeysInv, Drained, Drain, main
<1> QED
  BY <1>2, <1>3, <1>4, <1>5, <1>6

LEMMA KeyboardOnKeeps ==
  ASSUME IInv, KeyboardOn
  PROVE  IInv'
<1> USE DEF IInv
<1>1. irr \subseteq irr' /\ irr' \subseteq {"keyboard", "mouse"}
  BY LatchedIs DEF KeyboardOn, TypeOK
<1>2. \A from : Full(from)' <=> Full(from)
  BY DEF KeyboardOn, Full
<1>3. TypeOK'
  <2>1. config' \in 0..255
    BY BitsInByte DEF KeyboardOn, TypeOK
  <2> QED
    BY <1>1, <2>1 DEF TypeOK, KeyboardOn, Label, devices, mouse, ghosts
<1>4. AnswersInv'
  <2>1. /\ config' = WithoutBit(config, 16) /\ pc = "keyboardOn" /\ pc' = "keyboardQuery"
        /\ UNCHANGED <<answers, hit>>
    BY DEF KeyboardOn, ghosts
  <2> QED
    BY <1>2, <2>1 DEF AnswersInv, ConfigSoFar, KeyboardOnConfig
<1>5. StepInv'
  BY <1>1, <1>2 DEF StepInv, Offset, BeforeMouseAck, KeyboardOn, devices, mouse, ghosts
<1>6. SpuriousInv'
  BY <1>1, <1>2 DEF SpuriousInv, Requests, Stale, Drained, KeyboardOn, devices, mouse, ghosts,
     TypeOK, AnswersInv, AnswerDue, StepInv
<1>7. KeysInv'
  <2>1. Due' = <<>>
    BY DEF Due, Full, KeyboardOn
  <2> QED
    BY <2>1 DEF KeysInv, KeyboardOn, Drained, ghosts
<1> QED
  BY <1>3, <1>4, <1>5, <1>6, <1>7

LEMMA KeyboardQueryKeeps ==
  ASSUME IInv, Query("keyboardQuery", "keyboardRead")
  PROVE  IInv'
<1> USE DEF IInv
<1>1. \A from : Full(from)' <=> Full(from)
  BY DEF Query, Full
<1>2. TypeOK'
  <2>1. answers' \in Seq(0..255)
    BY AppendProperties DEF Query, TypeOK
  <2> QED
    BY <2>1 DEF TypeOK, Query, Label, devices, mouse, ghosts
<1>3. AnswersInv'
  BY <1>1 DEF AnswersInv, ConfigSoFar, AnswerDue, Query, ghosts
<1>4. StepInv'
  BY <1>1 DEF StepInv, Offset, BeforeMouseAck, Query, devices, mouse, ghosts
<1>5. SpuriousInv'
  BY <1>1 DEF SpuriousInv, Requests, Stale, Drained, Query, devices, mouse, ghosts, TypeOK,
     AnswersInv, AnswerDue, StepInv
<1>6. KeysInv'
  BY DEF KeysInv, Due, Full, Drained, Query, ghosts
<1> QED
  BY <1>2, <1>3, <1>4, <1>5, <1>6

LEMMA KeyboardReadKeeps ==
  ASSUME IInv, KeyboardRead
  PROVE  IInv'
<1> USE DEF IInv
<1>1. /\ output' \in [full : BOOLEAN, byte : Bytes] /\ output'.byte = output.byte
      /\ ~output'.full /\ \A from : ~Full(from)'
  BY TakenIs DEF KeyboardRead, ReadData
<1>2. TypeOK'
  <2>1. status' \in 0..255
    <3>1. output.byte.v \in 0..255 /\ status' = WithoutBit(WithBit(output.byte.v, 1), 16)
      BY DEF KeyboardRead, TypeOK, Bytes
    <3> QED
      BY ONLY <3>1, BitsInByte
  <2>2. hit' \subseteq {"config", "ack", "mouse"}
    BY DEF KeyboardRead, NoAnswer, TypeOK
  <2> QED
    BY <1>1, <2>1, <2>2 DEF TypeOK, KeyboardRead, ReadData, Label, controller, devices, mouse
<1>3. AnswersInv'
  <2> SUFFICES ASSUME "config" \notin hit' PROVE AnswersInv'
    BY DEF AnswersInv
  <2>1. /\ pc = "keyboardRead" /\ pc' = "keyboardWrite" /\ Full("controller") /\ "config" \notin hit
        /\ UNCHANGED <<answers, config>>
    BY DEF KeyboardRead, NoAnswer, ReadData
  <2>2. answers = <<>> /\ output.byte.v = config /\ ConfigSoFar
    BY <2>1 DEF AnswersInv, AnswerDue
  <2>3. status' = FinalConfig
    BY <2>1, <2>2 DEF KeyboardRead, ConfigSoFar, FinalConfig
  <2> QED
    BY <1>1, <2>1, <2>2, <2>3 DEF AnswersInv, ConfigSoFar
<1>4. StepInv'
  <2>1. /\ pc = "keyboardRead" /\ pc' = "keyboardWrite"
        /\ UNCHANGED <<acks, packet, handling, offset, buffer>>
        /\ Full("controller") \/ hit' # {}
    BY DEF KeyboardRead, NoAnswer, devices, mouse
  <2>2. hit' = {} => hit = {} /\ Full("controller") /\ ~Full("mouse")
    BY <2>1 DEF KeyboardRead, NoAnswer, Full
  <2> QED
    BY <1>1, <2>1, <2>2 DEF StepInv, Offset, BeforeMouseAck
<1>5. SpuriousInv'
  BY <1>1 DEF SpuriousInv, Requests, Stale, Drained, KeyboardRead, ReadData, NoAnswer,
     controller, devices, mouse, TypeOK, AnswersInv, AnswerDue, StepInv
<1>6. KeysInv'
  <2> SUFFICES ASSUME "config" \notin hit' PROVE KeysInv'
    BY DEF KeysInv
  <2>1. "config" \notin hit /\ Full("controller")
    BY DEF KeyboardRead, NoAnswer
  <2>2. Due = <<>> /\ Due' = <<>>
    BY <1>1, <2>1 DEF Due, Full
  <2> QED
    BY <2>1, <2>2 DEF KeysInv, KeyboardRead, Drained
<1> QED
  BY <1>2, <1>3, <1>4, <1>5, <1>6

LEMMA KeyboardWriteKeeps ==
  ASSUME IInv, Write("keyboardWrite", "keyboardStart")
  PROVE  IInv'
<1> USE DEF IInv
<1>1. irr \subseteq irr' /\ irr' \subseteq {"keyboard", "mouse"}
  BY LatchedIs DEF Write, TypeOK
<1>2. \A from : Full(from)' <=> Full(from)
  BY DEF Write, Full
<1>3. TypeOK'
  BY <1>1, <1>2 DEF TypeOK, Label, Write, devices, mouse, ghosts
<1>4. AnswersInv'
  BY <1>1, <1>2 DEF AnswersInv, ConfigSoFar, Write, ghosts
<1>5. StepInv'
  BY <1>1, <1>2 DEF StepInv, Offset, BeforeMouseAck, Write, devices, mouse, ghosts
<1>6. SpuriousInv'
  BY <1>1, <1>2 DEF SpuriousInv, Requests, Stale, Drained, Write, devices, mouse, ghosts,
     TypeOK, AnswersInv, AnswerDue, StepInv
<1>7. KeysInv'
  BY DEF KeysInv, Due, Full, Drained, Write, ghosts
<1> QED
  BY <1>3, <1>4, <1>5, <1>6, <1>7

LEMMA KeyboardStartKeeps ==
  ASSUME IInv, KeyboardStart
  PROVE  IInv'
<1> USE DEF IInv
<1>1. \A from : Full(from)' <=> Full(from)
  BY DEF KeyboardStart, Full
<1>2. TypeOK'
  BY <1>1 DEF TypeOK, Label, KeyboardStart, devices, mouse, ghosts
<1>3. AnswersInv'
  BY <1>1 DEF AnswersInv, ConfigSoFar, KeyboardStart, ghosts
<1>4. StepInv'
  BY <1>1 DEF StepInv, Offset, BeforeMouseAck, KeyboardStart, devices, mouse, ghosts
<1>5. SpuriousInv'
  BY <1>1 DEF SpuriousInv, Requests, Stale, Drained, KeyboardStart, ghosts
<1>6. KeysInv'
  BY DEF KeysInv, Due, Full, Drained, KeyboardStart, ghosts
<1> QED
  BY <1>2, <1>3, <1>4, <1>5, <1>6

LEMMA StiKeeps ==
  ASSUME IInv, Sti
  PROVE  IInv'
<1> USE DEF IInv
<1>1. \A from : Full(from)' <=> Full(from)
  BY DEF controller, Sti, Full
<1>2. TypeOK'
  BY <1>1 DEF TypeOK, Label, Sti, controller, devices, mouse, ghosts
<1>3. AnswersInv'
  BY <1>1 DEF AnswersInv, ConfigSoFar, Sti, controller, ghosts
<1>4. StepInv'
  BY <1>1 DEF StepInv, Offset, BeforeMouseAck, Sti, controller, devices, mouse, ghosts
<1>5. SpuriousInv'
  BY <1>1 DEF SpuriousInv, Requests, Stale, Drained, Sti, controller, ghosts
<1>6. KeysInv'
  BY DEF KeysInv, Due, Full, Drained, Sti, controller, ghosts
<1> QED
  BY <1>2, <1>3, <1>4, <1>5, <1>6

LEMMA TakeKeeps ==
  ASSUME IInv, NEW d \in {"keyboard", "mouse"}, Take(d)
  PROVE  IInv'
<1> USE DEF IInv
<1>1. \A from : Full(from)' <=> Full(from)
  BY DEF Take, Full
<1>2. TypeOK'
  BY <1>1 DEF TypeOK, Label, Take, devices, mouse, ghosts
<1>3. AnswersInv'
  BY <1>1 DEF AnswersInv, ConfigSoFar, Take, ghosts
<1>4. StepInv'
  BY <1>1 DEF StepInv, Offset, BeforeMouseAck, Take, devices, mouse, ghosts
<1>5. SpuriousInv'
  BY <1>1 DEF SpuriousInv, Requests, Stale, Drained, Take, ghosts
<1>6. KeysInv'
  BY DEF KeysInv, Due, Full, Drained, Take, ghosts
<1> QED
  BY <1>2, <1>3, <1>4, <1>5, <1>6

LEMMA KeyboardInterruptKeeps ==
  ASSUME IInv, KeyboardInterrupt
  PROVE  IInv'
<1> USE DEF IInv
<1>1. /\ output' \in [full : BOOLEAN, byte : Bytes] /\ output'.byte = output.byte
      /\ ~output'.full /\ \A from : ~Full(from)'
  BY TakenIs DEF KeyboardInterrupt, ReadData
<1>2. TypeOK'
  <2>1. spurious' \in Nat /\ hit' \subseteq {"config", "ack", "mouse"}
    BY DEF KeyboardInterrupt, TypeOK
  <2>2. printed' \in Seq(Prints)
    BY ShownIs, ConcatProperties DEF KeyboardInterrupt, TypeOK, Bytes
  <2> QED
    BY <1>1, <2>1, <2>2 DEF TypeOK, KeyboardInterrupt, Done, ReadData, devices, mouse
<1>3. AnswersInv'
  <2>1. pc = "run" /\ pc' = pc /\ UNCHANGED <<answers, config, status>>
    BY DEF KeyboardInterrupt, Done, ReadData, StepInv
  <2>2. "config" \notin hit' => "config" \notin hit
    BY DEF KeyboardInterrupt
  <2> QED
    BY <1>1, <2>1, <2>2 DEF AnswersInv, ConfigSoFar
<1>4. StepInv'
  BY <1>1 DEF StepInv, Offset, BeforeMouseAck, KeyboardInterrupt, Done, ReadData, devices, mouse
<1>5. SpuriousInv'
  BY SMTT(60), <1>1 DEF SpuriousInv, Requests, Stale, Drained, KeyboardInterrupt, Done, ReadData,
     devices, mouse, TypeOK, AnswersInv, AnswerDue, StepInv
<1>6. KeysInv'
  <2>1. pc = "run" /\ pc' = pc /\ typed' = typed /\ ("config" \notin hit' => "config" \notin hit)
    BY DEF KeyboardInterrupt, Done, StepInv
  <2>2. printed' = printed \o Due
    BY ConcatEmptySeq DEF KeyboardInterrupt, Due, TypeOK
  <2>3. Due' = <<>> /\ printed' \o <<>> = printed'
    BY <1>1, <1>2, ConcatEmptySeq DEF Due, TypeOK
  <2> QED
    BY <2>1, <2>2, <2>3 DEF KeysInv, Drained
<1> QED
  BY <1>2, <1>3, <1>4, <1>5, <1>6

LEMMA NotForMouseKeeps ==
  ASSUME IInv, NotForMouse
  PROVE  IInv'
<1> USE DEF IInv
<1>1. \A from : Full(from)' <=> Full(from)
  BY DEF controller, NotForMouse, Done, Full
<1>2. TypeOK'
  BY <1>1 DEF TypeOK, Label, NotForMouse, Done, controller, devices, mouse, ghosts
<1>3. AnswersInv'
  BY <1>1 DEF AnswersInv, ConfigSoFar, AnswerDue, NotForMouse, Done, controller, ghosts
<1>4. StepInv'
  BY <1>1 DEF StepInv, Offset, BeforeMouseAck, NotForMouse, Done, controller, devices, mouse,
     ghosts
<1>5. SpuriousInv'
  BY <1>1 DEF SpuriousInv, Requests, Stale, Drained, NotForMouse, Done, controller, ghosts
<1>6. KeysInv'
  BY DEF KeysInv, Due, Full, Drained, NotForMouse, Done, controller, ghosts
<1> QED
  BY <1>2, <1>3, <1>4, <1>5, <1>6

LEMMA MouseInterruptKeeps ==
  ASSUME IInv, MouseInterrupt
  PROVE  IInv'
<1> USE DEF IInv
<1>1. /\ output' \in [full : BOOLEAN, byte : Bytes] /\ output'.byte = output.byte
      /\ ~output'.full /\ \A from : ~Full(from)'
  BY TakenIs DEF MouseInterrupt, ReadData
<1>2. TypeOK'
  <2>1. offset' \in 0..2
    BY DEF MouseInterrupt, TypeOK
  <2>2. buffer' \in [0..2 -> Bytes] /\ buffer'[0] \in Bytes
    BY DEF MouseInterrupt, TypeOK
  <2>3. button' \in 0..255
    BY <2>2 DEF MouseInterrupt, TypeOK, Bytes
  <2> QED
    BY <1>1, <2>1, <2>2, <2>3 DEF TypeOK, MouseInterrupt, Done, ReadData, devices, mouse, ghosts
<1>3. AnswersInv'
  <2>1. pc = "run" /\ pc' = pc /\ UNCHANGED <<answers, config, status>>
    BY DEF MouseInterrupt, Done, ReadData, StepInv
  <2>2. "config" \notin hit' => "config" \notin hit
    BY DEF MouseInterrupt, ghosts
  <2> QED
    BY <1>1, <2>1, <2>2 DEF AnswersInv, ConfigSoFar
<1>4. StepInv'
  <2>1. /\ pc = "run" /\ pc' = pc /\ handling' = "none" /\ Full("mouse")
        /\ UNCHANGED <<acks, packet, streaming, hit>>
    BY DEF MouseInterrupt, Done, StepInv, devices, ghosts
  <2>2. /\ offset \in 0..2 /\ offset' = (offset + 1) % 3
        /\ buffer' = [buffer EXCEPT ![offset] = output.byte] /\ buffer \in [0..2 -> Bytes]
    BY DEF MouseInterrupt, TypeOK
  <2>3. ASSUME hit = {}
        PROVE  /\ "mouse" \notin acks /\ packet = (offset + 1) % 3
               /\ output.byte.at = offset + 1 /\ \A j \in 0..(offset - 1) : buffer[j].at = j + 1
    BY <2>1, <2>3 DEF StepInv, Offset, BeforeMouseAck
  <2>4. ASSUME hit = {} PROVE packet' = Offset'
    BY <1>1, <2>1, <2>2, <2>3, <2>4 DEF Offset
  <2>5. ASSUME hit = {} PROVE \A j \in 0..(offset' - 1) : buffer'[j].at = j + 1
    BY <2>2, <2>3, <2>5
  <2> QED
    BY <1>1, <2>1, <2>3, <2>4, <2>5 DEF StepInv, BeforeMouseAck
<1>5. SpuriousInv'
  <2>1. /\ pc = "run" /\ pc' = pc /\ UNCHANGED <<answers, spurious, hit, irr>>
        /\ handling = "mouse" /\ handling' = "none" /\ Full("mouse") /\ ~Full("controller")
        /\ ~Full("keyboard")
    BY DEF MouseInterrupt, Done, ReadData, StepInv, ghosts, Full
  <2>2. Stale' = Stale
    BY <1>1, <2>1 DEF Stale, Requests
  <2> QED
    BY <1>1, <2>1, <2>2 DEF SpuriousInv
<1>6. KeysInv'
  <2>1. Due = <<>> /\ Due' = <<>>
    BY <1>1 DEF MouseInterrupt, Due, Full
  <2> QED
    BY <2>1 DEF KeysInv, MouseInterrupt, Done, ghosts
<1> QED
  BY <1>2, <1>3, <1>4, <1>5, <1>6

LEMMA StutterKeeps ==
  ASSUME IInv, UNCHANGED vars
  PROVE  IInv'
<1> USE DEF IInv
<1>1. \A from : Full(from)' <=> Full(from)
  BY DEF controller, devices, main, mouse, ghosts, vars, Full
<1>2. TypeOK'
  BY <1>1 DEF TypeOK, Label, vars, controller, devices, main, mouse, ghosts
<1>3. AnswersInv'
  BY <1>1 DEF AnswersInv, ConfigSoFar, AnswerDue, vars, controller, main, ghosts
<1>4. StepInv'
  BY <1>1 DEF StepInv, Offset, BeforeMouseAck, vars, controller, devices, main, mouse, ghosts
<1>5. SpuriousInv'
  BY <1>1 DEF SpuriousInv, Requests, Stale, Drained, vars, controller, main, ghosts
<1>6. KeysInv'
  BY DEF KeysInv, Due, Full, Drained, vars, controller, main, ghosts
<1> QED
  BY <1>2, <1>3, <1>4, <1>5, <1>6

-----------------------------------------------------------------------------
(* The invariant and what follows from it. *)

LEMMA InitIInv == Init => IInv
<1> SUFFICES ASSUME Init PROVE IInv
  OBVIOUS
<1>1. TypeOK
  <2>1. Byte("controller", 0, 0) \in Bytes /\ Byte("mouse", 0, 0) \in Bytes
    BY DEF Byte, Bytes
  <2>2. output \in [full : BOOLEAN, byte : Bytes] /\ buffer \in [0..2 -> Bytes]
    BY <2>1 DEF Init
  <2>3. keys \in 0..MaxKeys /\ packets \in 0..MaxPackets
    BY BoundsAssumption DEF Init
  <2>4. answers \in Seq(0..255)
    BY DEF Init
  <2> QED
    BY SMTT(30), <2>2, <2>3, <2>4, ConfigAssumption DEF Init, TypeOK, Label
<1>2. output.full = FALSE
  BY DEF Init
<1>3. AnswersInv
  BY <1>2 DEF Init, AnswersInv, ConfigSoFar, Full
<1>4. StepInv
  BY <1>2 DEF Init, StepInv, BeforeMouseAck, Full
<1>5. SpuriousInv
  BY <1>2 DEF Init, SpuriousInv, Requests, Stale, Full
<1>6. KeysInv
  BY DEF Init, KeysInv, Drained
<1> QED
  BY <1>1, <1>3, <1>4, <1>5, <1>6 DEF IInv

LEMMA NextIInv ==
  ASSUME IInv, [Next]_vars
  PROVE  IInv'
<1>1. CASE \/ Answer \/ \E d \in {"keyboard", "mouse"} : Acknowledge(d)
           \/ \E v \in Keys : KeyByte(v)
           \/ \E v \in Buttons : PacketByte(v)
  BY <1>1, AnswerKeeps, AcknowledgeKeeps, KeyByteKeeps, PacketByteKeeps
<1>2. CASE Activates
  BY <1>2, MouseOnKeeps, MouseQueryKeeps, MouseReadKeeps, MouseWriteKeeps, MouseStreamKeeps,
     MouseAckKeeps, DrainKeeps, KeyboardOnKeeps, KeyboardQueryKeeps, KeyboardReadKeeps,
     KeyboardWriteKeeps, KeyboardStartKeeps, StiKeeps DEF Activates
<1>3. CASE Handles
  BY <1>3, TakeKeeps, KeyboardInterruptKeeps, NotForMouseKeeps, MouseInterruptKeeps DEF Handles
<1>4. CASE Loop \/ UNCHANGED vars
  BY <1>4, StutterKeeps DEF Loop
<1> QED
  BY <1>1, <1>2, <1>3, <1>4 DEF Next

LEMMA Invariant == Spec => []IInv
<1>1. IInv /\ [Next]_vars => IInv'
  BY NextIInv
<1> QED
  BY <1>1, InitIInv, PTL DEF Spec

\* Type correctness: whatever byte a status is made of it is a byte, and the
\* mouse's offset stays in its buffer.
THEOREM TypeCorrect == Spec => []TypeOK
<1>1. IInv => TypeOK
  BY DEF IInv
<1> QED
  BY <1>1, Invariant, PTL

\* InStep: unless a read took a byte that was another's, the bytes the mouse's
\* handler has collected are the first ones of the packet the mouse is sending.
THEOREM PacketsInStep == Spec => []InStep
<1>1. IInv => InStep
  BY DEF IInv, StepInv, InStep, BeforeMouseAck, Offset
<1> QED
  BY <1>1, Invariant, PTL

\* Configured: for every configuration the controller may have at boot, the two
\* Activates switch both devices and their interrupts on and change nothing
\* else, unless one took another byte for the configuration.
THEOREM ActivatesConfigure == Spec => []Configured
<1>1. IInv => Configured
  BY SameConfig DEF IInv, AnswersInv, ConfigSoFar, Configured
<1> QED
  BY <1>1, Invariant, PTL

\* KeysInOrder: every key is printed once, in order, but for the one in the
\* buffer, unless an Activate took its byte for the configuration; and the
\* keyboard's handler takes a byte that is no key's once at most, or three times
\* if an Activate read too early.
THEOREM KeysPrintedInOrder == Spec => []KeysInOrder
<1>1. IInv => FewSpurious
  <2> SUFFICES ASSUME IInv PROVE FewSpurious
    OBVIOUS
  <2>1. Stale \in Nat /\ Len(answers) \in Nat /\ spurious \in Nat
    BY DEF IInv, Stale, Requests, TypeOK
  <2> QED
    BY <2>1 DEF IInv, SpuriousInv, FewSpurious
<1>2. IInv => KeysInOrder
  BY <1>1 DEF IInv, KeysInv, KeysInOrder, Drained
<1> QED
  BY <1>2, Invariant, PTL
=============================================================================
