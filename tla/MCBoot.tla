------------------------------- MODULE MCBoot -------------------------------
(* Slots that are empty, or hold a card alone, a card that shows itself      *)
(* under every function number, a device with a bridge and two cards, one of *)
(* them without an I/O register, or a card on the mouse's line.              *)
EXTENDS Boot

None6 == [n \in 0..5 |-> [io |-> FALSE, base |-> 0]]
Io(bar, address) == [None6 EXCEPT ![bar] = [io |-> TRUE, base |-> address]]

Nic(line, multi, bars) ==
    [vendorId |-> 4130, deviceId |-> 8192, header |-> 0, multi |-> multi,
     bars |-> bars, interrupt |-> line + 256]
Bridge == [vendorId |-> 32902, deviceId |-> 4663, header |-> 1, multi |-> TRUE,
           bars |-> None6, interrupt |-> 0]

Empty == [f \in 0..2 |-> Absent]
Alone == [Empty EXCEPT ![0] = Nic(11, FALSE, Io(0, 49152))]
Repeated == [f \in 0..2 |-> Nic(10, FALSE, [Io(0, 49184) EXCEPT ![3] = [io |-> TRUE, base |-> 49216]])]
Several == [Empty EXCEPT ![0] = Bridge, ![1] = Nic(11, TRUE, Io(0, 49248)), ![2] = Nic(5, TRUE, None6)]
OnMouse == [Empty EXCEPT ![0] = Nic(12, FALSE, Io(5, 49280))]

MCBoards == {Empty, Alone, Repeated, Several, OnMouse}
MCMemUpper == {10249, 10250, 65546}
MCStack == {0, 255}
=============================================================================
