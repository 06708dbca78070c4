----------------------------- MODULE BlePackets -----------------------------
(***************************************************************************)
(* Messages over a BLE characteristic: a message is cut into packets of at *)
(* most PacketSize bytes whose first byte says whether more follow (send), *)
(* and put together again by the other side (onWrite).                     *)
(*                                                                         *)
(* The sender here is the phone: it cuts a message as send() does - the    *)
(* two programs share the format - and gives up when the link drops.  The  *)
(* receiver is the tool.  Its buffer current_message survives the link.    *)
(***************************************************************************)
EXTENDS Integers, Sequences, SequencesExt

CONSTANTS
    Tag,        \* tells the bytes of one message from those of another
    MaxLen,     \* bound: the length of the longest message
    PacketSize, \* BLE_MAX_PACKET_SIZE
    None        \* no message has been signalled

ASSUME SizeAssumption == MaxLen \in Nat \ {0} /\ PacketSize \in Nat \ {0, 1}
ASSUME TagAssumption == Tag # {}

VARIABLES
    link,       \* phone and tool are connected
    message,    \* the message the phone sends, or has sent last
    rest,       \* its bytes that are not in a packet yet
    startByte,  \* the first byte of the next packet, unless that is the last
    air,        \* the packets on the way
    current_message, \* the receiver's buffer
    signalled,  \* what SIG_RECEIVED_DATA was called with for the message
    cutOff      \* history: a disconnect has left bytes in current_message

sendVars == <<message, rest, startByte>>
vars == <<link, sendVars, air, current_message, signalled, cutOff>>

Byte == Tag \X (1..MaxLen)
Message == {[k \in 1..n |-> <<t, k>>] : t \in Tag, n \in 1..MaxLen}
StartByte == {"BEGIN", "MIDDLE", "END"}
Packet == [start : StartByte, bytes : Seq(Byte)]

\* The receiver's buffer never grows past one unfinished message, however often
\* the link drops inside of one.
TypeOK ==
    /\ link \in BOOLEAN
    /\ message \in Message \cup {None}
    /\ rest \in Seq(Byte)
    /\ startByte \in {"BEGIN", "MIDDLE"}
    /\ air \in Seq(Packet)
    /\ current_message \in Seq(Byte)
    /\ \E m \in Message : IsStrictPrefix(current_message, m)
    /\ signalled \in Seq(Byte) \cup {None}
    /\ cutOff \in BOOLEAN

Init ==
    /\ link = FALSE
    /\ message = None /\ rest = << >> /\ startByte = "BEGIN"
    /\ air = << >>
    /\ current_message = << >> /\ signalled = None
    /\ cutOff = FALSE

-----------------------------------------------------------------------------
(* send()                                                                  *)

\* The phone starts a message when the one before has been written.
BeginMessage ==
    /\ link /\ rest = << >> /\ air = << >>
    /\ \E m \in Message : message' = m /\ rest' = m
    /\ startByte' = "BEGIN"
    /\ signalled' = None
    /\ cutOff' = (cutOff /\ current_message # << >>)
    /\ UNCHANGED <<link, air, current_message>>

\* The bytes of the next packet when so many are left, and its first byte.
PacketLen(remaining) ==
    IF remaining < PacketSize THEN remaining ELSE PacketSize - 1

\* Mutants: a full packet ends a message of one byte more; no packet does.
StartTooEarly(remaining) == IF remaining <= PacketSize THEN "END" ELSE startByte
StartNoEnd(remaining) == startByte

StartOf(remaining) == IF remaining < PacketSize THEN "END" ELSE startByte

\* send_buffer[0] = BLE_PACKET_MIDDLE;
NextStart(start) == "MIDDLE"

\* One round of the loop of send().
SendPacket ==
    /\ rest # << >>
    /\ LET size == PacketLen(Len(rest))
       IN  /\ air' = Append(air, [start |-> StartOf(Len(rest)),
                                  bytes |-> SubSeq(rest, 1, size)])
           /\ rest' = SubSeq(rest, size + 1, Len(rest))
    /\ startByte' = NextStart(StartOf(Len(rest)))
    /\ UNCHANGED <<link, message, current_message, signalled, cutOff>>

-----------------------------------------------------------------------------
(* onWrite()                                                               *)

\* Mutant: the buffer is not cleared.
WriteBeginAfter ==
    /\ air # << >> /\ Head(air).start = "BEGIN"
    /\ current_message' = current_message \o Head(air).bytes
    /\ air' = Tail(air)
    /\ UNCHANGED <<link, sendVars, signalled, cutOff>>

\* A first packet: what is left of a message that was not finished goes.
WriteBegin ==
    /\ air # << >> /\ Head(air).start = "BEGIN"
    /\ current_message' = Head(air).bytes
    /\ air' = Tail(air)
    /\ UNCHANGED <<link, sendVars, signalled, cutOff>>

WriteMiddle ==
    /\ air # << >> /\ Head(air).start = "MIDDLE"
    /\ current_message' = current_message \o Head(air).bytes
    /\ air' = Tail(air)
    /\ UNCHANGED <<link, sendVars, signalled, cutOff>>

\* The last packet: the message is signalled and the buffer cleared.
WriteEnd ==
    /\ air # << >> /\ Head(air).start = "END"
    /\ signalled' = current_message \o Head(air).bytes
    /\ current_message' = << >>
    /\ air' = Tail(air)
    /\ UNCHANGED <<link, sendVars, cutOff>>

\* A write of less than two bytes or with another first byte, between two
\* messages: the buffer is cleared.
WriteInvalid ==
    /\ link /\ rest = << >> /\ air = << >>
    /\ current_message' = << >>
    /\ UNCHANGED <<link, sendVars, air, signalled, cutOff>>

-----------------------------------------------------------------------------
Connect ==
    /\ ~link
    /\ link' = TRUE
    /\ UNCHANGED <<sendVars, air, current_message, signalled, cutOff>>

\* The packets on the way are lost, and the phone does not send the rest.
Disconnect ==
    /\ link
    /\ link' = FALSE
    /\ air' = << >> /\ rest' = << >>
    /\ cutOff' = (cutOff \/ current_message # << >>)
    /\ UNCHANGED <<message, startByte, current_message, signalled>>

Next == \/ BeginMessage \/ SendPacket
        \/ WriteBegin \/ WriteMiddle \/ WriteEnd \/ WriteInvalid
        \/ Connect \/ Disconnect

Spec == Init /\ [][Next]_vars

\* Sender and receiver go on as long as there is something to do.
FairSpec == /\ Spec
            /\ WF_vars(SendPacket)
            /\ WF_vars(WriteBegin \/ WriteMiddle \/ WriteEnd)

-----------------------------------------------------------------------------
(* Properties.                                                             *)

\* What the application is given ends with the whole message of the phone,
\* and is that message and nothing else, unless a link that dropped inside a
\* message left bytes behind and the message fits into one packet.
SignalledEndsWithMessage ==
    signalled # None =>
        /\ IsSuffix(message, signalled)
        /\ signalled = message \/ (cutOff /\ Len(message) < PacketSize)

\* A message is signalled unless the link drops before it is through.
MessageIsSignalled ==
    (message # None /\ rest = message) ~> (signalled # None \/ ~link)

\* "If a new message has been received, clear the buffer"
\* (ble_interface.cpp:84): nothing of an older message is in a new one.
SignalledIsMessage == signalled # None => signalled = message
=============================================================================
