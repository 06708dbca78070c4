----------------------------- MODULE RxMailbox -----------------------------
(***************************************************************************)
(* How a command of the client reaches the server thread.  The task of the *)
(* BLE stack runs receive_from_characteristic for every complete message;  *)
(* the server thread runs server_receive_any_command, which polls.  They   *)
(* share received_command, received_value and the atomic flag              *)
(* data_received_complete; the two vectors have no lock, so every access   *)
(* to one of them is a step of its own here.                               *)
(***************************************************************************)
CONSTANTS
    Command,    \* the first byte of a message
    Content,    \* the bytes that can follow it
    NoCommand,  \* an empty command vector, as before the first message
    NoContent,  \* an empty value vector, as in a message of one byte
    Empty,      \* no message in the mailbox
    Timeout     \* the outcome of a call that gave up

Value == Content \cup {NoContent}
Msg == [cmd : Command, val : Value]

ASSUME ConstantsAssumption ==
    /\ NoCommand \notin Command /\ NoContent \notin Content
    /\ Empty \notin Msg /\ Timeout \notin Msg

VARIABLES
    flag,       \* data_received_complete
    command,    \* received_command
    value,      \* received_value
    blePc,      \* where the BLE task is in receive_from_characteristic
    buffer,     \* its argument, the message the client sent
    srvPc,      \* where the server thread is in server_receive_any_command
    srvCommand, \* its output parameters
    srvValue,
    outcome     \* what its last call returned

bleVars == <<blePc, buffer>>
srvVars == <<srvPc, srvCommand, srvValue, outcome>>
vars == <<flag, command, value, bleVars, srvVars>>

\* A message, or the empty vectors of the start.
Fields == [cmd : Command \cup {NoCommand}, val : Value]
NoMsg == [cmd |-> NoCommand, val |-> NoContent]

TypeOK ==
    /\ flag \in BOOLEAN
    /\ command \in Command \cup {NoCommand}
    /\ value \in Value
    /\ blePc \in {"idle", "writeCommand", "emptyValue", "writeValue", "publish"}
    /\ buffer \in Fields
    /\ srvPc \in {"idle", "poll", "check", "copyCommand", "copyValue", "release"}
    /\ srvCommand \in Command \cup {NoCommand}
    /\ srvValue \in Value
    /\ outcome \in Msg \cup {Timeout}

\* The vectors start empty; nothing reads them before the first message.
Init ==
    /\ flag = FALSE
    /\ command = NoCommand /\ value = NoContent
    /\ blePc = "idle" /\ buffer = NoMsg
    /\ srvPc = "idle" /\ srvCommand = NoCommand /\ srvValue = NoContent
    /\ outcome = Timeout

-----------------------------------------------------------------------------
(* The BLE task: receive_from_characteristic.                              *)

\* A message is dropped when the previous one has not been fetched yet.
ArriveFull ==
    /\ blePc = "idle" /\ flag
    /\ buffer' \in Msg
    /\ UNCHANGED <<flag, command, value, blePc, srvVars>>

\* Mutant: no test for a message that has not been fetched.
ArriveAnyway ==
    /\ blePc = "idle"
    /\ buffer' \in Msg
    /\ blePc' = "writeCommand"
    /\ UNCHANGED <<flag, command, value, srvVars>>

ArriveEmpty ==
    /\ blePc = "idle" /\ ~flag
    /\ buffer' \in Msg
    /\ blePc' = "writeCommand"
    /\ UNCHANGED <<flag, command, value, srvVars>>

\* received_command = { received_buffer[0] };
WriteCommand ==
    /\ blePc = "writeCommand"
    /\ command' = buffer.cmd
    /\ blePc' = "emptyValue"
    /\ UNCHANGED <<flag, value, buffer, srvVars>>

\* Mutant: the bytes after the first one are forgotten.
EmptyValueOnly ==
    /\ blePc = "emptyValue"
    /\ value' = NoContent
    /\ blePc' = "publish"
    /\ UNCHANGED <<flag, command, buffer, srvVars>>

\* received_value = {};
EmptyValue ==
    /\ blePc = "emptyValue"
    /\ value' = NoContent
    /\ blePc' = IF buffer.val = NoContent THEN "publish" ELSE "writeValue"
    /\ UNCHANGED <<flag, command, buffer, srvVars>>

\* received_value = the bytes after the first one.
WriteValue ==
    /\ blePc = "writeValue"
    /\ value' = buffer.val
    /\ blePc' = "publish"
    /\ UNCHANGED <<flag, command, buffer, srvVars>>

\* Mutant: the flag is not set.
PublishNothing ==
    /\ blePc = "publish"
    /\ blePc' = "idle"
    /\ UNCHANGED <<flag, command, value, buffer, srvVars>>

\* data_received_complete = true;
Publish ==
    /\ blePc = "publish"
    /\ flag' = TRUE
    /\ blePc' = "idle"
    /\ UNCHANGED <<command, value, buffer, srvVars>>

BleTask == \/ ArriveFull \/ ArriveEmpty
           \/ WriteCommand \/ EmptyValue \/ WriteValue \/ Publish

-----------------------------------------------------------------------------
(* The server thread: server_receive_any_command.                          *)

Call ==
    /\ srvPc = "idle"
    /\ srvPc' = "poll"
    /\ UNCHANGED <<flag, command, value, bleVars, srvCommand, srvValue, outcome>>

\* while (data_received_complete == false): a message ends the loop, ...
SeeMessage ==
    /\ srvPc = "poll" /\ flag
    /\ srvPc' = "check"
    /\ UNCHANGED <<flag, command, value, bleVars, srvCommand, srvValue, outcome>>

\* ... and so does the timeout, after the sleep of a round.  A message that
\* arrives during that sleep is found by the check behind the loop.
Expire ==
    /\ srvPc = "poll" /\ ~flag
    /\ srvPc' = "check"
    /\ UNCHANGED <<flag, command, value, bleVars, srvCommand, srvValue, outcome>>

CheckFails ==
    /\ srvPc = "check" /\ ~flag
    /\ srvPc' = "idle"
    /\ outcome' = Timeout
    /\ UNCHANGED <<flag, command, value, bleVars, srvCommand, srvValue>>

\* Mutant: no test behind the loop.
CheckNothing ==
    /\ srvPc = "check"
    /\ srvPc' = "copyCommand"
    /\ UNCHANGED <<flag, command, value, bleVars, srvCommand, srvValue, outcome>>

CheckSucceeds ==
    /\ srvPc = "check" /\ flag
    /\ srvPc' = "copyCommand"
    /\ UNCHANGED <<flag, command, value, bleVars, srvCommand, srvValue, outcome>>

CopyCommand ==
    /\ srvPc = "copyCommand"
    /\ srvCommand' = command
    /\ srvPc' = "copyValue"
    /\ UNCHANGED <<flag, command, value, bleVars, srvValue, outcome>>

CopyValue ==
    /\ srvPc = "copyValue"
    /\ srvValue' = value
    /\ srvPc' = "release"
    /\ UNCHANGED <<flag, command, value, bleVars, srvCommand, outcome>>

\* Mutant: the flag is not reset.
ReleaseNothing ==
    /\ srvPc = "release"
    /\ srvPc' = "idle"
    /\ outcome' = [cmd |-> srvCommand, val |-> srvValue]
    /\ UNCHANGED <<flag, command, value, bleVars, srvCommand, srvValue>>

\* data_received_complete = false; return 0;
Release ==
    /\ srvPc = "release"
    /\ flag' = FALSE
    /\ srvPc' = "idle"
    /\ outcome' = [cmd |-> srvCommand, val |-> srvValue]
    /\ UNCHANGED <<command, value, bleVars, srvCommand, srvValue>>

ServerThread == \/ Call \/ SeeMessage \/ Expire \/ CheckFails \/ CheckSucceeds
                \/ CopyCommand \/ CopyValue \/ Release

Next == BleTask \/ ServerThread

Spec == Init /\ [][Next]_vars

\* The server thread goes on (its loop calls again and again).  The BLE task
\* finishes a callback it has started, but no client has to send anything.
FairSpec == /\ Spec
            /\ WF_vars(ServerThread)
            /\ WF_vars(WriteCommand \/ EmptyValue \/ WriteValue \/ Publish)

-----------------------------------------------------------------------------
(* Properties.                                                             *)

\* The two tasks are never in the vectors at the same time although nothing
\* locks them: the BLE task writes only while the flag is false and the server
\* thread reads only while it is true.
NoDataRace == ~ ( /\ blePc # "idle"
                  /\ srvPc \in {"copyCommand", "copyValue", "release"} )

\* The command and the value never come from two messages: what is published
\* is the message of the client, and what a call returns is what was published.
WholeMessage ==
    /\ blePc = "publish" => [cmd |-> command, val |-> value] = buffer
    /\ srvPc = "release" => srvCommand = command /\ srvValue = value

\* Why: a task is in the vectors only while the flag is its own.
FlagIsOwnership ==
    /\ blePc # "idle" => ~flag /\ buffer \in Msg
    /\ srvPc \in {"copyCommand", "copyValue", "release"} => flag
    /\ flag => command \in Command
    /\ blePc \in {"emptyValue", "writeValue", "publish"} => command = buffer.cmd
    /\ blePc = "writeValue" => buffer.val # NoContent
    /\ srvPc \in {"copyValue", "release"} => srvCommand = command

\* The inductive invariant of the mailbox.
IInv == TypeOK /\ WholeMessage /\ FlagIsOwnership

\* Every step of the two tasks is a step of the one-message slot.
Slot == INSTANCE CommandSlot WITH
            slot <- IF flag THEN [cmd |-> command, val |-> value] ELSE Empty

ImplementsSlot == Slot!SlotSpec

\* A message whose write has begun is the outcome of a call of the server.
WrittenIsReturned ==
    \A m \in Msg : (blePc = "writeCommand" /\ buffer = m) ~> outcome = m
=============================================================================
