------------------------------ MODULE UartData ------------------------------
(***************************************************************************)
(* What the accepted lines of UartLines do to ao_obd_data, the list of the *)
(* UART device: parse_uart_data_line decides by the first value of a line  *)
(* which group of eight elements it has, looks up each of them by its      *)
(* identifier, and writes the value.                                       *)
(*                                                                         *)
(* The gauge sends two kinds of lines: one begins with the voltage of the  *)
(* battery, the other with something else, and nothing is assumed of the   *)
(* numbers: either kind can begin with one that the code takes for the     *)
(* other's.  A value is named by its line and its place there.             *)
(***************************************************************************)
EXTENDS UartLines

CONSTANTS
    BatteryLines,   \* the lines that have the values of the battery's group
    FirstValue      \* FirstValue[n]: the number line n begins with

ASSUME GaugeAssumption ==
    /\ BatteryLines \subseteq 1..MaxLines
    /\ FirstValue \in [1..MaxLines -> Int]

\* obd_ii_diagnosis_data: the identifiers of its elements, in their order.
\* The first two have the same.
Identifiers == [e \in 1..257 |-> IF e <= 2 THEN 0 ELSE e - 2]

ValuesPerLine == 8

\* Bvo, Ect, Bam, Spd, Bte, Fin, Soc, Afr, and "some random values".
BatteryGroup == <<10, 65, 13, 17, 14, 77, 12, 81>>
OtherGroup == <<34, 35, 36, 37, 38, 39, 40, 41>>

\* Mutant: the identifier is the place, as in a table without the double one.
FindByPlace(list, identifier) == identifier + 1

\* Mutant: a line that begins with 120 is one of the battery.
GroupFrom120(n) == IF FirstValue[n] >= 120 THEN BatteryGroup ELSE OtherGroup

\* The group a line is taken for.
GroupOf(n) == IF FirstValue[n] > 120 THEN BatteryGroup ELSE OtherGroup

\* get_element_by_identifier: the first element that has it, or the end.
Find(list, identifier) ==
    Min({k \in 1..Len(list) : list[k] = identifier} \cup {Len(list) + 1})

\* The elements a group names are in the list, and the groups share none: the
\* "Value not found" of the loop does not happen, and the lines of the device
\* are as ObdDataPipeline assumes them.
ASSUME GroupsAssumption ==
    /\ \A group \in {BatteryGroup, OtherGroup} :
            /\ Len(group) = ValuesPerLine /\ IsInjective(group)
            /\ \A k \in 1..ValuesPerLine : Find(Identifiers, group[k]) <= Len(Identifiers)
    /\ ToSet(BatteryGroup) \cap ToSet(OtherGroup) = {}

\* OBDataListHelper::clone: the list begins as a copy of the table.
NoValue == <<0, 0>>
TableAtStart == [k \in 1..Len(Identifiers) |-> NoValue]

\* The eight values of a line are written in their order, each to the element
\* found for it if there is one.
Place == [identifier \in 0..255 |-> Find(Identifiers, identifier)]

WriteLine(table, n) ==
    [e \in 1..Len(Identifiers) |->
        LET written == {k \in 1..ValuesPerLine : Place[GroupOf(n)[k]] = e}
        IN  IF written = {} THEN table[e] ELSE <<n, Max(written)>>]

\* ao_obd_data, when all the pieces so far have been parsed.
ObdData ==
    LET table[i \in 0..Len(pieces)] ==
            IF i = 0 THEN TableAtStart
            ELSE IF WellFormed(pieces[i]) THEN WriteLine(table[i - 1], Head(pieces[i])[1])
            ELSE table[i - 1]
    IN  table[Len(pieces)]

-----------------------------------------------------------------------------
(* Properties.                                                             *)

AcceptedLines == {pieces[i][1][1] : i \in Accepted}

\* The accepted lines in which the gauge has sent the values of a group, ...
Own(group) == {n \in AcceptedLines : n \in BatteryLines <=> group = BatteryGroup}

\* ... those that are taken for the other kind - the battery at 120 V or less,
\* although the table gives it 80 V to 190 V; another line above 120 - ...
Misread == {n \in AcceptedLines : n \in BatteryLines <=> FirstValue[n] <= 120}

\* ... and those whose values its elements get, its own or not.
WrittenTo(group) == (Own(group) \ Misread) \cup (Misread \ Own(group))

\* Every element of a group has the value of the newest accepted line the gauge
\* has sent for the group, at its place in the line, or its first value if there
\* was no such line - but for the lines that are misread: they alone leave the
\* elements of their own group as they were, and they alone put values into
\* elements that mean something else.  All eight are of one line, and an element
\* of no group is never written.
\* (obd_ii_cnc_uart_diagnosis_device.cpp:180-224, obd_data.cpp:134-145.)
ElementsHaveNewest ==
    LET table == ObdData
        lines == [group \in {BatteryGroup, OtherGroup} |-> WrittenTo(group)]
    IN  /\ \A group \in DOMAIN lines : \A e \in 1..Len(Identifiers) :
              Identifiers[e] \in ToSet(group) =>
                  IF lines[group] = {} THEN table[e] = NoValue
                  ELSE /\ table[e][1] = Max(lines[group])
                       /\ group[table[e][2]] = Identifiers[e]
        /\ \A e \in 1..Len(Identifiers) :
              Identifiers[e] \notin ToSet(BatteryGroup \o OtherGroup) => table[e] = NoValue
=============================================================================
