----------------------------- MODULE UartLines -----------------------------
(***************************************************************************)
(* How the UART reader turns the characters of the OBDIIC&C gauge into     *)
(* lines: thread_diagnosis_reader_main reads what the driver has buffered, *)
(* parse_received_uart_data splits it at carriage returns, and             *)
(* parse_uart_data_line accepts the lines with the right fields.           *)
(*                                                                         *)
(* The gauge sends the lines 1, 2, ..., each of LineLen characters and a   *)
(* carriage return.  A character is named by its line and its place in it, *)
(* the carriage return being in the place behind the others; the header    *)
(* fields "DATA,TIME" are the first character.  A piece has the fields of  *)
(* a line when it begins with a header and has LineLen characters.  No     *)
(* character is NUL.                                                       *)
(***************************************************************************)
EXTENDS Integers, Sequences, FiniteSets, SequencesExt, FiniteSetsExt

CONSTANTS
    LineLen,    \* the characters of a line, without the carriage return
    ChunkMax,   \* the most characters read at once (data.size() - 1)
    Limit,      \* a remainder longer than this is discarded
    MaxLines    \* bound: the lines the gauge sends

ASSUME SizesAssumption ==
    /\ LineLen \in Nat \ {0} /\ ChunkMax \in Nat \ {0} /\ MaxLines \in Nat
    /\ Limit \in Nat /\ LineLen <= Limit

VARIABLES
    sent,       \* the number of characters read from the driver so far
    content,    \* m_str_previous_content
    pieces,     \* history: what parse_uart_data_line was called with
    lastAtCR,   \* history: the lines whose carriage return ended a chunk
    discarded   \* history: a remainder has been discarded

vars == <<sent, content, pieces, lastAtCR, discarded>>

Char == (1..MaxLines) \X (1..LineLen + 1)
IsCR(c) == c[2] = LineLen + 1
NotCR == (1..MaxLines) \X (1..LineLen)
StreamLen == MaxLines * (LineLen + 1)

\* The k-th character the gauge sends; behind none of them it is at the end of
\* a line 0.
Stream(k) ==
    <<((k - 1) \div (LineLen + 1)) + 1, ((k - 1) % (LineLen + 1)) + 1>>

Line(n) == [k \in 1..LineLen |-> <<n, k>>]

TypeOK ==
    /\ sent \in 0..StreamLen
    /\ content \in Seq(NotCR) /\ Len(content) <= Limit
    /\ pieces \in Seq(Seq(NotCR))
    /\ lastAtCR \subseteq 1..MaxLines
    /\ discarded \in BOOLEAN

Init == /\ sent = 0 /\ content = << >>
        /\ pieces = << >> /\ lastAtCR = {} /\ discarded = FALSE

-----------------------------------------------------------------------------
\* std::getline until the end of the text.  An item begins with the text and
\* behind every carriage return that is not the text's last character; the
\* k-th character is put into the last item unless it is a carriage return.
Getline(items, text, k) ==
    LET begun == IF k = 1 \/ IsCR(text[k - 1]) THEN Append(items, << >>) ELSE items
    IN  IF IsCR(text[k]) THEN begun
        ELSE ReplaceAt(begun, Len(begun), Append(Last(begun), text[k]))

Items(text) ==
    LET items[k \in 0..Len(text)] ==
            IF k = 0 THEN << >> ELSE Getline(items[k - 1], text, k)
    IN  items[Len(text)]

\* Mutants: the fields are not counted; the chunk is not added to what is
\* left; one piece too few is parsed; a long remainder is kept.
HasHeader(piece) == piece # << >> /\ piece[1][2] = 1
TextOfChunk(chunk) == chunk
ButTwo(items) == SubSeq(items, 1, Len(items) - 2)
KeepAll(remainder) == remainder

\* parse_uart_data_line: the number of fields, and the header, are right.
WellFormed(piece) ==
    /\ Len(piece) = LineLen
    /\ \A k \in 1..LineLen : piece[k][2] = 1 <=> k = 1

\* m_str_previous_content += the characters that were read.
Text(chunk) == content \o chunk

\* Every piece but the last one is parsed; that one is kept if it is short.
Parsed(items) == Front(items)
Keep(remainder) == IF Len(remainder) > Limit THEN << >> ELSE remainder

\* A chunk of n characters is read: parse_received_uart_data.
ReadChunk ==
    \E n \in 1..ChunkMax :
        /\ sent + n <= StreamLen
        /\ LET items == Items(Text([k \in 1..n |-> Stream(sent + k)]))
           IN  /\ pieces' = pieces \o Parsed(items)
               /\ content' = Keep(Last(items))
               /\ discarded' = (discarded \/ content' # Last(items))
        /\ sent' = sent + n
        /\ lastAtCR' = LET last == Stream(sent + n)
                       IN  lastAtCR \cup (IF IsCR(last) THEN {last[1]} ELSE {})

Spec == Init /\ [][ReadChunk]_vars

-----------------------------------------------------------------------------
(* Properties.                                                             *)

\* The lines that have been read in full, with a character behind them.
Closed == 1..(Stream(sent)[1] - 1)

\* The pieces that are taken for lines.
Accepted == {i \in 1..Len(pieces) : WellFormed(pieces[i])}

\* Only whole lines of the gauge are accepted, in their order, none twice: a
\* piece put together from two lines never has the fields of one.
AcceptedAreLines ==
    \A i \in Accepted :
        /\ \E n \in Closed : pieces[i] = Line(n)
        /\ \A j \in Accepted : i < j => pieces[i][1][1] < pieces[j][1][1]

\* The character the gauge sends behind c, carriage returns left aside.
Follower(c) == IF c[2] < LineLen THEN <<c[1], c[2] + 1>> ELSE <<c[1] + 1, 1>>

\* No character gets lost or moved on the way but the carriage returns, until
\* a remainder is discarded: from the first character of the gauge to the last
\* one read, each is behind the one before it, in its piece or in the next.
NothingLost ==
    LET parts == Append(pieces, content)
    IN  ~discarded /\ sent > 0 =>
            /\ \A i \in 1..Len(parts) : parts[i] # << >>
            /\ parts[1][1] = <<1, 1>>
            /\ \A i \in 1..Len(parts) : \A k \in 1..Len(parts[i]) - 1 :
                    parts[i][k + 1] = Follower(parts[i][k])
            /\ \A i \in 1..Len(parts) - 1 : parts[i + 1][1] = Follower(Last(parts[i]))
            /\ Last(content) = Stream(IF IsCR(Stream(sent)) THEN sent - 1 ELSE sent)

\* A line is missed only because its carriage return, or the one before it,
\* was the last character of a chunk.
MissedOnlyAtChunkEnd ==
    \A n \in Closed :
        Line(n) \notin ToSet(pieces) => n \in lastAtCR \/ n - 1 \in lastAtCR

\* "Keep the remaining what is yet unparsed for future use."
\* (obd_ii_cnc_uart_diagnosis_device.cpp:258): a line that is not parsed with
\* the chunk it ends in is parsed later.
EveryLineIsParsed == \A n \in Closed : Line(n) \in ToSet(pieces)
=============================================================================
