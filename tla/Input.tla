------------------------------- MODULE Input -------------------------------
(***************************************************************************)
(* What the terminal makes of the characters it is given: the line editor, *)
(* the signed packet input, and the commands and decimal numbers read from *)
(* a finished line.  Pure operators on the structures of the C code.       *)
(*                                                                         *)
(* A command name, whose spelling no property is about, is one printable   *)
(* character; the packet of tcs_signed_input is the sequence of its        *)
(* digits.  The operator tool's decimal arguments are here too.            *)
(***************************************************************************)
EXTENDS Integers, SequencesExt

CONSTANTS LineMax,      \* TCS_LINE_CAPACITY - 1
          PacketDigits, \* 2 * TCS_ADMIN_PACKET_BYTES
          UMAX          \* UINT64_MAX

ASSUME InputAssumption == /\ LineMax \in Nat \ {0}
                          /\ PacketDigits \in Nat \ {0}
                          /\ UMAX \in Nat

Numerals == <<"0", "1", "2", "3", "4", "5", "6", "7", "8", "9">>
Digit == Range(Numerals)
HexDigit == Digit \cup {"a", "b", "c", "d", "e", "f"}
Space == {"space", "tab"}
Delimiter == {"cr", "lf"}
Ends == Delimiter \cup {"intr"}
Erase == {"bs", "del"}
Illegal == {"esc"}      \* the other bytes below 32 and those above 126
Names == {"help", "version", "status", "read", "submit"}
Char == HexDigit \cup Space \cup Delimiter \cup Erase \cup Illegal \cup Names \cup {"intr"}
Event == {"NONE", "READY", "REJECTED", "CANCELLED"}

ZeroLine == [bytes |-> <<>>, rejected |-> FALSE, previous_cr |-> FALSE, completed |-> FALSE]
ZeroInput == [digits |-> <<>>, rejected |-> FALSE, previous_cr |-> FALSE, completed |-> FALSE]

(* A feed returns the new state and its event.                             *)
Fed(state, event) == [state |-> state, event |-> event]

-----------------------------------------------------------------------------
(* The line editor.                                                        *)

reset_line(line) == [ZeroLine EXCEPT !.previous_cr = line.previous_cr]

(* Mutant: the rest of a discarded line is taken for a new one.            *)
tcs_line_discardMutant(line) == ZeroLine

tcs_line_discard(line) == [ZeroLine EXCEPT !.rejected = TRUE]

EraseLast(line) == [line EXCEPT !.bytes = IF @ = <<>> THEN @ ELSE Front(@)]

Insert(line, byte) ==
  IF byte \in Illegal \/ Len(line.bytes) = LineMax
  THEN tcs_line_discard(line)
  ELSE [line EXCEPT !.bytes = Append(@, byte)]

tcs_line_feed(before, byte) ==
  LET open    == IF before.completed THEN reset_line(before) ELSE before
      line    == [open EXCEPT !.previous_cr = (byte = "cr")]
      skipped == byte = "lf" /\ open.previous_cr
  IN CASE skipped -> Fed(line, "NONE")
       [] byte = "intr" -> Fed(reset_line(line), "CANCELLED")
       [] byte \in Delimiter /\ ~skipped ->
            Fed([line EXCEPT !.completed = TRUE],
                IF line.rejected THEN "REJECTED" ELSE "READY")
       [] byte \in Erase -> Fed(IF line.rejected THEN line ELSE EraseLast(line), "NONE")
       [] OTHER -> Fed(IF line.rejected THEN line ELSE Insert(line, byte), "NONE")

(* Mutant: the echo repeats the byte, whatever the editor made of it.      *)
tcs_terminal_inputMutant(before, byte) ==
  LET f      == tcs_line_feed(before, byte)
  IN CASE f.event # "NONE" -> "row"
       [] f.event = "NONE" /\ byte \in Erase -> "back"
       [] OTHER -> IF byte = "tab" THEN "space" ELSE byte

(* The echo of a feed: a new row, one cell taken back, or the byte itself, *)
(* a tab as one blank.                                                     *)
tcs_terminal_input(before, byte) ==
  LET f      == tcs_line_feed(before, byte)
      length == IF before.completed THEN 0 ELSE Len(before.bytes)
      now    == Len(f.state.bytes)
  IN CASE f.event # "NONE" -> "row"
       [] f.event = "NONE" /\ ~f.state.rejected /\ now < length -> "back"
       [] f.event = "NONE" /\ ~f.state.rejected /\ now = length + 1 ->
            IF byte = "tab" THEN "space" ELSE byte
       [] OTHER -> "nothing"

-----------------------------------------------------------------------------
(* The signed packet input.                                                *)

tcs_signed_begin(previous_cr) == [ZeroInput EXCEPT !.previous_cr = previous_cr]

tcs_signed_discard(s) == [ZeroInput EXCEPT !.rejected = TRUE]

Nibble(s, byte) ==
  IF byte \notin HexDigit \/ Len(s.digits) >= PacketDigits
  THEN tcs_signed_discard(s)
  ELSE [s EXCEPT !.digits = Append(@, byte)]

FinishFrame(s) ==
  IF ~s.rejected /\ Len(s.digits) = PacketDigits
  THEN Fed([s EXCEPT !.completed = TRUE], "READY")
  ELSE Fed([tcs_signed_discard(s) EXCEPT !.previous_cr = s.previous_cr,
                                         !.completed = TRUE], "REJECTED")

tcs_signed_feed(before, byte) ==
  LET s       == [before EXCEPT !.previous_cr = (byte = "cr")]
      skipped == byte = "lf" /\ before.previous_cr
  IN CASE before.completed -> Fed(before, "NONE")
       [] ~before.completed /\ skipped -> Fed(s, "NONE")
       [] ~before.completed /\ byte = "intr" ->
            Fed([tcs_signed_discard(s) EXCEPT !.completed = TRUE], "CANCELLED")
       [] ~before.completed /\ byte \in Delimiter /\ ~skipped -> FinishFrame(s)
       [] OTHER -> Fed(IF s.rejected THEN s ELSE Nibble(s, byte), "NONE")

(* The echo of a packet feed.                                              *)
SignedEcho(before, byte) ==
  LET f == tcs_signed_feed(before, byte)
  IN CASE f.event # "NONE" -> "row"
       [] f.event = "NONE" /\ Len(f.state.digits) = Len(before.digits) + 1 -> byte
       [] OTHER -> "nothing"

-----------------------------------------------------------------------------
(* Decimal numbers.  None marks a text that is refused.                    *)
None == -1

ValueOf(digit) == (CHOOSE i \in 1..10 : Numerals[i] = digit) - 1

(* Mutant: the overflow test leaves out the digit.                         *)
DigitStepMutant(value, digit) ==
  IF value = None \/ digit \notin Digit THEN None
  ELSE IF value > UMAX \div 10 THEN None
  ELSE (value * 10 + ValueOf(digit)) % (UMAX + 1)

(* One round of either loop: refuse what is no digit, or would overflow.   *)
DigitStep(value, digit) ==
  IF value = None \/ digit \notin Digit THEN None
  ELSE IF value > (UMAX - ValueOf(digit)) \div 10 THEN None
  ELSE value * 10 + ValueOf(digit)

(* The loop of either reader over a text.                                  *)
Reading(text) ==
  LET value[n \in 0..Len(text)] == IF n = 0 THEN 0 ELSE DigitStep(value[n - 1], text[n])
  IN value[Len(text)]

(* The operator tool's arguments are canonical.  Its limit of 20 digits    *)
(* only cuts off texts the overflow test has refused before.               *)
number(text) ==
  IF text = <<>> \/ (Len(text) > 1 /\ text[1] = "0") THEN None
  ELSE Reading(text)

(* What decimal() appends for a value, most significant digit first.       *)
decimal[value \in 0..UMAX] ==
  (IF value \div 10 = 0 THEN <<>> ELSE decimal[value \div 10])
    \o <<Numerals[(value % 10) + 1]>>

-----------------------------------------------------------------------------
(* Commands.                                                               *)
Command(kind, generation) == [kind |-> kind, generation |-> generation]
Invalid == Command("INVALID", 0)

Trim(bytes) ==
  LET solid == {i \in DOMAIN bytes : bytes[i] \notin Space}
  IN IF solid = {} THEN <<>> ELSE SubSeq(bytes, Min(solid), Max(solid))

tcs_command_parse(bytes) ==
  LET text  == Trim(bytes)
      gaps  == {i \in DOMAIN text : text[i] \in Space}
      split == Min(gaps)                                \* the end of the first word
      rest  == Trim(SubSeq(text, split, Len(text)))
      generation == Reading(rest)
  IN CASE text = <<>> -> Command("EMPTY", 0)
       [] text # <<>> /\ gaps = {} ->
            IF text \in {<<"help">>, <<"version">>, <<"status">>}
            THEN Command(text[1], 0) ELSE Invalid
       [] OTHER ->
            IF SubSeq(text, 1, split - 1) = <<"read">> /\ generation \notin {None, 0}
            THEN Command("read", generation) ELSE Invalid

(* The call a finished line makes; the terminal answers the others itself. *)
execute(bytes) ==
  LET cmd == tcs_command_parse(bytes)
  IN CASE cmd.kind = "status" -> <<"CLIENT_STATUS">>
       [] cmd.kind = "read" -> <<"CLIENT_READ", cmd.generation>>
       [] OTHER -> <<>>

-----------------------------------------------------------------------------
(* The terminal's use of both: the line, the packet input, which of them   *)
(* is being fed, and the event that waits to be handled.                   *)
ZeroFront == [line |-> ZeroLine, input |-> ZeroInput, packet_mode |-> FALSE,
              pending_event |-> "NONE"]

Feed(t, byte) ==
  IF t.packet_mode
  THEN LET f == tcs_signed_feed(t.input, byte)
       IN [t EXCEPT !.input = f.state, !.pending_event = f.event]
  ELSE LET f == tcs_line_feed(t.line, byte)
       IN [t EXCEPT !.line = f.state, !.pending_event = f.event]

Echo(t, byte) ==
  IF t.packet_mode THEN SignedEcho(t.input, byte) ELSE tcs_terminal_input(t.line, byte)

InputLost(t) ==
  [t EXCEPT !.line = tcs_line_discard(@),
            !.input = IF t.packet_mode THEN tcs_signed_discard(@) ELSE @]

finish_packet(t) ==
  [t EXCEPT !.line = [ZeroLine EXCEPT !.previous_cr = t.input.previous_cr],
            !.input = tcs_signed_discard(@), !.packet_mode = FALSE, !.pending_event = "NONE"]

Handle(t) ==
  CASE t.packet_mode -> finish_packet(t)
    [] ~t.packet_mode /\ t.pending_event = "READY" /\ t.line.bytes = <<"submit">> ->
         [t EXCEPT !.input = tcs_signed_begin(t.line.previous_cr),
                   !.packet_mode = TRUE, !.pending_event = "NONE"]
    [] OTHER -> [t EXCEPT !.pending_event = "NONE"]

-----------------------------------------------------------------------------
(* Reference: what is left of a text when every erasing character takes    *)
(* back the one kept before it.                                            *)
Kept(text, c) ==
  IF c \notin Erase THEN Append(text, c) ELSE IF text = <<>> THEN text ELSE Front(text)

Edited(s) ==
  LET kept[n \in 0..Len(s)] == IF n = 0 THEN <<>> ELSE Kept(kept[n - 1], s[n])
  IN kept[Len(s)]

(* Reference: the value of a text of digits, whatever its size.            *)
IsNumeral(s) == s # <<>> /\ \A i \in DOMAIN s : s[i] \in Digit

Positional(s) ==
  LET sum[n \in 0..Len(s)] == IF n = 0 THEN 0 ELSE 10 * sum[n - 1] + ValueOf(s[n])
  IN sum[Len(s)]
=============================================================================
