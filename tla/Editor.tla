------------------------------- MODULE Editor -------------------------------
(***************************************************************************)
(* The terminal's input, fed with any characters and any losses, against   *)
(* what was typed.  text is history: the characters since the last one     *)
(* that ended a line, the ending one included, with "lost" where the       *)
(* driver reported a gap.  row is what the screen shows of the line being  *)
(* entered, and shown the row that was finished with it.                   *)
(***************************************************************************)
EXTENDS Input

CONSTANTS Keys,         \* the characters typed
          MaxText       \* the longest text typed without ending the line

ASSUME EditorAssumption == Keys \subseteq Char /\ MaxText \in Nat

VARIABLES term, text, row, shown

EditorVars == <<term, text, row, shown>>

Ended == text # <<>> /\ Last(text) \in Ends
Noted(c) == IF Ended THEN <<c>> ELSE Append(text, c)

EditorInit ==
  /\ term = ZeroFront
  /\ text = <<>>
  /\ row = <<>>
  /\ shown = <<>>

(* service: one byte from the driver, without a gap before it.             *)
TypeKey(c) ==
  LET echo == Echo(term, c)
  IN /\ term.pending_event = "NONE"
     /\ c \in Ends \/ Ended \/ Len(text) < MaxText
     /\ term' = Feed(term, c)
     /\ text' = Noted(c)
     /\ row' = CASE echo = "nothing" -> row
                 [] echo = "row" -> <<>>
                 [] echo = "back" -> IF row = <<>> THEN row ELSE Front(row)
                 [] OTHER -> Append(row, echo)
     /\ shown' = IF echo = "row" THEN row ELSE shown

(* service: the driver reports a gap.  The notice starts a new row.        *)
Lose ==
  /\ term.pending_event = "NONE"
  /\ Ended \/ Len(text) < MaxText
  /\ term' = InputLost(term)
  /\ text' = Noted("lost")
  /\ row' = <<>>
  /\ UNCHANGED shown

(* service: the event of the last feed is handled before the next byte.    *)
Answer ==
  /\ term.pending_event # "NONE"
  /\ term' = Handle(term)
  /\ text' = <<>>
  /\ shown' = <<>>
  /\ UNCHANGED row

EditorNext ==
  \/ \E c \in Keys : TypeKey(c)
  \/ Lose
  \/ Answer

EditorSpec == EditorInit /\ [][EditorNext]_EditorVars

-----------------------------------------------------------------------------
(* References: what a text means, from the characters alone.               *)

LineAcceptable(s) ==
  /\ \A i \in DOMAIN s : s[i] \notin Illegal \cup {"lost"}
  /\ \A n \in 0..Len(s) : Len(Edited(SubSeq(s, 1, n))) <= LineMax

PacketAcceptable(s) == Len(s) = PacketDigits /\ \A i \in DOMAIN s : s[i] \in HexDigit

(* A finished line or packet is exactly what was typed since the previous  *)
(* one: tcs_line_feed and tcs_signed_feed accept a text if and only if no  *)
(* byte of it was lost, refused or too much at any moment, whatever was    *)
(* erased later, and then hand over the whole text as edited; and the only *)
(* line end passed over is an LF with nothing typed before it.             *)
ExactText ==
  LET s == Front(text)
      e == term.pending_event
  IN Ended =>
       /\ e = "NONE" => text = <<"lf">>
       /\ e \in {"READY", "REJECTED"} =>
            IF term.packet_mode
            THEN /\ e = "READY" <=> PacketAcceptable(s)
                 /\ e = "READY" => term.input.digits = s
            ELSE /\ e = "READY" <=> LineAcceptable(s)
                 /\ e = "READY" => term.line.bytes = Edited(s)

(* What the operator saw is what runs: the row on the screen when a line   *)
(* or packet is accepted is the accepted text, cell by cell, a tab shown   *)
(* as one blank.                                                           *)
SeenIsRun ==
  term.pending_event = "READY" =>
    LET run == IF term.packet_mode THEN term.input.digits ELSE term.line.bytes
    IN shown = [i \in DOMAIN run |-> IF run[i] = "tab" THEN "space" ELSE run[i]]

(* Numbers are read exactly or refused, at the 64-bit limit too: number()  *)
(* accepts the canonical decimals up to UINT64_MAX and nothing else, each  *)
(* as its value; a line calls storage if and only if it is "read" and one  *)
(* decimal in 1..UINT64_MAX between blanks, and passes on that value; and  *)
(* what decimal() prints reads back as the same number.                    *)
DecimalExact ==
  LET s == term.line.bytes
      canonical == IsNumeral(s) /\ (s[1] # "0" \/ Len(s) = 1) /\ Positional(s) <= UMAX
      asked(n) == \E i, j \in DOMAIN s :
                    /\ i < j
                    /\ IsNumeral(SubSeq(s, i + 1, j))
                    /\ Positional(SubSeq(s, i + 1, j)) = n
                    /\ \E r \in 1..(i - 1) :
                         /\ s[r] = "read"
                         /\ \A k \in (DOMAIN s) \ ({r} \cup ((i + 1)..j)) : s[k] \in Space
  IN term.pending_event = "READY" =>
       /\ number(s) = IF canonical THEN Positional(s) ELSE None
       /\ canonical => decimal[Positional(s)] = s
       /\ \A n \in 1..UMAX : execute(s) = <<"CLIENT_READ", n>> <=> asked(n)
       /\ execute(s) \notin {<<"CLIENT_READ", None>>, <<"CLIENT_READ", 0>>}
=============================================================================
