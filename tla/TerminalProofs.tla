--------------------------- MODULE TerminalProofs ---------------------------
(***************************************************************************)
(* What reaches the operator's terminal and what it makes of it: Serial,   *)
(* for every size of the queues, every alphabet and every typed text, and  *)
(* Editor, for every line length, packet size and UMAX.                    *)
(***************************************************************************)
EXTENDS Serial, Editor, InputLemmas

-----------------------------------------------------------------------------
(***************************************************************************)
(* Serial keeps NoJoinedInput and NoLostWakeup.                            *)
(*                                                                         *)
(* NoJoinedInput: every byte has the position it was typed at.  What is in *)
(* the UART's FIFO and in the driver's ring are two runs of positions, one *)
(* after the other, up to the last byte typed; between the last byte the   *)
(* terminal has taken and the ring there is no gap, or the ring's loss     *)
(* marker tells of it, or the terminal discards already (DataInv).  What   *)
(* the terminal has accepted so far is what was typed since some end of a  *)
(* line, with nothing missing (FrontText).                                 *)
(*                                                                         *)
(* NoLostWakeup: a terminal that waits without a notification either has   *)
(* output left, and the transmit interrupt is unmasked and raised or still *)
(* to be raised, or has emptied the ring (ControlInv).                     *)
(***************************************************************************)

(* The driver's ring.                                                      *)
RingType == [queue : Seq(Nat), lost : BOOLEAN]

(* A ring that has been given every position up to got: it holds the last  *)
(* of them, none damaged, and either starts where it did before or has     *)
(* recorded the gap.                                                       *)
Ring(w, r, got, start) ==
  /\ r \in RingType
  /\ Len(r.queue) <= got /\ start <= got - Len(r.queue)
  /\ \A k \in 1..Len(r.queue) : /\ r.queue[k] = (got - Len(r.queue)) + k
                                /\ w[(got - Len(r.queue)) + k] # "noise"
  /\ r.lost = TRUE \/ got - Len(r.queue) = start

(* The same ring, from where it starts now.                                *)
LEMMA RingNow ==
  ASSUME NEW w, NEW r, NEW got \in Nat, NEW start \in Nat, Ring(w, r, got, start)
  PROVE  Ring(w, r, got, got - Len(r.queue))
<1>1. Len(r.queue) \in Nat
  BY DEF Ring, RingType
<1>2. got - Len(r.queue) <= got - Len(r.queue)
  BY <1>1
<1> QED BY <1>2 DEF Ring

(* Whatever the driver reads, the ring keeps its type.                     *)
LEMMA ReceivedType ==
  ASSUME NEW r \in RingType, NEW i \in Nat
  PROVE  Received(r, i) \in RingType
<1>1. tcs_serial_loss(r) \in RingType
  BY DEF tcs_serial_loss, RingType
<1> DEFINE room == IF Len(r.queue) = RingCapacity THEN tcs_serial_loss(r) ELSE r
<1>2. room \in RingType
  BY <1>1
<1>3. tcs_serial_receive(r, i) = [room EXCEPT !.queue = Append(room.queue, i)]
  BY DEF tcs_serial_receive
<1> HIDE DEF room
<1>4. Append(room.queue, i) \in Seq(Nat)
  BY <1>2 DEF RingType
<1>5. tcs_serial_receive(r, i) \in RingType
  BY <1>2, <1>3, <1>4 DEF RingType
<1> QED BY <1>1, <1>5 DEF Received

(* One byte more: taken, or a gap recorded in its place or before it.      *)
LEMMA ReceivedRing ==
  ASSUME NEW r, NEW got \in Nat, NEW start \in Nat, Ring(typed, r, got, start)
  PROVE  Ring(typed, Received(r, got + 1), got + 1, start)
<1> DEFINE i == got + 1
           n == Received(r, i)
           bare == [queue |-> <<>>, lost |-> TRUE]
           L == Len(r.queue)
<1>1. /\ r \in RingType /\ i \in Nat /\ r.queue \in Seq(Nat)
      /\ L \in Nat /\ L <= got /\ start <= got - L
      /\ \A k \in 1..L : r.queue[k] = (got - L) + k /\ typed[(got - L) + k] # "noise"
      /\ r.lost = TRUE \/ got - L = start
  BY DEF Ring, RingType
<1>2. n \in RingType
  BY <1>1, ReceivedType
<1> SUFFICES Ring(typed, n, i, start)
  OBVIOUS
<1>3. CASE typed[i] = "noise"
  <2>1. n.queue = <<>> /\ n.lost = TRUE
    BY <1>3 DEF Received, tcs_serial_loss
  <2>2. Len(n.queue) = 0
    BY <2>1
  <2> HIDE DEF n, L
  <2> QED BY <1>1, <1>2, <2>1, <2>2 DEF Ring
<1>4. CASE typed[i] # "noise" /\ Len(r.queue) = RingCapacity
  <2>1. n = [bare EXCEPT !.queue = Append(@, i)]
    BY <1>4 DEF Received, tcs_serial_receive, tcs_serial_loss
  <2>2. n.queue = <<i>> /\ n.lost = TRUE
    BY <2>1
  <2>3. Len(n.queue) = 1 /\ n.queue[1] = i
    BY <2>2
  <2> HIDE DEF n, L
  <2>4. i - 1 = got
    BY <1>1
  <2>5. ASSUME NEW k \in 1..1 PROVE n.queue[k] = got + k /\ typed[got + k] # "noise"
    <3>1. k = 1 /\ got + 1 = i
      OBVIOUS
    <3> QED BY <1>4, <2>3, <3>1
  <2> HIDE DEF i
  <2> QED BY <1>1, <1>2, <2>2, <2>3, <2>4, <2>5 DEF Ring
<1>5. CASE typed[i] # "noise" /\ Len(r.queue) # RingCapacity
  <2>1. n = [r EXCEPT !.queue = Append(@, i)]
    BY <1>5 DEF Received, tcs_serial_receive
  <2>2. n.queue = Append(r.queue, i) /\ n.lost = r.lost
    <3> HIDE DEF n
    <3> QED BY <1>1, <2>1 DEF RingType
  <2>3. /\ Len(n.queue) = L + 1 /\ n.queue[L + 1] = i
        /\ \A k \in 1..L : n.queue[k] = r.queue[k]
    <3> HIDE DEF n
    <3> QED BY <1>1, <2>2
  <2> HIDE DEF n, L
  <2>4. i - (L + 1) = got - L /\ L + 1 <= i /\ start <= i - (L + 1)
    BY <1>1
  <2>5. ASSUME NEW k \in 1..(L + 1)
        PROVE  n.queue[k] = (got - L) + k /\ typed[(got - L) + k] # "noise"
    <3>1. CASE k \in 1..L
      BY <1>1, <2>3, <3>1
    <3>2. CASE k = L + 1
      <4>1. (got - L) + k = i
        BY <1>1, <3>2
      <4> QED BY <1>5, <2>3, <3>2, <4>1
    <3> QED BY <1>1, <3>1, <3>2
  <2> HIDE DEF i
  <2> QED BY <1>1, <1>2, <2>2, <2>3, <2>4, <2>5 DEF Ring
<1> QED BY <1>3, <1>4, <1>5

(* The loop of the interrupt handler, over any number of bytes.            *)
LEMMA ReadFifoRing ==
  ASSUME NEW r, NEW got \in Nat, NEW start \in Nat, Ring(typed, r, got, start),
         NEW n \in Nat, \A k \in 1..n : fifo[k] = got + k
  PROVE  Ring(typed, ReadFifo(r, n), got + n, start)
<1> DEFINE F == [p \in RingType \X (1..n) |-> Received(p[1], fifo[p[2]])]
           Rule(f) == [k \in 0..n |-> IF k = 0 THEN r ELSE Received(f[k - 1], fifo[k])]
           after == CHOOSE f : f = Rule(f)
<1>1. r \in RingType
  BY DEF Ring
<1>2. \E g : g = Rule(g)
  <2> DEFINE S == RingType
  <2>1. IsStep(F, S, n)
    <3>1. ASSUME NEW p \in RingType \X (1..n) PROVE Received(p[1], fifo[p[2]]) \in RingType
      <4>1. p[1] \in RingType /\ fifo[p[2]] \in Nat
        OBVIOUS
      <4> QED BY <4>1, ReceivedType
    <3> QED BY <3>1 DEF IsStep
  <2>2. r \in S
    BY <1>1
  <2>3. S = RingType
    OBVIOUS
  <2> HIDE DEF F, S
  <2>4. PICK g : IsTable(g, F, S, n, r)
    BY <2>1, <2>2, Iteration
  <2>5. ASSUME NEW k \in 1..n PROVE g[k] = Received(g[k - 1], fifo[k])
    <3>1. g[k - 1] \in RingType
      BY <2>3, <2>4 DEF IsTable
    <3>2. <<g[k - 1], k>> \in RingType \X (1..n)
      BY <3>1
    <3>3. g[k] = F[<<g[k - 1], k>>]
      BY <2>4 DEF IsTable
    <3> QED BY <3>2, <3>3 DEF F
  <2>6. g = Rule(g)
    BY <2>3, <2>4, <2>5 DEF IsTable
  <2> QED BY <2>6
<1>3. after = Rule(after)
  BY <1>2
<1>4. ReadFifo(r, n) = after[n]
  BY DEF ReadFifo
<1> HIDE DEF after
<1> DEFINE T == {k \in Nat : k <= n => Ring(typed, after[k], got + k, start)}
<1>5. 0 \in T
  <2>1. after[0] = r
    BY <1>3
  <2> QED BY <2>1
<1>6. ASSUME NEW k \in Nat, k \in T PROVE k + 1 \in T
  <2> SUFFICES ASSUME k + 1 <= n PROVE Ring(typed, after[k + 1], got + (k + 1), start)
    OBVIOUS
  <2>1. Ring(typed, after[k], got + k, start) /\ got + k \in Nat
    BY <1>6
  <2>2. after[k + 1] = Received(after[k], fifo[k + 1])
    BY <1>3
  <2>3. fifo[k + 1] = (got + k) + 1 /\ got + (k + 1) = (got + k) + 1
    OBVIOUS
  <2>4. Ring(typed, Received(after[k], (got + k) + 1), (got + k) + 1, start)
    BY <2>1, ReceivedRing
  <2> QED BY <2>2, <2>3, <2>4
<1>7. n \in T
  BY <1>5, <1>6, SetInduction
<1> QED BY <1>4, <1>7

-----------------------------------------------------------------------------
(* What the terminal holds, against what was typed.  w is the history of   *)
(* what was typed and n the position that was taken last.                  *)

Word == Seq(Char \cup {"noise"})

(* Position m is a line end, or the start, and nothing since was an end or *)
(* damaged.                                                                *)
Since(w, m, n) ==
  /\ m > 0 => w[m] \in Ends
  /\ \A i \in (m + 1)..n : w[i] \notin Ends /\ w[i] # "noise"

LineTyped(w, n, bytes) == \E m \in 0..n : Since(w, m, n) /\ bytes = Edited(SubSeq(w, m + 1, n))
PacketTyped(w, n, digits) == \E m \in 0..n : Since(w, m, n) /\ digits = SubSeq(w, m + 1, n)
EndAt(w, n) == n > 0 /\ w[n] \in Ends

(* What is being entered is what was typed since the last end, unless it   *)
(* is being discarded; what was accepted is what was typed before the end  *)
(* that finished it.                                                       *)
FrontText(t, w, n) ==
  /\ t.pending_event = "NONE" /\ ~t.packet_mode =>
       /\ t.line.completed => EndAt(w, n)
       /\ ~t.line.completed /\ ~t.line.rejected =>
            /\ LineTyped(w, n, t.line.bytes)
            /\ t.line.previous_cr => t.line.bytes = <<>>
  /\ t.pending_event = "NONE" /\ t.packet_mode =>
       /\ ~t.input.completed
       /\ ~t.input.rejected =>
            /\ PacketTyped(w, n, t.input.digits)
            /\ t.input.previous_cr => t.input.digits = <<>>
  /\ t.pending_event # "NONE" =>
       /\ EndAt(w, n)
       /\ ~t.packet_mode => IF t.pending_event = "CANCELLED"
                            THEN ~t.line.completed /\ t.line.bytes = <<>>
                            ELSE t.line.completed
       /\ t.pending_event = "READY" /\ ~t.packet_mode => LineTyped(w, n - 1, t.line.bytes)
       /\ t.pending_event = "READY" /\ t.packet_mode =>
            PacketTyped(w, n - 1, t.input.digits) /\ Len(t.input.digits) = PacketDigits

(* The terminal has been told of a gap and waits for the end of the line.  *)
Discarding(t) ==
  /\ t.pending_event = "NONE" /\ t.line.rejected /\ ~t.line.completed
  /\ t.packet_mode => t.input.rejected

(* Right after an end nothing has been typed.                              *)
LEMMA NothingTyped ==
  ASSUME NEW w \in Word, NEW n \in 0..Len(w), n = 0 \/ w[n] \in Ends
  PROVE  LineTyped(w, n, <<>>) /\ PacketTyped(w, n, <<>>)
<1>1. SubSeq(w, n + 1, n) = <<>>
  BY DEF Word
<1>2. n \in 0..n /\ Since(w, n, n)
  BY DEF Since
<1> QED BY <1>1, <1>2, EditedEmpty DEF LineTyped, PacketTyped

(* The next byte, if it is no end, is added to what was typed.             *)
LEMMA TypedMore ==
  ASSUME NEW w \in Word, NEW n \in Nat, n + 1 <= Len(w), w[n + 1] \notin Ends, w[n + 1] # "noise"
  PROVE  /\ \A b : LineTyped(w, n, b) => LineTyped(w, n + 1, Kept(b, w[n + 1]))
         /\ \A b : PacketTyped(w, n, b) => PacketTyped(w, n + 1, Append(b, w[n + 1]))
<1> DEFINE C == Char \cup {"noise"}
<1>1. ASSUME NEW m \in 0..n, Since(w, m, n)
      PROVE  /\ m \in 0..(n + 1) /\ Since(w, m, n + 1)
             /\ SubSeq(w, m + 1, n) \in Seq(C)
             /\ SubSeq(w, m + 1, n + 1) = Append(SubSeq(w, m + 1, n), w[n + 1])
             /\ w[n + 1] \in C
  <2>1. Since(w, m, n + 1)
    BY <1>1 DEF Since
  <2>2. SubSeq(w, m + 1, n + 1) = Append(SubSeq(w, m + 1, n), w[n + 1])
    BY DEF Word
  <2>3. SubSeq(w, m + 1, n) \in Seq(C) /\ w[n + 1] \in C
    BY DEF Word
  <2> QED BY <2>1, <2>2, <2>3
<1>2. ASSUME NEW b, LineTyped(w, n, b) PROVE LineTyped(w, n + 1, Kept(b, w[n + 1]))
  <2>1. PICK m \in 0..n : Since(w, m, n) /\ b = Edited(SubSeq(w, m + 1, n))
    BY <1>2 DEF LineTyped
  <2>2. Edited(SubSeq(w, m + 1, n + 1)) = Kept(b, w[n + 1])
    <3> DEFINE s == SubSeq(w, m + 1, n)
    <3>1. s \in Seq(C) /\ w[n + 1] \in C /\ SubSeq(w, m + 1, n + 1) = Append(s, w[n + 1])
      BY <1>1, <2>1
    <3> HIDE DEF s, C
    <3>2. Edited(Append(s, w[n + 1])) = Kept(Edited(s), w[n + 1])
      BY <3>1, EditedAppend
    <3> QED BY <2>1, <3>1, <3>2 DEF s
  <2> QED BY <1>1, <2>1, <2>2 DEF LineTyped
<1>3. ASSUME NEW b, PacketTyped(w, n, b) PROVE PacketTyped(w, n + 1, Append(b, w[n + 1]))
  <2>1. PICK m \in 0..n : Since(w, m, n) /\ b = SubSeq(w, m + 1, n)
    BY <1>3 DEF PacketTyped
  <2> QED BY <1>1, <2>1 DEF PacketTyped
<1> QED BY <1>2, <1>3

(* One byte into the line editor.                                          *)
LEMMA LineStep ==
  ASSUME NEW w \in Word, NEW n \in Nat, NEW i \in 1..Len(w), n < i, w[i] \in Char,
         NEW l \in LineType, NEW r, NEW e, LineFeedCases(l, w[i], r, e),
         l.completed => EndAt(w, n),
         ~l.completed /\ ~l.rejected =>
           LineTyped(w, n, l.bytes) /\ (l.previous_cr => l.bytes = <<>>),
         i = n + 1 \/ (l.rejected /\ ~l.completed)
  PROVE  /\ e = "NONE" =>
              /\ r.completed => EndAt(w, i)
              /\ ~r.completed /\ ~r.rejected =>
                   LineTyped(w, i, r.bytes) /\ (r.previous_cr => r.bytes = <<>>)
         /\ e # "NONE" =>
              /\ EndAt(w, i)
              /\ IF e = "CANCELLED" THEN ~r.completed /\ r.bytes = <<>> ELSE r.completed
              /\ e = "READY" => LineTyped(w, i - 1, r.bytes)
<1> DEFINE byte == w[i]
           kept == OpenBytes(l)
           bad == OpenRejected(l)
           skipped == byte = "lf" /\ l.previous_cr
<1>1. n \in 0..Len(w) /\ i \in 0..Len(w) /\ byte # "noise"
  BY DEF Char, HexDigit, Digit, Range, Numerals, Space, Delimiter, Erase, Illegal, Names
<1>2. ~bad => i = n + 1 /\ LineTyped(w, n, kept)
  <2>1. CASE l.completed
    BY <1>1, <2>1, NothingTyped DEF EndAt, OpenBytes, OpenRejected
  <2>2. CASE ~l.completed
    BY <2>2 DEF OpenBytes, OpenRejected
  <2> QED BY <2>1, <2>2
<1>3. byte \in Ends => EndAt(w, i) /\ LineTyped(w, i, <<>>)
  BY <1>1, NothingTyped DEF EndAt
<1>4. ~bad /\ l.previous_cr => kept = <<>>
  BY DEF OpenBytes, OpenRejected
<1> USE DEF LineFeedCases, Ends, Delimiter, Event
<1> HIDE DEF kept, bad
<1>5. CASE skipped
  <2>1. e = "NONE" /\ ~r.completed /\ r.bytes = kept /\ (r.rejected <=> bad)
    BY <1>5 DEF kept, bad
  <2> QED BY <1>3, <1>4, <1>5, <2>1
<1>6. CASE byte = "intr"
  <2>1. e = "CANCELLED" /\ ~r.completed /\ r.bytes = <<>>
    BY <1>6
  <2> QED BY <1>3, <1>6, <2>1
<1>7. CASE byte \in Delimiter /\ ~skipped
  <2>1. /\ e = IF bad THEN "REJECTED" ELSE "READY"
        /\ r.completed /\ r.bytes = kept
    BY <1>7 DEF kept, bad
  <2>2. i = n + 1 => i - 1 = n
    OBVIOUS
  <2> QED BY <1>2, <1>3, <1>7, <2>1, <2>2
<1>8. CASE byte \notin Ends
  <2>1. e = "NONE" /\ ~r.completed /\ ~r.previous_cr
    BY <1>8
  <2>2. ASSUME ~r.rejected PROVE LineTyped(w, i, r.bytes)
    <3>1. ~bad
      BY <1>8, <2>2 DEF bad
    <3>2. r.bytes = Kept(kept, byte)
      <4>1. CASE byte \in Erase
        <5>1. r.bytes = IF kept = <<>> THEN <<>> ELSE Front(kept)
          BY <3>1, <4>1 DEF kept, bad
        <5> QED BY <4>1, <5>1 DEF Kept
      <4>2. CASE byte \notin Erase
        <5>1. r.bytes = Append(kept, byte)
          BY <1>8, <2>2, <3>1, <4>2 DEF kept, bad
        <5> QED BY <4>2, <5>1 DEF Kept
      <4> QED BY <4>1, <4>2
    <3>3. LineTyped(w, n + 1, Kept(kept, w[n + 1]))
      BY <1>1, <1>2, <1>8, <3>1, TypedMore
    <3> QED BY <1>2, <3>1, <3>2, <3>3
  <2> QED BY <2>1, <2>2
<1> QED BY <1>5, <1>6, <1>7, <1>8

(* One byte into the packet input.                                         *)
LEMMA PacketStep ==
  ASSUME NEW w \in Word, NEW n \in Nat, NEW i \in 1..Len(w), n < i, w[i] \in Char,
         NEW s \in PacketType, NEW r, NEW e, PacketFeedCases(s, w[i], r, e),
         ~s.completed,
         ~s.rejected => PacketTyped(w, n, s.digits) /\ (s.previous_cr => s.digits = <<>>),
         i = n + 1 \/ s.rejected
  PROVE  /\ e = "NONE" =>
              /\ ~r.completed
              /\ ~r.rejected =>
                   PacketTyped(w, i, r.digits) /\ (r.previous_cr => r.digits = <<>>)
         /\ e # "NONE" => EndAt(w, i)
         /\ e = "READY" => PacketTyped(w, i - 1, r.digits) /\ Len(r.digits) = PacketDigits
<1> DEFINE byte == w[i]
           skipped == byte = "lf" /\ s.previous_cr
<1>1. i \in 0..Len(w) /\ byte # "noise"
  BY DEF Char, HexDigit, Digit, Range, Numerals, Space, Delimiter, Erase, Illegal, Names
<1>2. byte \in Ends => EndAt(w, i) /\ PacketTyped(w, i, <<>>)
  BY <1>1, NothingTyped DEF EndAt
<1> USE DEF PacketFeedCases, Ends, Delimiter, Event
<1>3. CASE skipped
  <2>1. /\ e = "NONE" /\ ~r.completed /\ r.digits = s.digits /\ r.rejected = s.rejected
        /\ ~r.previous_cr
    BY <1>3
  <2> QED BY <1>2, <1>3, <2>1
<1>4. CASE byte = "intr"
  <2>1. e = "CANCELLED"
    BY <1>4
  <2> QED BY <1>2, <1>4, <2>1
<1>5. CASE byte \in Delimiter /\ ~skipped
  <2>1. e = "READY" \/ e = "REJECTED"
    BY <1>5
  <2>2. ASSUME e = "READY" PROVE PacketTyped(w, i - 1, r.digits) /\ Len(r.digits) = PacketDigits
    <3>1. ~s.rejected /\ Len(s.digits) = PacketDigits /\ r.digits = s.digits
      BY <1>5, <2>2
    <3>2. i - 1 = n
      BY <3>1
    <3> QED BY <3>1, <3>2
  <2> QED BY <1>2, <1>5, <2>1, <2>2
<1>6. CASE byte \notin Ends
  <2>1. e = "NONE" /\ ~r.completed /\ ~r.previous_cr
    BY <1>6
  <2>2. ASSUME ~r.rejected PROVE PacketTyped(w, i, r.digits)
    <3>1. ~s.rejected /\ r.digits = Append(s.digits, byte)
      BY <1>6, <2>2
    <3>2. i = n + 1
      BY <3>1
    <3> QED BY <1>1, <1>6, <3>1, <3>2, TypedMore
  <2> QED BY <2>1, <2>2
<1> QED BY <1>3, <1>4, <1>5, <1>6

(* The next byte is taken: the one after the last, or any later one when   *)
(* the terminal is discarding.                                             *)
LEMMA FeedText ==
  ASSUME NEW w \in Word, NEW n \in Nat, NEW i \in 1..Len(w), n < i, w[i] \in Char,
         NEW t \in FrontType, t.pending_event = "NONE", FrontText(t, w, n),
         i = n + 1 \/ Discarding(t)
  PROVE  FrontText(Feed(t, w[i]), w, i)
<1> DEFINE f == Feed(t, w[i])
<1>1. /\ f \in FrontType /\ f.packet_mode = t.packet_mode
      /\ t.packet_mode => PacketFeedCases(t.input, w[i], f.input, f.pending_event)
      /\ ~t.packet_mode => LineFeedCases(t.line, w[i], f.line, f.pending_event)
  BY FeedFacts
<1>2. t.line \in LineType /\ t.input \in PacketType
  BY DEF FrontType
<1> HIDE DEF f
<1>3. CASE ~t.packet_mode
  <2>1. /\ t.line.completed => EndAt(w, n)
        /\ ~t.line.completed /\ ~t.line.rejected =>
             LineTyped(w, n, t.line.bytes) /\ (t.line.previous_cr => t.line.bytes = <<>>)
    BY <1>3 DEF FrontText
  <2>2. i = n + 1 \/ (t.line.rejected /\ ~t.line.completed)
    BY DEF Discarding
  <2>3. /\ f.pending_event = "NONE" =>
             /\ f.line.completed => EndAt(w, i)
             /\ ~f.line.completed /\ ~f.line.rejected =>
                  LineTyped(w, i, f.line.bytes) /\ (f.line.previous_cr => f.line.bytes = <<>>)
        /\ f.pending_event # "NONE" =>
             /\ EndAt(w, i)
             /\ IF f.pending_event = "CANCELLED" THEN ~f.line.completed /\ f.line.bytes = <<>>
                ELSE f.line.completed
             /\ f.pending_event = "READY" => LineTyped(w, i - 1, f.line.bytes)
    <3> DEFINE l == t.line
               r == f.line
               e == f.pending_event
    <3>1. l \in LineType /\ LineFeedCases(l, w[i], r, e)
      BY <1>1, <1>2, <1>3
    <3>2. /\ l.completed => EndAt(w, n)
          /\ ~l.completed /\ ~l.rejected =>
               LineTyped(w, n, l.bytes) /\ (l.previous_cr => l.bytes = <<>>)
          /\ i = n + 1 \/ (l.rejected /\ ~l.completed)
      BY <2>1, <2>2
    <3> HIDE DEF l, r, e
    <3>3. /\ e = "NONE" =>
               /\ r.completed => EndAt(w, i)
               /\ ~r.completed /\ ~r.rejected =>
                    LineTyped(w, i, r.bytes) /\ (r.previous_cr => r.bytes = <<>>)
          /\ e # "NONE" =>
               /\ EndAt(w, i)
               /\ IF e = "CANCELLED" THEN ~r.completed /\ r.bytes = <<>> ELSE r.completed
               /\ e = "READY" => LineTyped(w, i - 1, r.bytes)
      BY <3>1, <3>2, LineStep
    <3> QED BY <3>3 DEF r, e
  <2> QED BY <1>1, <1>3, <2>3 DEF FrontText, f
<1>4. CASE t.packet_mode
  <2>1. /\ ~t.input.completed
        /\ ~t.input.rejected =>
             PacketTyped(w, n, t.input.digits) /\ (t.input.previous_cr => t.input.digits = <<>>)
        /\ i = n + 1 \/ t.input.rejected
    BY <1>4 DEF FrontText, Discarding
  <2>2. /\ f.pending_event = "NONE" =>
             /\ ~f.input.completed
             /\ ~f.input.rejected =>
                  PacketTyped(w, i, f.input.digits)
                  /\ (f.input.previous_cr => f.input.digits = <<>>)
        /\ f.pending_event # "NONE" => EndAt(w, i)
        /\ f.pending_event = "READY" =>
             PacketTyped(w, i - 1, f.input.digits) /\ Len(f.input.digits) = PacketDigits
    <3> DEFINE s == t.input
               r == f.input
               e == f.pending_event
    <3>1. s \in PacketType /\ PacketFeedCases(s, w[i], r, e)
      BY <1>1, <1>2, <1>4
    <3>2. /\ ~s.completed
          /\ ~s.rejected => PacketTyped(w, n, s.digits) /\ (s.previous_cr => s.digits = <<>>)
          /\ i = n + 1 \/ s.rejected
      BY <2>1
    <3> HIDE DEF s, r, e
    <3>3. /\ e = "NONE" =>
               /\ ~r.completed
               /\ ~r.rejected =>
                    PacketTyped(w, i, r.digits) /\ (r.previous_cr => r.digits = <<>>)
          /\ e # "NONE" => EndAt(w, i)
          /\ e = "READY" => PacketTyped(w, i - 1, r.digits) /\ Len(r.digits) = PacketDigits
      BY <3>1, <3>2, PacketStep
    <3> QED BY <3>3 DEF r, e
  <2> QED BY <1>1, <1>4, <2>2 DEF FrontText, f
<1> QED BY <1>3, <1>4 DEF FrontType

(* The gap marker is taken: nothing is claimed of what came before it.     *)
LEMMA LostText ==
  ASSUME NEW w, NEW n, NEW t \in FrontType, t.pending_event = "NONE"
  PROVE  FrontText(InputLost(t), w, n) /\ Discarding(InputLost(t))
<1> DEFINE f == InputLost(t)
<1>1. /\ f.packet_mode = t.packet_mode /\ f.pending_event = "NONE"
      /\ f.line.rejected /\ ~f.line.completed
      /\ t.packet_mode => f.input.rejected /\ ~f.input.completed
  BY LostFacts
<1> HIDE DEF f
<1>2. FrontText(f, w, n) /\ Discarding(f)
  BY <1>1 DEF FrontText, Discarding
<1> QED BY <1>2 DEF f

(* An event is handled right after the end that caused it.                 *)
LEMMA HandleText ==
  ASSUME NEW w \in Word, NEW n \in 0..Len(w), NEW t \in FrontType, t.pending_event # "NONE",
         FrontText(t, w, n)
  PROVE  FrontText(Handle(t), w, n)
<1> DEFINE f == Handle(t)
<1>1. /\ f \in FrontType /\ f.pending_event = "NONE"
      /\ t.packet_mode => /\ ~f.packet_mode /\ f.line.bytes = <<>>
                          /\ ~f.line.rejected /\ ~f.line.completed
      /\ ~t.packet_mode => /\ f.line = t.line
                           /\ f.packet_mode => /\ f.input.digits = <<>>
                                               /\ ~f.input.rejected /\ ~f.input.completed
  BY HandleFacts
<1>2. EndAt(w, n) /\ LineTyped(w, n, <<>>) /\ PacketTyped(w, n, <<>>)
  BY NothingTyped DEF FrontText, EndAt
<1>3. ~t.packet_mode => t.line.completed \/ (~t.line.completed /\ t.line.bytes = <<>>)
  BY DEF FrontText
<1> HIDE DEF f
<1>4. FrontText(f, w, n)
  BY <1>1, <1>2, <1>3 DEF FrontText
<1> QED BY <1>4 DEF f

(* More is typed: what was taken already is not touched.                   *)
LEMMA TypeText ==
  ASSUME NEW w \in Word, NEW c, NEW n \in 0..Len(w), NEW t, FrontText(t, w, n)
  PROVE  FrontText(t, Append(w, c), n)
<1> DEFINE v == Append(w, c)
<1>1. \A i \in 1..Len(w) : v[i] = w[i]
  BY DEF Word
<1>2. ASSUME NEW k \in 0..Len(w), NEW m \in 0..k
      PROVE  Since(w, m, k) => Since(v, m, k) /\ SubSeq(v, m + 1, k) = SubSeq(w, m + 1, k)
  <2>1. Since(w, m, k) => Since(v, m, k)
    BY <1>1 DEF Since
  <2>2. SubSeq(v, m + 1, k) = SubSeq(w, m + 1, k)
    BY DEF Word
  <2> QED BY <2>1, <2>2
<1> HIDE DEF v
<1>3. ASSUME NEW k \in 0..Len(w)
      PROVE  /\ \A b : LineTyped(w, k, b) => LineTyped(v, k, b)
             /\ \A b : PacketTyped(w, k, b) => PacketTyped(v, k, b)
  BY <1>2 DEF LineTyped, PacketTyped
<1>4. EndAt(w, n) => EndAt(v, n) /\ n - 1 \in 0..Len(w)
  BY <1>1 DEF EndAt
<1>5. FrontText(t, v, n)
  BY <1>3, <1>4 DEF FrontText
<1> QED BY <1>5 DEF v

-----------------------------------------------------------------------------
(* The data on its way from the keyboard to the editor.  Every position    *)
(* typed is taken, or in the ring, or in the FIFO, in this order, or was   *)
(* lost between the last taken and the ring's first: then the ring's       *)
(* marker says so, or the terminal has seen the marker and discards.       *)

Got == Len(typed) - Len(fifo)
Start == Got - Len(rx.queue)

DataType ==
  /\ typed \in Seq(Alphabet \cup {"noise"})
  /\ fifo \in Seq(Nat) /\ rx \in RingType
  /\ front \in FrontType /\ last \in Nat

Positions ==
  /\ Len(fifo) <= Len(typed)
  /\ \A k \in 1..Len(fifo) : fifo[k] = Got + k
  /\ Ring(typed, rx, Got, Start)
  /\ last <= Start

GapKnown == rx.lost = TRUE \/ last = Start \/ Discarding(front)

DataInv == DataType /\ Positions /\ GapKnown /\ FrontText(front, typed, last)

(* The sizes and positions the data invariant speaks of are numbers.       *)
LEMMA DataNumbers ==
  ASSUME DataInv
  PROVE  /\ typed \in Word /\ Len(typed) \in Nat /\ Len(fifo) \in Nat /\ Len(rx.queue) \in Nat
         /\ rx.queue \in Seq(Nat) /\ Got \in Nat /\ Start \in Nat /\ Got <= Len(typed)
         /\ last \in 0..Len(typed)
<1>1. typed \in Word
  <2>1. Alphabet \cup {"noise"} \subseteq Char \cup {"noise"}
    BY SerialAssumption
  <2> QED BY <2>1 DEF DataInv, DataType, Word
<1>2. Len(typed) \in Nat /\ Len(fifo) \in Nat /\ rx.queue \in Seq(Nat) /\ Len(rx.queue) \in Nat
  BY DEF DataInv, DataType, RingType
<1>3. /\ Len(fifo) <= Len(typed) /\ Len(rx.queue) <= Got /\ last \in Nat /\ last <= Start
  BY DEF DataInv, DataType, Positions, Ring
<1> QED BY <1>1, <1>2, <1>3 DEF Got, Start

(* Nothing has been typed at first.                                        *)
LEMMA DataInit == Init => DataInv
<1> SUFFICES ASSUME Init PROVE DataInv
  OBVIOUS
<1>1. ZeroFront \in FrontType /\ ZeroFront.pending_event = "NONE" /\ ~ZeroFront.packet_mode
      /\ ZeroFront.line = ZeroLine
  BY ZeroFacts DEF ZeroFront, FrontType, Event
<1>2. DataType
  BY <1>1 DEF Init, DataType, RingType
<1>3. Len(typed) = 0 /\ Len(fifo) = 0 /\ Len(rx.queue) = 0 /\ rx.queue = <<>> /\ last = 0
  BY DEF Init
<1>4. Got = 0 /\ Start = 0
  BY <1>3 DEF Got, Start
<1>5. Positions /\ GapKnown
  BY <1>2, <1>3, <1>4 DEF Positions, Ring, GapKnown, DataType
<1>6. FrontText(front, typed, last)
  <2>1. <<>> \in Word /\ 0 \in 0..Len(<<>>)
    BY DEF Word
  <2>2. LineTyped(<<>>, 0, <<>>)
    BY <2>1, NothingTyped
  <2>3. front = ZeroFront /\ typed = <<>> /\ last = 0
    BY DEF Init
  <2> QED BY <1>1, <2>2, <2>3, ZeroFacts DEF FrontText
<1> QED BY <1>2, <1>5, <1>6 DEF DataInv

(* A character arrives at the FIFO's end.                                  *)
LEMMA DataOfType ==
  ASSUME DataInv, NEW c \in Alphabet \cup {"noise"}, Type(c)
  PROVE  DataInv'
<1>1. typed' = Append(typed, c) /\ fifo' = Append(fifo, Len(typed')) /\ UNCHANGED <<rx, front, last>>
  BY DEF Type, driver, terminal
<1>2. /\ typed \in Seq(Alphabet \cup {"noise"}) /\ fifo \in Seq(Nat)
      /\ Len(typed) \in Nat /\ Len(fifo) \in Nat /\ Got \in Nat /\ Start \in Nat
      /\ Got <= Len(typed) /\ typed \in Word /\ last \in 0..Len(typed)
  BY DataNumbers DEF DataInv, DataType
<1>3. /\ Len(typed') = Len(typed) + 1 /\ Len(fifo') = Len(fifo) + 1
      /\ \A k \in 1..Len(typed) : typed'[k] = typed[k]
      /\ \A k \in 1..Len(fifo) : fifo'[k] = fifo[k]
      /\ fifo'[Len(fifo) + 1] = Len(typed) + 1
      /\ typed' \in Seq(Alphabet \cup {"noise"}) /\ fifo' \in Seq(Nat)
  BY <1>1, <1>2
<1>4. Got' = Got /\ Start' = Start
  BY <1>1, <1>2, <1>3 DEF Got, Start
<1>5. DataType' /\ GapKnown'
  BY <1>1, <1>3, <1>4 DEF DataInv, DataType, GapKnown
<1>6. Positions'
  <2>1. Len(fifo') <= Len(typed') /\ last' <= Start'
    BY <1>1, <1>2, <1>3, <1>4 DEF DataInv, Positions
  <2>2. ASSUME NEW k \in 1..Len(fifo') PROVE fifo'[k] = Got' + k
    <3>1. CASE k \in 1..Len(fifo)
      BY <1>3, <1>4, <3>1 DEF DataInv, Positions
    <3>2. CASE k = Len(fifo) + 1
      BY <1>2, <1>3, <1>4, <3>2 DEF Got
    <3> QED BY <1>2, <1>3, <3>1, <3>2
  <2>3. Ring(typed, rx, Got, Start)'
    <3>1. Ring(typed, rx, Got, Start) /\ rx.queue \in Seq(Nat) /\ Len(rx.queue) \in Nat
      BY DataNumbers DEF DataInv, Positions
    <3>2. ASSUME NEW k \in 1..Len(rx.queue)
          PROVE  typed'[(Got - Len(rx.queue)) + k] = typed[(Got - Len(rx.queue)) + k]
      <4>1. (Got - Len(rx.queue)) + k \in 1..Len(typed)
        BY <1>2, <3>1 DEF Ring
      <4> QED BY <1>3, <4>1
    <3> QED BY <1>1, <1>4, <3>1, <3>2 DEF Ring
  <2> QED BY <2>1, <2>2, <2>3 DEF Positions
<1>7. FrontText(front, typed, last)'
  BY <1>1, <1>2, TypeText DEF DataInv
<1> QED BY <1>5, <1>6, <1>7 DEF DataInv

(* The interrupt handler moves bytes from the FIFO to the ring.            *)
LEMMA DataOfIrq ==
  ASSUME DataInv, Irq
  PROVE  DataInv'
<1> DEFINE n == IF Len(fifo) < ReadBound THEN Len(fifo) ELSE ReadBound
<1>1. /\ typed \in Word /\ Len(typed) \in Nat /\ Len(fifo) \in Nat /\ Got \in Nat /\ Start \in Nat
      /\ last \in Nat /\ fifo \in Seq(Nat) /\ Len(rx.queue) \in Nat
  BY DataNumbers DEF DataInv, DataType
<1>2. n \in 0..Len(fifo)
  <2>1. ReadBound \in Nat
    BY SerialAssumption
  <2> QED BY <1>1, <2>1
<1>3. rx' = ReadFifo(rx, n) \/ rx' = ReadFifo(tcs_serial_loss(rx), n)
  <2>1. \E error \in {FALSE, \E i \in DOMAIN fifo : typed[fifo[i]] = "noise"} :
          rx' = ReadFifo(IF error THEN tcs_serial_loss(rx) ELSE rx, n)
    BY DEF Irq
  <2> HIDE DEF n
  <2>2. PICK error : rx' = ReadFifo(IF error THEN tcs_serial_loss(rx) ELSE rx, n)
    BY <2>1
  <2> QED BY <2>2
<1>4. fifo' = SubSeq(fifo, n + 1, Len(fifo)) /\ UNCHANGED <<typed, front, last>>
  BY DEF Irq, terminal
<1>5. \A k \in 1..Len(fifo) : fifo[k] = Got + k
  BY DEF DataInv, Positions
<1> HIDE DEF n
<1>6. ASSUME NEW s \in Nat, Ring(typed, rx, Got, s) PROVE Ring(typed, rx', Got + n, s)
  <2>1. Ring(typed, tcs_serial_loss(rx), Got, s)
    <3> DEFINE r == tcs_serial_loss(rx)
    <3>1. r \in RingType /\ r.queue = <<>> /\ r.lost = TRUE
      BY DEF tcs_serial_loss, RingType
    <3>2. Len(r.queue) = 0
      BY <3>1
    <3>3. s <= Got
      BY <1>1, <1>6 DEF Ring
    <3> HIDE DEF r
    <3>4. Ring(typed, r, Got, s)
      BY <1>1, <3>1, <3>2, <3>3 DEF Ring
    <3> QED BY <3>4 DEF r
  <2>2. Ring(typed, ReadFifo(rx, n), Got + n, s)
    BY <1>1, <1>2, <1>5, <1>6, ReadFifoRing
  <2>3. Ring(typed, ReadFifo(tcs_serial_loss(rx), n), Got + n, s)
    BY <1>1, <1>2, <1>5, <2>1, ReadFifoRing
  <2> QED BY <1>3, <2>2, <2>3
<1>7. Ring(typed, rx, Got, Start) /\ last <= Start
  BY DEF DataInv, Positions
<1>8. /\ Len(fifo') = Len(fifo) - n /\ fifo' \in Seq(Nat)
      /\ \A k \in 1..Len(fifo') : fifo'[k] = fifo[n + k]
  BY <1>1, <1>2, <1>4
<1>9. Got' = Got + n /\ Start' = (Got + n) - Len(rx'.queue)
  <2>1. typed' = typed /\ Len(fifo') = Len(fifo) - n
    BY <1>4, <1>8
  <2>2. Got' = Len(typed) - (Len(fifo) - n)
    BY <2>1 DEF Got
  <2>3. Got' = Got + n
    BY <1>1, <1>2, <2>2 DEF Got
  <2> QED BY <2>3 DEF Start
<1>10. /\ rx' \in RingType /\ Len(rx'.queue) \in Nat
       /\ Ring(typed, rx', Got + n, Start) /\ Start <= Start'
  <2>1. Ring(typed, rx', Got + n, Start)
    BY <1>1, <1>6, <1>7
  <2> QED BY <2>1, <1>9 DEF Ring, RingType
<1>11. Ring(typed, rx, Got, Start)'
  <2>1. Got + n \in Nat
    BY <1>1, <1>2
  <2>2. Ring(typed, rx', Got + n, (Got + n) - Len(rx'.queue))
    BY <1>1, <1>10, <2>1, RingNow
  <2>3. typed' = typed
    BY <1>4
  <2> QED BY <1>9, <2>2, <2>3
<1>12. Positions'
  <2>1. Len(fifo') <= Len(typed')
    BY <1>1, <1>2, <1>4, <1>8 DEF DataInv, Positions
  <2>2. ASSUME NEW k \in 1..Len(fifo') PROVE fifo'[k] = Got' + k
    <3>1. n + k \in 1..Len(fifo)
      BY <1>1, <1>2, <1>8
    <3> QED BY <1>1, <1>2, <1>5, <1>8, <1>9, <3>1
  <2>3. last' <= Start'
    <3>1. Start' \in Int
      BY <1>1, <1>2, <1>9, <1>10
    <3> QED BY <1>1, <1>4, <1>7, <1>10, <3>1
  <2> QED BY <1>11, <2>1, <2>2, <2>3 DEF Positions
<1>13. GapKnown'
  <2>1. CASE Discarding(front)
    BY <1>4, <2>1 DEF GapKnown
  <2>2. CASE ~Discarding(front)
    <3>1. Ring(typed, rx, Got, last)
      BY <1>1, <1>7, <2>2 DEF DataInv, GapKnown, Ring, Start
    <3>2. rx'.lost = TRUE \/ (Got + n) - Len(rx'.queue) = last
      BY <1>1, <1>6, <3>1 DEF Ring
    <3> QED BY <1>4, <1>9, <3>2 DEF GapKnown
  <2> QED BY <2>1, <2>2
<1>14. DataType' /\ FrontText(front, typed, last)'
  BY <1>4, <1>8, <1>10 DEF DataInv, DataType
<1> QED BY <1>12, <1>13, <1>14 DEF DataInv

(* A byte in the ring is a character that was typed undamaged, the one     *)
(* after where the ring starts.                                            *)
LEMMA TakenChar ==
  ASSUME DataInv, rx.queue # <<>>
  PROVE  LET i == Head(rx.queue)
         IN i = Start + 1 /\ i \in 1..Len(typed) /\ last < i /\ typed[i] \in Char
<1> DEFINE i == Head(rx.queue)
           L == Len(rx.queue)
<1>1. /\ typed \in Word /\ Len(typed) \in Nat /\ Got \in Nat /\ Start \in Nat /\ last \in Nat
      /\ rx.queue \in Seq(Nat) /\ L \in Nat /\ Start = Got - L /\ Got <= Len(typed)
      /\ Ring(typed, rx, Got, Start) /\ last <= Start
  BY DataNumbers DEF DataInv, DataType, Positions, Start
<1>2. L >= 1 /\ i = rx.queue[1]
  BY <1>1
<1> HIDE DEF i, L
<1>3. \A k \in 1..L : rx.queue[k] = Start + k /\ typed[Start + k] # "noise"
  BY <1>1 DEF Ring, L
<1>4. i = Start + 1 /\ typed[i] # "noise"
  <2>1. 1 \in 1..L
    BY <1>1, <1>2 DEF L
  <2> QED BY <1>2, <1>3, <2>1
<1>5. i \in 1..Len(typed) /\ last < i
  <2>1. /\ L \in Nat /\ L >= 1 /\ Got \in Nat /\ Start \in Nat /\ last \in Nat
        /\ Len(typed) \in Nat /\ Start = Got - L /\ Got <= Len(typed) /\ last <= Start
    BY <1>1, <1>2 DEF L
  <2> QED BY <1>4, <2>1
<1>6. typed[i] \in Alphabet \cup {"noise"}
  BY <1>5 DEF DataInv, DataType
<1>7. typed[i] \in Char
  BY <1>4, <1>6, SerialAssumption
<1> QED BY <1>4, <1>5, <1>7 DEF i

(* The terminal asks for input: it is told of a gap before it gets the     *)
(* byte that follows the gap.                                              *)
LEMMA DataOfTake ==
  ASSUME DataInv, Take
  PROVE  DataInv'
<1> DEFINE ready == IF rx.lost THEN InputLost(front) ELSE front
           L == Len(rx.queue)
<1>1. /\ typed \in Word /\ Len(typed) \in Nat /\ Got \in Nat /\ Start \in Nat /\ last \in Nat
      /\ rx.queue \in Seq(Nat) /\ L \in Nat /\ Start = Got - L /\ Got <= Len(typed)
      /\ rx \in RingType /\ front \in FrontType
      /\ Ring(typed, rx, Got, Start) /\ last <= Start
  BY DataNumbers DEF DataInv, DataType, Positions, Start
<1>2. /\ front.pending_event = "NONE" /\ rx' = tcs_serial_take(rx)
      /\ typed' = typed /\ fifo' = fifo
  BY DEF Take, uart
<1>3. \/ rx.queue = <<>> /\ front' = ready /\ last' = last
      \/ /\ rx.queue # <<>> /\ last' = Head(rx.queue)
         /\ front' = Feed(ready, typed[Head(rx.queue)])
  BY DEF Take
<1>4. /\ ready \in FrontType /\ ready.pending_event = "NONE"
      /\ FrontText(ready, typed, last) /\ (last = Start \/ Discarding(ready))
  <2>1. CASE rx.lost
    <3> DEFINE f == InputLost(front)
    <3>1. f \in FrontType /\ f.pending_event = "NONE"
      BY <1>1, <1>2, LostFacts
    <3>2. FrontText(f, typed, last) /\ Discarding(f)
      BY <1>1, <1>2, LostText
    <3> QED BY <2>1, <3>1, <3>2
  <2>2. CASE ~rx.lost
    BY <1>1, <1>2, <2>2 DEF DataInv, GapKnown
  <2> QED BY <2>1, <2>2
<1> HIDE DEF ready
<1>5. rx' \in RingType /\ rx'.queue = IF rx.queue = <<>> THEN <<>> ELSE Tail(rx.queue)
  BY <1>1, <1>2 DEF tcs_serial_take, RingType
<1>6. Got' = Got
  BY <1>2 DEF Got
<1>7. CASE rx.queue = <<>>
  <2>1. L = 0 /\ Len(rx'.queue) = 0 /\ front' = ready /\ last' = last
    BY <1>3, <1>5, <1>7
  <2>2. Start = Got /\ Start' = Got
    BY <1>1, <1>6, <2>1 DEF Start
  <2>3. Ring(typed, rx', Got, Got)
    <3>1. Got \in Nat /\ rx' \in RingType /\ Len(rx'.queue) = 0
      BY <1>1, <1>5, <2>1
    <3>2. 0 <= Got /\ Got <= Got - 0 /\ Got - 0 = Got
      BY <3>1
    <3> QED BY <3>1, <3>2 DEF Ring
  <2>4. Ring(typed, rx, Got, Start)'
    BY <1>2, <1>6, <2>2, <2>3
  <2>5. Positions'
    <3>1. Len(fifo') <= Len(typed') /\ (\A k \in 1..Len(fifo') : fifo'[k] = Got' + k)
      BY <1>2, <1>6 DEF DataInv, Positions
    <3>2. last' <= Start'
      BY <1>1, <2>1, <2>2
    <3> QED BY <2>4, <3>1, <3>2 DEF Positions
  <2>6. GapKnown'
    BY <1>4, <2>1, <2>2 DEF GapKnown
  <2>7. DataType'
    BY <1>1, <1>2, <1>4, <1>5, <2>1 DEF DataInv, DataType
  <2>8. FrontText(front, typed, last)'
    BY <1>2, <1>4, <2>1
  <2> QED BY <2>5, <2>6, <2>7, <2>8 DEF DataInv
<1>8. CASE rx.queue # <<>>
  <2> DEFINE i == Head(rx.queue)
  <2>1. /\ L >= 1 /\ i = rx.queue[1] /\ rx'.queue = Tail(rx.queue) /\ Len(rx'.queue) = L - 1
        /\ \A k \in 1..(L - 1) : rx'.queue[k] = rx.queue[k + 1]
    BY <1>1, <1>5, <1>8
  <2>2. last' = i /\ front' = Feed(ready, typed[i])
    BY <1>3, <1>8
  <2> HIDE DEF i, L
  <2>3. /\ \A k \in 1..L : rx.queue[k] = Start + k /\ typed[Start + k] # "noise"
        /\ L <= Got
    BY <1>1 DEF Ring, L
  <2>4. i = Start + 1 /\ i \in 1..Len(typed) /\ last < i /\ typed[i] \in Char
    BY <1>8, TakenChar DEF i
  <2>5. i = last + 1 \/ Discarding(ready)
    BY <1>4, <2>4
  <2>6. FrontText(Feed(ready, typed[i]), typed, i)
    BY <1>1, <1>4, <2>4, <2>5, FeedText
  <2>7. Feed(ready, typed[i]) \in FrontType
    BY <1>4, <2>4, FeedFacts
  <2>8. Start' = i
    <3>1. Start' = Got - (L - 1)
      BY <1>6, <2>1 DEF Start
    <3> QED BY <1>1, <2>4, <3>1
  <2>9. Ring(typed, rx', Got, i)
    <3>1. /\ Len(rx'.queue) = L - 1 /\ L - 1 \in Nat /\ L - 1 <= Got /\ Got - (L - 1) = i /\ i <= i
      BY <1>1, <2>1, <2>3, <2>4
    <3>2. ASSUME NEW k \in 1..(L - 1) PROVE rx'.queue[k] = i + k /\ typed[i + k] # "noise"
      <4>1. k + 1 \in 1..L /\ Start + (k + 1) = i + k
        BY <1>1, <2>1, <2>4
      <4> QED BY <2>1, <2>3, <4>1
    <3> QED BY <1>5, <3>1, <3>2 DEF Ring
  <2>10. Ring(typed, rx, Got, Start)'
    BY <1>2, <1>6, <2>8, <2>9
  <2>11. Positions' /\ GapKnown'
    <3>1. Len(fifo') <= Len(typed') /\ (\A k \in 1..Len(fifo') : fifo'[k] = Got' + k)
      BY <1>2, <1>6 DEF DataInv, Positions
    <3>2. last' <= Start' /\ last' = Start'
      BY <1>1, <2>2, <2>4, <2>8
    <3> QED BY <2>10, <3>1, <3>2 DEF Positions, GapKnown
  <2>12. DataType'
    BY <1>1, <1>2, <1>5, <2>2, <2>4, <2>7 DEF DataInv, DataType
  <2>13. FrontText(front, typed, last)'
    BY <1>2, <2>2, <2>6
  <2> QED BY <2>11, <2>12, <2>13 DEF DataInv
<1> QED BY <1>7, <1>8

(* An event is handled.                                                    *)
LEMMA DataOfHandle ==
  ASSUME DataInv, HandleEvent
  PROVE  DataInv'
<1>1. front.pending_event # "NONE" /\ front' = Handle(front) /\ UNCHANGED <<typed, fifo, rx, last>>
  BY DEF HandleEvent, uart, driver
<1>2. front \in FrontType /\ typed \in Word /\ last \in 0..Len(typed) /\ FrontText(front, typed, last)
  BY DataNumbers DEF DataInv, DataType
<1>3. FrontText(Handle(front), typed, last)
  BY <1>1, <1>2, HandleText
<1>4. Handle(front) \in FrontType
  BY <1>2, HandleFacts
<1>5. ~Discarding(front)
  BY <1>1 DEF Discarding
<1>6. Got' = Got /\ Start' = Start
  BY <1>1 DEF Got, Start
<1>7. DataType'
  BY <1>1, <1>4 DEF DataInv, DataType
<1>8. Positions'
  BY <1>1, <1>6 DEF DataInv, Positions
<1>9. GapKnown'
  BY <1>1, <1>5, <1>6 DEF DataInv, GapKnown
<1>10. FrontText(front, typed, last)'
  BY <1>1, <1>3
<1> QED BY <1>7, <1>8, <1>9, <1>10 DEF DataInv

(* A step that leaves the input alone.                                     *)
LEMMA DataUnchanged ==
  ASSUME DataInv, UNCHANGED <<typed, fifo, rx, front, last>>
  PROVE  DataInv'
<1>1. Got' = Got /\ Start' = Start
  BY DEF Got, Start
<1>2. DataType' /\ Positions' /\ GapKnown'
  BY <1>1 DEF DataInv, DataType, Positions, GapKnown
<1> QED BY <1>2 DEF DataInv

(* The data invariant holds of every reachable state.                      *)
LEMMA DataHolds == Spec => []DataInv
<1>1. DataInv /\ [Next]_vars => DataInv'
  <2> SUFFICES ASSUME DataInv, [Next]_vars PROVE DataInv'
    OBVIOUS
  <2>1. ASSUME NEW c \in Alphabet \cup {"noise"}, Type(c) PROVE DataInv'
    BY <2>1, DataOfType
  <2>2. CASE Irq
    BY <2>2, DataOfIrq
  <2>3. CASE Take
    BY <2>3, DataOfTake
  <2>4. CASE HandleEvent
    BY <2>4, DataOfHandle
  <2>5. CASE Send
    BY <2>5, DataUnchanged DEF Send, driver, terminal
  <2>6. CASE Wake
    BY <2>6, DataUnchanged DEF Wake, uart, driver
  <2>7. CASE Flush
    BY <2>7, DataUnchanged DEF Flush, Write
  <2>8. CASE UNCHANGED vars
    BY <2>8, DataUnchanged DEF vars, uart, driver, terminal
  <2> QED BY <2>1, <2>2, <2>3, <2>4, <2>5, <2>6, <2>7, <2>8 DEF Next
<1> QED BY <1>1, DataInit, PTL DEF Spec

-----------------------------------------------------------------------------
(* What was typed since position m is what was typed between the ends.     *)
LEMMA BetweenSince ==
  ASSUME typed \in Word, last \in 1..Len(typed), NEW m \in 0..(last - 1), Since(typed, m, last - 1)
  PROVE  Between = SubSeq(typed, m + 1, last - 1) /\ "noise" \notin Range(Between)
<1> DEFINE ends == {i \in 1..(last - 1) : typed[i] \in Ends}
           n == last - 1
<1>1. n \in Nat /\ m \in 0..n /\ n <= Len(typed) /\ Len(typed) \in Nat
  BY DEF Word
<1>2. \A i \in ends : i <= m
  BY <1>1 DEF Since
<1>3. Between = SubSeq(typed, IF ends = {} THEN 1 ELSE Max(ends) + 1, n)
  BY DEF Between
<1>4. ASSUME m = 0 PROVE Between = SubSeq(typed, m + 1, n)
  <2>1. ends = {}
    BY <1>2, <1>4
  <2> HIDE DEF ends
  <2>2. m + 1 = 1
    BY <1>4
  <2> QED BY <1>3, <2>1, <2>2
<1>5. ASSUME m > 0 PROVE Between = SubSeq(typed, m + 1, n)
  <2>1. m \in ends
    BY <1>1, <1>5 DEF Since
  <2>2. \A i \in ends : i \in Int
    BY <1>1
  <2> HIDE DEF ends
  <2>3. Max(ends) = m
    <3>1. m \in ends /\ \A y \in ends : m >= y
      BY <1>2, <2>1, <2>2
    <3>2. \A x \in ends : (\A y \in ends : x >= y) => x = m
      BY <1>1, <1>2, <2>1, <2>2
    <3> QED BY <3>1, <3>2 DEF Max
  <2>4. ends # {}
    BY <2>1
  <2> QED BY <1>3, <2>3, <2>4
<1>6. Between = SubSeq(typed, m + 1, n)
  BY <1>1, <1>4, <1>5
<1>7. "noise" \notin Range(Between)
  <2> DEFINE s == SubSeq(typed, m + 1, n)
  <2>1. /\ \A k \in DOMAIN s : k \in 1..(n - m) /\ s[k] = typed[m + k]
    BY <1>1 DEF Word
  <2>2. \A k \in 1..(n - m) : typed[m + k] # "noise"
    BY <1>1 DEF Since
  <2> HIDE DEF s
  <2>3. "noise" \notin Range(s)
    BY <2>1, <2>2 DEF Range
  <2> QED BY <1>6, <2>3 DEF s
<1> QED BY <1>6, <1>7

(* Nothing is run across a gap: a line or packet the terminal accepts is   *)
(* all that was typed since the previous line end, whatever overflowed or  *)
(* was damaged and however losses and reads interleave, for every size of  *)
(* the FIFOs, of the ring, of a line and of a packet.                      *)
THEOREM SerialNoJoinedInput == Spec => []NoJoinedInput
<1>1. DataInv => NoJoinedInput
  <2> SUFFICES ASSUME DataInv, front.pending_event = "READY"
               PROVE  /\ "noise" \notin Range(Between)
                      /\ IF front.packet_mode
                         THEN front.input.digits = Between /\ Len(Between) = PacketDigits
                         ELSE front.line.bytes = Edited(Between)
    BY DEF NoJoinedInput
  <2>1. FrontText(front, typed, last) /\ front \in FrontType
        /\ typed \in Word /\ last \in 0..Len(typed) /\ Len(typed) \in Nat
    BY DataNumbers DEF DataInv, DataType
  <2>2. EndAt(typed, last)
    BY <2>1 DEF FrontText
  <2>3. last \in 1..Len(typed)
    BY <2>1, <2>2 DEF EndAt
  <2>4. CASE front.packet_mode
    <3>1. /\ PacketTyped(typed, last - 1, front.input.digits)
          /\ Len(front.input.digits) = PacketDigits
      BY <2>1, <2>4 DEF FrontText
    <3>2. PICK m \in 0..(last - 1) : /\ Since(typed, m, last - 1)
                                     /\ front.input.digits = SubSeq(typed, m + 1, last - 1)
      BY <3>1 DEF PacketTyped
    <3>3. Between = SubSeq(typed, m + 1, last - 1) /\ "noise" \notin Range(Between)
      BY <2>1, <2>3, <3>2, BetweenSince
    <3> QED BY <2>4, <3>1, <3>2, <3>3
  <2>5. CASE ~front.packet_mode
    <3>1. LineTyped(typed, last - 1, front.line.bytes)
      BY <2>1, <2>5 DEF FrontText
    <3>2. PICK m \in 0..(last - 1) : /\ Since(typed, m, last - 1)
                                     /\ front.line.bytes = Edited(SubSeq(typed, m + 1, last - 1))
      BY <3>1 DEF LineTyped
    <3>3. Between = SubSeq(typed, m + 1, last - 1) /\ "noise" \notin Range(Between)
      BY <2>1, <2>3, <3>2, BetweenSince
    <3> QED BY <2>5, <3>2, <3>3
  <2> QED BY <2>4, <2>5
<1> QED BY <1>1, DataHolds, PTL

-----------------------------------------------------------------------------
(* Who wakes whom.  While the terminal waits without a notification, with  *)
(* output left, the transmit interrupt is unmasked and is pending or still *)
(* to be raised; without, nothing is in the ring and no event waits.       *)

ControlType ==
  /\ tx \in 0..TxDepth /\ tx_raised \in BOOLEAN /\ tx_unmasked \in BOOLEAN /\ woken \in BOOLEAN
  /\ pc \in {"idle", "flush", "work", "last"} /\ step \in Nat
  /\ unsent \in 0..OutputSize /\ failed = FALSE

(* A terminal at work has no output left, and one that flushes has some.   *)
Owed ==
  /\ pc = "work" => unsent = 0
  /\ pc \in {"flush", "last"} => unsent > 0

(* Where the terminal waits.                                               *)
Waiting ==
  pc = "idle" /\ ~woken =>
    IF unsent > 0
    THEN tx_unmasked /\ (tx_raised \/ tx > TxLevel)
    ELSE rx.queue = <<>> /\ rx.lost = FALSE /\ front.pending_event = "NONE"

ControlInv == ControlType /\ Owed /\ Waiting

(* What the constants allow: a message fits the output, and so do the two  *)
(* units a byte may add; a full FIFO is above the transmit level.          *)
LEMMA Sizes ==
  /\ TxDepth \in Nat /\ TxLevel \in Nat /\ TxLevel < TxDepth
  /\ Chunk \in Nat /\ Chunk > 0 /\ StepBound \in Nat
  /\ Message \in Nat /\ Message > 0 /\ OutputSize \in Nat /\ OutputSize > Message
<1>1. \A c \in {MaxTyped, RxDepth, RingCapacity, ReadBound, TxDepth, Chunk, StepBound, Message} :
        c \in Nat \ {0}
  BY SerialAssumption
<1>2. TxDepth \in Nat \ {0} /\ Chunk \in Nat \ {0} /\ StepBound \in Nat \ {0} /\ Message \in Nat \ {0}
  BY <1>1
<1>3. TxLevel \in 0..(TxDepth - 1) /\ OutputSize \in Nat /\ OutputSize > Message
  BY SerialAssumption
<1> QED BY <1>2, <1>3

(* Output that is appended to none is kept, and stops nothing.             *)
LEMMA Appended ==
  ASSUME ControlInv, pc = "work", NEW n \in Nat, n <= OutputSize, append(n)
  PROVE  unsent' = n /\ failed' = FALSE
<1>1. unsent = 0 /\ failed = FALSE /\ OutputSize \in Nat
  BY Sizes DEF ControlInv, ControlType, Owed
<1>2. ~(unsent + n > OutputSize) /\ unsent + n = n
  BY <1>1
<1> QED BY <1>1, <1>2 DEF append

(* A round that ends with output left goes on to flush it; one that ends   *)
(* without may be the last.                                                *)
LEMMA RoundEnds ==
  ASSUME ControlInv, Round, failed' = FALSE, unsent' \in Nat
  PROVE  /\ step' \in Nat /\ pc' \in {"idle", "flush", "work", "last"}
         /\ pc' \in {"work", "idle"} => unsent' = 0
         /\ pc' \in {"flush", "last"} => unsent' > 0
<1>1. step' = step + 1 /\ step \in Nat /\ StepBound \in Nat
  BY Sizes DEF Round, ControlInv, ControlType
<1>2. pc' = IF step' < StepBound THEN IF unsent' = 0 THEN "work" ELSE "flush"
            ELSE IF unsent' = 0 THEN "idle" ELSE "last"
  BY DEF Round
<1> QED BY <1>1, <1>2

(* The driver takes all the output it is offered, or fills the UART and    *)
(* asks for the transmit interrupt.                                        *)
LEMMA WriteFacts ==
  ASSUME ControlInv, unsent > 0, Write
  PROVE  /\ tx' \in 0..TxDepth /\ unsent' \in 0..unsent
         /\ tx_unmasked' \in BOOLEAN /\ woken' \in BOOLEAN
         /\ ~woken' => unsent' > 0 /\ tx_unmasked' /\ tx' > TxLevel
<1> DEFINE count == IF unsent < Chunk THEN unsent ELSE Chunk
           sent == IF count < TxDepth - tx THEN count ELSE TxDepth - tx
<1>1. /\ tx' = tx + sent /\ unsent' = unsent - sent
      /\ tx_unmasked' = (tx_unmasked \/ sent < count) /\ woken' = (woken \/ sent > 0)
  BY DEF Write
<1>2. /\ tx \in 0..TxDepth /\ unsent \in Nat /\ unsent > 0 /\ OutputSize \in Nat
      /\ tx_unmasked \in BOOLEAN /\ woken \in BOOLEAN
  BY Sizes DEF ControlInv, ControlType
<1>3. count \in 1..unsent
  BY <1>2, Sizes
<1> HIDE DEF count
<1>4. /\ sent \in 0..count /\ sent <= TxDepth - tx
      /\ sent = 0 => sent < count /\ tx = TxDepth
  BY <1>2, <1>3, Sizes
<1> HIDE DEF sent
<1>5. tx' \in 0..TxDepth /\ unsent' \in 0..unsent
  BY <1>1, <1>2, <1>3, <1>4, Sizes
<1>6. tx_unmasked' \in BOOLEAN /\ woken' \in BOOLEAN
  BY <1>1
<1>7. ASSUME ~woken' PROVE unsent' > 0 /\ tx_unmasked' /\ tx' > TxLevel
  <2>1. ~(sent > 0)
    BY <1>1, <1>7
  <2>2. sent = 0
    BY <1>3, <1>4, <2>1
  <2>3. sent < count /\ tx = TxDepth
    BY <1>4, <2>2
  <2>4. tx_unmasked'
    BY <1>1, <2>3
  <2>5. tx' > TxLevel /\ unsent' > 0
    BY <1>1, <1>2, <2>2, <2>3, Sizes
  <2> QED BY <2>4, <2>5
<1> QED BY <1>5, <1>6, <1>7

(* The greeting is unsent at first.                                        *)
LEMMA ControlInit == Init => ControlInv
<1> SUFFICES ASSUME Init PROVE ControlInv
  OBVIOUS
<1>1. /\ tx = 0 /\ tx_raised = FALSE /\ tx_unmasked = FALSE /\ woken = FALSE
      /\ pc = "flush" /\ step = 0 /\ unsent = Message /\ failed = FALSE
  BY DEF Init
<1>2. tx \in 0..TxDepth /\ unsent \in 0..OutputSize /\ unsent > 0 /\ step \in Nat
  BY <1>1, Sizes
<1>3. ControlType
  BY <1>1, <1>2 DEF ControlType
<1>4. Owed /\ Waiting
  BY <1>1, <1>2 DEF Owed, Waiting
<1> QED BY <1>3, <1>4 DEF ControlInv

(* A step that touches none of it.                                         *)
LEMMA ControlUnchanged ==
  ASSUME ControlInv,
         UNCHANGED <<tx, tx_raised, tx_unmasked, woken, pc, step, unsent, failed, rx, front>>
  PROVE  ControlInv'
BY DEF ControlInv, ControlType, Owed, Waiting

(* The UART sends: it raises the interrupt where its level is passed.      *)
LEMMA ControlOfSend ==
  ASSUME ControlInv, Send
  PROVE  ControlInv'
<1>1. /\ tx > 0 /\ tx' = tx - 1 /\ tx_raised' = (tx_raised \/ tx' = TxLevel)
      /\ UNCHANGED <<tx_unmasked, woken, pc, step, unsent, failed, rx, front>>
  BY DEF Send, driver, terminal
<1>2. tx \in 0..TxDepth /\ TxDepth \in Nat /\ TxLevel \in Nat
  BY Sizes DEF ControlInv, ControlType
<1>3. tx' \in 0..TxDepth /\ (tx > TxLevel => tx' = TxLevel \/ tx' > TxLevel)
  BY <1>1, <1>2
<1>4. tx_raised \/ tx > TxLevel => tx_raised' \/ tx' > TxLevel
  BY <1>1, <1>3
<1>5. tx_raised' \in BOOLEAN
  BY <1>1
<1>6. ControlType'
  BY <1>1, <1>3, <1>5 DEF ControlInv, ControlType
<1>7. Owed' /\ Waiting'
  BY <1>1, <1>4 DEF ControlInv, Owed, Waiting
<1> QED BY <1>6, <1>7 DEF ControlInv

(* The interrupt handler wakes the terminal for whatever it finds.         *)
LEMMA ControlOfIrq ==
  ASSUME ControlInv, Irq, rx' \in RingType
  PROVE  ControlInv'
<1>1. /\ tx_raised' = (tx_raised /\ ~TxPending) /\ tx_unmasked' = (tx_unmasked /\ ~TxPending)
      /\ woken' = (woken \/ rx'.queue # <<>> \/ rx'.lost \/ TxPending)
      /\ UNCHANGED <<tx, pc, step, unsent, failed, front>>
  BY DEF Irq, terminal
<1>2. tx_raised' \in BOOLEAN /\ tx_unmasked' \in BOOLEAN /\ woken' \in BOOLEAN
  BY <1>1
<1>3. ControlType' /\ Owed'
  BY <1>1, <1>2 DEF ControlInv, ControlType, Owed
<1>4. Waiting'
  <2> SUFFICES ASSUME pc = "idle", ~woken'
               PROVE  IF unsent > 0
                      THEN tx_unmasked' /\ (tx_raised' \/ tx > TxLevel)
                      ELSE rx'.queue = <<>> /\ rx'.lost = FALSE /\ front.pending_event = "NONE"
    BY <1>1 DEF Waiting
  <2>1. ~woken /\ rx'.queue = <<>> /\ ~rx'.lost /\ ~TxPending
    BY <1>1
  <2>2. rx'.lost = FALSE
    BY <2>1 DEF RingType
  <2>3. IF unsent > 0 THEN tx_unmasked /\ (tx_raised \/ tx > TxLevel)
                      ELSE front.pending_event = "NONE"
    BY <2>1 DEF ControlInv, Waiting
  <2> QED BY <1>1, <2>1, <2>2, <2>3
<1> QED BY <1>3, <1>4 DEF ControlInv

(* The terminal wakes.                                                     *)
LEMMA ControlOfWake ==
  ASSUME ControlInv, Wake
  PROVE  ControlInv'
<1>1. /\ woken' = FALSE /\ step' = 0 /\ pc' = IF unsent = 0 THEN "work" ELSE "flush"
      /\ UNCHANGED <<tx, tx_raised, tx_unmasked, unsent, failed>>
  BY DEF Wake, uart, driver, ControlInv, ControlType
<1>2. unsent \in Nat
  BY Sizes DEF ControlInv, ControlType
<1>3. ControlType'
  BY <1>1 DEF ControlInv, ControlType
<1>4. Owed' /\ Waiting'
  BY <1>1, <1>2 DEF Owed, Waiting
<1> QED BY <1>3, <1>4 DEF ControlInv

(* Output is offered to the driver, at the head of a round or at the end.  *)
LEMMA ControlOfFlush ==
  ASSUME ControlInv, Flush
  PROVE  ControlInv'
<1>1. /\ pc \in {"flush", "last"} /\ Write /\ step' = step
      /\ pc' = IF pc = "flush" /\ unsent' = 0 THEN "work" ELSE "idle"
  BY DEF Flush
<1>2. unsent > 0
  BY <1>1 DEF ControlInv, Owed
<1>3. /\ tx' \in 0..TxDepth /\ unsent' \in 0..unsent
      /\ tx_unmasked' \in BOOLEAN /\ woken' \in BOOLEAN
      /\ ~woken' => unsent' > 0 /\ tx_unmasked' /\ tx' > TxLevel
  BY <1>1, <1>2, WriteFacts
<1>4. UNCHANGED <<tx_raised, rx, front, failed>>
  BY <1>1 DEF Write
<1>5. unsent' \in 0..OutputSize
  BY <1>3, Sizes DEF ControlInv, ControlType
<1>6. ControlType'
  BY <1>1, <1>3, <1>4, <1>5 DEF ControlInv, ControlType
<1>7. Owed' /\ Waiting'
  BY <1>1, <1>3 DEF Owed, Waiting
<1> QED BY <1>6, <1>7 DEF ControlInv

(* The answer to an event is output that is left to flush.                 *)
LEMMA ControlOfHandle ==
  ASSUME ControlInv, HandleEvent
  PROVE  ControlInv'
<1>1. /\ pc = "work" /\ append(Message) /\ Round
      /\ UNCHANGED <<tx, tx_raised, tx_unmasked, woken>>
  BY DEF HandleEvent, uart, driver
<1>2. unsent' = Message /\ failed' = FALSE
  <2>1. Message \in Nat /\ Message <= OutputSize
    BY Sizes
  <2> QED BY <1>1, <2>1, Appended
<1>3. unsent' \in 0..OutputSize /\ unsent' \in Nat /\ unsent' > 0
  BY <1>2, Sizes
<1>4. /\ step' \in Nat /\ pc' \in {"idle", "flush", "work", "last"}
      /\ pc' \in {"work", "idle"} => unsent' = 0
  BY <1>1, <1>2, <1>3, RoundEnds
<1>5. pc' \notin {"work", "idle"}
  BY <1>3, <1>4
<1>6. ControlType'
  BY <1>1, <1>2, <1>3, <1>4 DEF ControlInv, ControlType
<1>7. Owed' /\ Waiting'
  BY <1>3, <1>5 DEF Owed, Waiting
<1> QED BY <1>6, <1>7 DEF ControlInv

(* The terminal takes a byte, a gap, both or nothing.  It comes to rest    *)
(* only with nothing to say: an event is always echoed by a new row.       *)
LEMMA ControlOfTake ==
  ASSUME ControlInv, DataInv, Take
  PROVE  ControlInv'
<1> DEFINE ready == IF rx.lost THEN InputLost(front) ELSE front
           extra == IF rx.lost THEN 1 ELSE 0
           byte == typed[Head(rx.queue)]
           echo == IF Echo(ready, byte) = "nothing" THEN 0 ELSE 1
<1>1. /\ pc = "work" /\ front.pending_event = "NONE" /\ rx' = tcs_serial_take(rx)
      /\ woken' = (woken \/ rx'.queue # <<>>)
      /\ UNCHANGED <<tx, tx_raised, tx_unmasked>>
      /\ front \in FrontType /\ rx \in RingType
  BY DEF Take, uart, DataInv, DataType
<1>2. rx'.lost = FALSE /\ woken' \in BOOLEAN
  <2>1. rx'.lost = FALSE
    BY <1>1 DEF tcs_serial_take
  <2>2. woken' \in BOOLEAN
    BY <1>1
  <2> QED BY <2>1, <2>2
<1>3. 2 <= OutputSize
  BY Sizes
<1>4. CASE rx.queue = <<>>
  <2>1. /\ front' = ready /\ append(extra) /\ step' = step
        /\ pc' = IF failed' \/ unsent' = 0 THEN "idle" ELSE "last"
    BY <1>4 DEF Take
  <2>2. extra \in {0, 1} /\ (extra = 0 => front' = front)
    BY <2>1
  <2> HIDE DEF extra
  <2>3. unsent' = extra /\ failed' = FALSE
    <3>1. extra \in Nat /\ extra <= OutputSize
      BY <1>3, <2>2, Sizes
    <3> QED BY <1>1, <2>1, <3>1, Appended
  <2>4. /\ unsent' \in 0..OutputSize /\ pc' = IF unsent' = 0 THEN "idle" ELSE "last"
        /\ unsent' = 0 \/ unsent' > 0
    BY <1>3, <2>1, <2>2, <2>3, Sizes
  <2>5. rx'.queue = <<>>
    BY <1>1, <1>4 DEF tcs_serial_take
  <2>6. ControlType'
    BY <1>1, <1>2, <2>1, <2>3, <2>4 DEF ControlInv, ControlType
  <2>7. Owed'
    BY <2>4 DEF Owed
  <2>8. Waiting'
    BY <1>1, <1>2, <2>2, <2>3, <2>4, <2>5 DEF Waiting
  <2> QED BY <2>6, <2>7, <2>8 DEF ControlInv
<1>5. CASE rx.queue # <<>>
  <2>1. front' = Feed(ready, byte) /\ append(extra + echo) /\ Round
    BY <1>5 DEF Take
  <2>2. extra \in {0, 1} /\ echo \in {0, 1}
    OBVIOUS
  <2>3. ready \in FrontType
    BY <1>1, LostFacts
  <2>4. byte \in Char
    BY <1>5, TakenChar
  <2>5. front'.pending_event # "NONE" => echo = 1
    <3>1. Feed(ready, byte).pending_event # "NONE" => Echo(ready, byte) = "row"
      <4> HIDE DEF ready, byte
      <4> QED BY <2>3, <2>4, EchoOfEvent
    <3> QED BY <2>1, <3>1
  <2> HIDE DEF ready, extra, byte, echo
  <2>6. unsent' = extra + echo /\ failed' = FALSE
    <3> DEFINE n == extra + echo
    <3>1. n \in Nat /\ n <= OutputSize /\ append(n)
      BY <1>3, <2>1, <2>2, Sizes
    <3> HIDE DEF n
    <3>2. unsent' = n /\ failed' = FALSE
      BY <1>1, <3>1, Appended
    <3> QED BY <3>2 DEF n
  <2>7. unsent' \in Nat /\ unsent' \in 0..OutputSize /\ (unsent' = 0 => echo = 0)
    BY <1>3, <2>2, <2>6, Sizes
  <2>8. /\ step' \in Nat /\ pc' \in {"idle", "flush", "work", "last"}
        /\ pc' \in {"work", "idle"} => unsent' = 0
        /\ pc' \in {"flush", "last"} => unsent' > 0
    BY <2>1, <2>6, <2>7, RoundEnds
  <2>9. ControlType'
    BY <1>1, <1>2, <2>6, <2>7, <2>8 DEF ControlInv, ControlType
  <2>10. Owed'
    BY <2>8 DEF Owed
  <2>11. Waiting'
    <3> SUFFICES ASSUME pc' = "idle", ~woken'
                 PROVE  unsent' = 0 /\ rx'.queue = <<>> /\ front'.pending_event = "NONE"
      BY <1>2 DEF Waiting
    <3>1. unsent' = 0
      BY <2>8
    <3>2. front'.pending_event = "NONE"
      BY <2>5, <2>7, <3>1
    <3> QED BY <1>1, <3>1, <3>2
  <2> QED BY <2>9, <2>10, <2>11 DEF ControlInv
<1> QED BY <1>4, <1>5

(* The control invariant holds of every reachable state.                   *)
LEMMA ControlHolds == Spec => []ControlInv
<1>1. ControlInv /\ DataInv /\ DataInv' /\ [Next]_vars => ControlInv'
  <2> SUFFICES ASSUME ControlInv, DataInv, DataInv', [Next]_vars PROVE ControlInv'
    OBVIOUS
  <2>1. ASSUME NEW c \in Alphabet \cup {"noise"}, Type(c) PROVE ControlInv'
    BY <2>1, ControlUnchanged DEF Type, driver, terminal
  <2>2. CASE Irq
    <3>1. rx' \in RingType
      BY DEF DataInv, DataType
    <3> QED BY <2>2, <3>1, ControlOfIrq
  <2>3. CASE Take
    BY <2>3, ControlOfTake
  <2>4. CASE HandleEvent
    BY <2>4, ControlOfHandle
  <2>5. CASE Send
    BY <2>5, ControlOfSend
  <2>6. CASE Wake
    BY <2>6, ControlOfWake
  <2>7. CASE Flush
    BY <2>7, ControlOfFlush
  <2>8. CASE UNCHANGED vars
    BY <2>8, ControlUnchanged DEF vars, uart, driver, terminal
  <2> QED BY <2>1, <2>2, <2>3, <2>4, <2>5, <2>6, <2>7, <2>8 DEF Next
<1> QED BY <1>1, ControlInit, DataHolds, PTL DEF Spec

(* No wake-up is lost: a terminal that waits without a notification has    *)
(* not failed and owes nothing, or, with output left, is sure to be woken, *)
(* however interrupts, calls and wake-ups interleave and whatever the      *)
(* sizes of the FIFOs, of a chunk and of a message that fits the output.   *)
THEOREM SerialNoLostWakeup == Spec => []NoLostWakeup
<1>1. DataInv /\ ControlInv => NoLostWakeup
  <2> SUFFICES ASSUME DataInv, ControlInv PROVE NoLostWakeup
    OBVIOUS
  <2>1. rx \in RingType /\ unsent \in Nat /\ failed = FALSE
    BY Sizes DEF DataInv, DataType, ControlInv, ControlType
  <2>2. rx.queue = <<>> /\ rx.lost = FALSE => rx = [queue |-> <<>>, lost |-> FALSE]
    BY <2>1 DEF RingType
  <2> QED BY <2>1, <2>2 DEF ControlInv, Waiting, NoLostWakeup
<1> QED BY <1>1, DataHolds, ControlHolds, PTL

-----------------------------------------------------------------------------
(***************************************************************************)
(* Editor keeps ExactText, SeenIsRun and DecimalExact.                     *)
(*                                                                         *)
(* While a line or a packet is being entered its buffer is the typed text  *)
(* as edited, unless some prefix of that text could not be accepted        *)
(* (EntryInv), and the row of the screen is the buffer cell by cell        *)
(* (RowInv).  Both are lost between an end and its handling, which is why  *)
(* the invariants speak of the text since the last end.                    *)
(***************************************************************************)

(* The text of the line being entered: an end starts it anew.              *)

TextType == Seq(Char \cup {"lost"})

Current == IF Ended THEN <<>> ELSE text

(* One character, or a gap, is noted at the end of the current text.       *)
LEMMA NotedFacts ==
  ASSUME text \in TextType, NEW c \in Char \cup {"lost"}
  PROVE  /\ Current \in TextType /\ Noted(c) = Append(Current, c) /\ Noted(c) \in TextType
         /\ Noted(c) # <<>> /\ Last(Noted(c)) = c /\ Front(Noted(c)) = Current
<1>1. Current \in TextType /\ Noted(c) = Append(Current, c)
  <2>1. CASE Ended
    <3>1. Current = <<>> /\ Noted(c) = <<c>>
      BY <2>1 DEF Current, Noted
    <3> QED BY <3>1 DEF TextType
  <2>2. CASE ~Ended
    BY <2>2 DEF Current, Noted
  <2> QED BY <2>1, <2>2
<1> DEFINE s == Current
           t == Append(s, c)
<1> HIDE DEF s
<1>2. s \in TextType
  BY <1>1 DEF s
<1>3. t \in TextType /\ t # <<>> /\ Len(t) = Len(s) + 1 /\ Len(s) \in Nat
  BY <1>2 DEF TextType
<1>4. Last(t) = c
  BY <1>2, <1>3 DEF Last, TextType
<1>5. Front(t) = s
  <2>1. Front(t) = SubSeq(t, 1, Len(s))
    BY <1>3 DEF Front
  <2> QED BY <1>2, <2>1 DEF TextType
<1> QED BY <1>1, <1>3, <1>4, <1>5 DEF s

(* All but the last.                                                       *)
LEMMA FrontFacts ==
  ASSUME NEW C, NEW t \in Seq(C), t # <<>>
  PROVE  /\ Front(t) \in Seq(C) /\ Len(Front(t)) = Len(t) - 1
         /\ \A i \in 1..(Len(t) - 1) : Front(t)[i] = t[i]
<1>1. Len(t) - 1 \in Nat /\ Len(t) - 1 <= Len(t) /\ Len(t) \in Nat
  OBVIOUS
<1> DEFINE n == Len(t) - 1
<1>2. n \in Nat /\ n <= Len(t)
  BY <1>1
<1> HIDE DEF n
<1>3. /\ SubSeq(t, 1, n) \in Seq(C) /\ Len(SubSeq(t, 1, n)) = n
      /\ \A i \in 1..n : SubSeq(t, 1, n)[i] = t[i]
  BY <1>1, <1>2
<1> QED BY <1>3 DEF Front, n

(* An acceptable line stays one as long as every character is legal and    *)
(* leaves room.                                                            *)
LEMMA LineAcceptableAppend ==
  ASSUME NEW s \in TextType, NEW c \in Char \cup {"lost"}
  PROVE  LineAcceptable(Append(s, c)) <=>
           /\ LineAcceptable(s) /\ c \notin Illegal \cup {"lost"}
           /\ Len(Edited(Append(s, c))) <= LineMax
<1> DEFINE t == Append(s, c)
           N == Len(s)
<1>1. /\ N \in Nat /\ Len(t) = N + 1 /\ DOMAIN t = 1..(N + 1) /\ DOMAIN s = 1..N
      /\ t[N + 1] = c /\ \A i \in 1..N : t[i] = s[i]
  BY DEF TextType
<1>2. ASSUME NEW n \in 0..N PROVE SubSeq(t, 1, n) = SubSeq(s, 1, n)
  BY DEF TextType
<1>3. SubSeq(t, 1, N + 1) = t
  BY DEF TextType
<1> HIDE DEF t, N
<1>4. (\A i \in DOMAIN t : t[i] \notin Illegal \cup {"lost"}) <=>
        /\ \A i \in DOMAIN s : s[i] \notin Illegal \cup {"lost"}
        /\ c \notin Illegal \cup {"lost"}
  BY <1>1
<1>5. (\A n \in 0..Len(t) : Len(Edited(SubSeq(t, 1, n))) <= LineMax) <=>
        /\ \A n \in 0..N : Len(Edited(SubSeq(s, 1, n))) <= LineMax
        /\ Len(Edited(t)) <= LineMax
  <2>1. \A n \in 0..Len(t) : n \in 0..N \/ n = N + 1
    BY <1>1
  <2>2. N + 1 \in 0..Len(t) /\ 0..N \subseteq 0..Len(t)
    BY <1>1
  <2> QED BY <1>1, <1>2, <1>3, <2>1, <2>2
<1> QED BY <1>4, <1>5 DEF LineAcceptable, t, N

(* The empty line is acceptable; what is acceptable fits when edited.      *)
LEMMA LineAcceptableFacts ==
  /\ LineAcceptable(<<>>)
  /\ \A s \in TextType : LineAcceptable(s) => Len(Edited(s)) <= LineMax
<1>1. LineAcceptable(<<>>)
  <2>1. \A n \in 0..Len(<<>>) : SubSeq(<<>>, 1, n) = <<>>
    OBVIOUS
  <2>2. Len(Edited(<<>>)) <= LineMax
    <3>1. Len(<<>>) = 0 /\ 0 <= LineMax
      BY InputAssumption
    <3> QED BY <3>1, EditedEmpty
  <2>3. DOMAIN <<>> = {}
    OBVIOUS
  <2> DEFINE none == <<>>
  <2>4. /\ DOMAIN none = {} /\ Len(Edited(none)) <= LineMax
        /\ \A n \in 0..Len(none) : SubSeq(none, 1, n) = none
    BY <2>1, <2>2, <2>3
  <2> HIDE DEF none
  <2>5. LineAcceptable(none)
    BY <2>4 DEF LineAcceptable
  <2> QED BY <2>5 DEF none
<1>2. ASSUME NEW s \in TextType, LineAcceptable(s) PROVE Len(Edited(s)) <= LineMax
  <2>1. Len(s) \in 0..Len(s) /\ SubSeq(s, 1, Len(s)) = s
    BY DEF TextType
  <2>2. Len(Edited(SubSeq(s, 1, Len(s)))) <= LineMax
    BY <1>2, <2>1 DEF LineAcceptable
  <2> QED BY <2>1, <2>2
<1> QED BY <1>1, <1>2

(* The line being entered is the current text as edited, and refused if    *)
(* and only if the text is not acceptable.                                 *)
LineEntry(l, s) ==
  /\ LineAcceptable(s) <=> ~OpenRejected(l)
  /\ ~OpenRejected(l) => OpenBytes(l) = Edited(s)

(* One byte into the line editor.                                          *)
LEMMA LineEntryStep ==
  ASSUME NEW s \in TextType, NEW c \in Char, NEW l \in LineType, NEW r, NEW e,
         LineFeedCases(l, c, r, e), LineEntry(l, s), l.previous_cr => s = <<>>
  PROVE  /\ c \notin Ends => e = "NONE" /\ LineEntry(r, Append(s, c)) /\ ~r.previous_cr
         /\ c \in Ends /\ e = "NONE" =>
              c = "lf" /\ s = <<>> /\ LineEntry(r, <<>>) /\ ~r.previous_cr
         /\ e # "NONE" => OpenBytes(r) = <<>> /\ ~OpenRejected(r)
         /\ e \in {"READY", "REJECTED"} =>
              (e = "READY" <=> LineAcceptable(s)) /\ (e = "READY" => r.bytes = Edited(s))
<1> DEFINE kept == OpenBytes(l)
           bad == OpenRejected(l)
           skipped == c = "lf" /\ l.previous_cr
<1>1. (LineAcceptable(s) <=> ~bad) /\ (~bad => kept = Edited(s))
  BY DEF LineEntry
<1> USE DEF LineFeedCases, Ends, Delimiter
<1>2. CASE skipped
  <2>1. e = "NONE" /\ ~r.completed /\ r.bytes = kept /\ (r.rejected <=> bad) /\ ~r.previous_cr
    BY <1>2
  <2>2. LineEntry(r, s) /\ s = <<>> /\ c \in Ends
    BY <1>1, <1>2, <2>1 DEF LineEntry, OpenBytes, OpenRejected
  <2> QED BY <1>2, <2>1, <2>2
<1>3. CASE c = "intr"
  <2>1. e = "CANCELLED" /\ ~r.completed /\ r.bytes = <<>> /\ ~r.rejected
    BY <1>3
  <2> QED BY <1>3, <2>1 DEF OpenBytes, OpenRejected
<1>4. CASE c \in Delimiter /\ ~skipped
  <2>1. e = (IF bad THEN "REJECTED" ELSE "READY") /\ r.completed /\ r.bytes = kept
    BY <1>4
  <2>2. OpenBytes(r) = <<>> /\ ~OpenRejected(r)
    BY <2>1 DEF OpenBytes, OpenRejected
  <2> HIDE DEF kept, bad
  <2> QED BY <1>1, <1>4, <2>1, <2>2
<1>5. CASE c \notin Ends
  <2> DEFINE t == Append(s, c)
  <2>1. e = "NONE" /\ ~r.completed /\ ~r.previous_cr
    BY <1>5
  <2>2. /\ LineAcceptable(t) <=>
             LineAcceptable(s) /\ c \notin Illegal \cup {"lost"} /\ Len(Edited(t)) <= LineMax
        /\ c # "lost" /\ LineMax \in Nat
    <3>1. c # "lost"
      BY DEF Char, HexDigit, Digit, Range, Numerals, Space, Delimiter, Erase, Illegal, Names
    <3> QED BY <3>1, LineAcceptableAppend, InputAssumption
  <2>3. Edited(t) = Kept(Edited(s), c) /\ Edited(s) \in Seq(Char \cup {"lost"})
    BY EditedAppend, EditedType DEF TextType
  <2>4. Len(Edited(s)) \in Nat /\ (LineAcceptable(s) => Len(Edited(s)) <= LineMax)
    BY <2>3, LineAcceptableFacts
  <2> HIDE DEF t
  <2>5. LineEntry(r, t)
    <3> SUFFICES (LineAcceptable(t) <=> ~r.rejected) /\ (~r.rejected => r.bytes = Edited(t))
      BY <2>1 DEF LineEntry, OpenBytes, OpenRejected
    <3>1. CASE bad
      <4>1. r.rejected
        BY <1>5, <3>1
      <4> QED BY <1>1, <2>2, <3>1, <4>1
    <3>2. CASE ~bad /\ c \in Erase
      <4>1. ~r.rejected /\ r.bytes = IF kept = <<>> THEN <<>> ELSE Front(kept)
        BY <1>5, <3>2
      <4>2. r.bytes = Edited(t)
        BY <1>1, <2>3, <3>2, <4>1 DEF Kept
      <4>3. Len(Edited(t)) <= LineMax
        <5>1. CASE Edited(s) = <<>>
          <6>1. Edited(t) = Edited(s)
            BY <2>3, <3>2, <5>1 DEF Kept
          <6> QED BY <1>1, <2>4, <3>2, <6>1
        <5>2. CASE Edited(s) # <<>>
          <6>1. Edited(t) = SubSeq(Edited(s), 1, Len(Edited(s)) - 1)
            BY <2>3, <3>2, <5>2 DEF Kept, Front
          <6>2. Len(Edited(t)) = Len(Edited(s)) - 1
            BY <2>3, <5>2, <6>1, FrontFacts DEF Front
          <6> QED BY <1>1, <2>2, <2>4, <3>2, <6>2
        <5> QED BY <5>1, <5>2
      <4>4. c \notin Illegal
        BY <3>2 DEF Erase, Illegal
      <4> QED BY <1>1, <2>2, <3>2, <4>1, <4>2, <4>3, <4>4
    <3>3. CASE ~bad /\ c \notin Erase
      <4>1. Edited(t) = Append(Edited(s), c)
        BY <2>3, <3>3 DEF Kept
      <4>2. Len(Edited(t)) = Len(Edited(s)) + 1
        BY <2>3, <4>1
      <4>3. kept = Edited(s)
        BY <1>1, <3>3
      <4>4. IF c \in Illegal \/ Len(kept) = LineMax THEN r.rejected
            ELSE ~r.rejected /\ r.bytes = Append(kept, c)
        BY <1>5, <3>3
      <4>5. Len(Edited(t)) <= LineMax <=> Len(kept) # LineMax
        <5>1. Len(Edited(s)) <= LineMax
          BY <1>1, <2>4, <3>3
        <5> QED BY <2>2, <2>4, <4>2, <4>3, <5>1
      <4> HIDE DEF kept, bad
      <4> QED BY <1>1, <2>2, <3>3, <4>1, <4>3, <4>4, <4>5
    <3> QED BY <3>1, <3>2, <3>3
  <2> QED BY <1>5, <2>1, <2>5 DEF t
<1> QED BY <1>2, <1>3, <1>4, <1>5

(* What a packet may begin with.                                           *)
PacketOpen(s) == Len(s) <= PacketDigits /\ \A i \in DOMAIN s : s[i] \in HexDigit

(* The packet being entered is the current text, and refused if and only   *)
(* if the text is not the beginning of a packet.                           *)
PacketEntry(p, s) ==
  /\ PacketOpen(s) <=> ~p.rejected
  /\ ~p.rejected => p.digits = s

(* The beginnings of a packet, character by character.                     *)
LEMMA PacketOpenFacts ==
  /\ PacketOpen(<<>>)
  /\ \A s \in TextType, c \in Char \cup {"lost"} :
       PacketOpen(Append(s, c)) <=> PacketOpen(s) /\ c \in HexDigit /\ Len(s) < PacketDigits
  /\ \A s \in TextType : PacketAcceptable(s) <=> PacketOpen(s) /\ Len(s) = PacketDigits
<1>1. PacketDigits \in Nat
  BY InputAssumption
<1>2. PacketOpen(<<>>)
  <2>1. Len(<<>>) = 0 /\ DOMAIN <<>> = {}
    OBVIOUS
  <2>2. 0 <= PacketDigits
    BY <1>1
  <2> QED BY <2>1, <2>2 DEF PacketOpen
<1>3. ASSUME NEW s \in TextType, NEW c \in Char \cup {"lost"}
      PROVE  PacketOpen(Append(s, c)) <=> PacketOpen(s) /\ c \in HexDigit /\ Len(s) < PacketDigits
  <2> DEFINE t == Append(s, c)
             N == Len(s)
  <2>1. /\ N \in Nat /\ Len(t) = N + 1 /\ DOMAIN t = 1..(N + 1) /\ DOMAIN s = 1..N
        /\ t[N + 1] = c /\ \A i \in 1..N : t[i] = s[i]
    BY DEF TextType
  <2> HIDE DEF t, N
  <2>2. (\A i \in DOMAIN t : t[i] \in HexDigit) <=> (\A i \in DOMAIN s : s[i] \in HexDigit) /\ c \in HexDigit
    BY <2>1
  <2>3. N + 1 <= PacketDigits <=> N < PacketDigits
    BY <1>1, <2>1
  <2>4. N < PacketDigits => N <= PacketDigits
    BY <1>1, <2>1
  <2> QED BY <2>1, <2>2, <2>3, <2>4 DEF PacketOpen, t, N
<1>4. ASSUME NEW s \in TextType PROVE PacketAcceptable(s) <=> PacketOpen(s) /\ Len(s) = PacketDigits
  <2>1. Len(s) = PacketDigits => Len(s) <= PacketDigits
    BY <1>1
  <2> QED BY <2>1 DEF PacketAcceptable, PacketOpen
<1> QED BY <1>2, <1>3, <1>4

(* One byte into the packet input.                                         *)
LEMMA PacketEntryStep ==
  ASSUME NEW s \in TextType, NEW c \in Char, NEW p \in PacketType, ~p.completed, NEW r, NEW e,
         PacketFeedCases(p, c, r, e), PacketEntry(p, s), p.previous_cr => s = <<>>
  PROVE  /\ c \notin Ends => /\ e = "NONE" /\ PacketEntry(r, Append(s, c))
                             /\ ~r.previous_cr /\ ~r.completed
         /\ c \in Ends /\ e = "NONE" => /\ c = "lf" /\ s = <<>> /\ PacketEntry(r, <<>>)
                                        /\ ~r.previous_cr /\ ~r.completed
         /\ e \in {"READY", "REJECTED"} =>
              (e = "READY" <=> PacketAcceptable(s)) /\ (e = "READY" => r.digits = s)
<1> DEFINE skipped == c = "lf" /\ p.previous_cr
<1> USE DEF PacketFeedCases, Ends, Delimiter
<1>1. CASE skipped
  <2>1. /\ e = "NONE" /\ ~r.completed /\ r.digits = p.digits /\ r.rejected = p.rejected
        /\ ~r.previous_cr
    BY <1>1
  <2>2. PacketEntry(r, s) /\ s = <<>> /\ c \in Ends
    BY <1>1, <2>1 DEF PacketEntry
  <2> QED BY <1>1, <2>1, <2>2
<1>2. CASE c = "intr"
  <2>1. e = "CANCELLED"
    BY <1>2
  <2> QED BY <1>2, <2>1
<1>3. CASE c \in Delimiter /\ ~skipped
  <2>1. IF ~p.rejected /\ Len(p.digits) = PacketDigits
        THEN e = "READY" /\ r.digits = p.digits ELSE e = "REJECTED"
    BY <1>3
  <2>2. PacketAcceptable(s) <=> ~p.rejected /\ Len(p.digits) = PacketDigits
    BY PacketOpenFacts DEF PacketEntry
  <2>3. ~p.rejected => p.digits = s
    BY DEF PacketEntry
  <2> QED BY <1>3, <2>1, <2>2, <2>3
<1>4. CASE c \notin Ends
  <2> DEFINE t == Append(s, c)
  <2>1. e = "NONE" /\ ~r.completed /\ ~r.previous_cr
    BY <1>4
  <2>2. PacketOpen(t) <=> PacketOpen(s) /\ c \in HexDigit /\ Len(s) < PacketDigits
    BY PacketOpenFacts
  <2>3. PacketEntry(r, t)
    <3>1. CASE p.rejected
      BY <1>4, <2>2, <3>1 DEF PacketEntry
    <3>2. CASE ~p.rejected
      <4>1. PacketOpen(s) /\ p.digits = s
        BY <3>2 DEF PacketEntry
      <4>2. Len(s) < PacketDigits <=> ~(Len(s) >= PacketDigits)
        <5>1. Len(s) \in Nat /\ PacketDigits \in Nat
          BY InputAssumption DEF TextType
        <5> QED BY <5>1
      <4>3. IF c \notin HexDigit \/ Len(p.digits) >= PacketDigits THEN r.rejected
            ELSE ~r.rejected /\ r.digits = Append(p.digits, c)
        BY <1>4, <3>2
      <4> QED BY <2>2, <4>1, <4>2, <4>3 DEF PacketEntry
    <3> QED BY <3>1, <3>2
  <2> QED BY <1>4, <2>1, <2>3
<1> QED BY <1>1, <1>2, <1>3, <1>4

-----------------------------------------------------------------------------
(* What the terminal holds against the history, before an event and after  *)
(* it.  A line end is passed over only as an LF with nothing before it.    *)
Entering ==
  /\ Ended => text = <<"lf">>
  /\ ~term.packet_mode => /\ LineEntry(term.line, Current)
                          /\ term.line.previous_cr => text = <<>>
  /\ term.packet_mode => /\ PacketEntry(term.input, Current) /\ ~term.input.completed
                         /\ term.input.previous_cr => text = <<>>

EntryInv ==
  /\ term \in FrontType /\ text \in TextType
  /\ term.pending_event = "NONE" => Entering
  /\ term.pending_event # "NONE" /\ ~term.packet_mode =>
       OpenBytes(term.line) = <<>> /\ ~OpenRejected(term.line)
  /\ ExactText

(* Nothing has been typed.                                                 *)
LEMMA EntryStart ==
  ASSUME NEW t \in FrontType, t.pending_event = "NONE", text' = <<>>, term' = t,
         ~t.packet_mode => OpenBytes(t.line) = <<>> /\ ~OpenRejected(t.line),
         t.packet_mode => t.input.digits = <<>> /\ ~t.input.rejected /\ ~t.input.completed
  PROVE  EntryInv'
<1>1. ~Ended' /\ Current' = <<>> /\ text' \in TextType
  BY DEF Ended, Current, TextType
<1>2. ~t.packet_mode => LineEntry(t.line, <<>>)
  BY LineAcceptableFacts, EditedEmpty DEF LineEntry
<1>3. t.packet_mode => PacketEntry(t.input, <<>>)
  BY PacketOpenFacts DEF PacketEntry
<1>4. Entering'
  BY <1>1, <1>2, <1>3 DEF Entering
<1> QED BY <1>1, <1>4 DEF EntryInv, ExactText

(* A byte is fed.                                                          *)
LEMMA EntryOfType ==
  ASSUME EntryInv, NEW c \in Keys, TypeKey(c)
  PROVE  EntryInv'
<1> DEFINE f == Feed(term, c)
           e == f.pending_event
           s == Current
<1>1. c \in Char /\ term.pending_event = "NONE" /\ term' = f /\ text' = Noted(c)
  BY EditorAssumption DEF TypeKey
<1>2. term \in FrontType /\ text \in TextType /\ Entering
  BY <1>1 DEF EntryInv
<1>3. /\ s \in TextType /\ text' = Append(s, c) /\ text' \in TextType
      /\ text' # <<>> /\ Last(text') = c /\ Front(text') = s
  BY <1>1, <1>2, NotedFacts
<1>4. /\ f \in FrontType /\ f.packet_mode = term.packet_mode
      /\ term.packet_mode => PacketFeedCases(term.input, c, f.input, e)
      /\ ~term.packet_mode => LineFeedCases(term.line, c, f.line, e)
  BY <1>1, <1>2, FeedFacts
<1>5. term.line \in LineType /\ term.input \in PacketType
  BY <1>2 DEF FrontType
<1>6. text = <<>> => s = <<>>
  BY DEF Current
<1>7. (Ended' <=> c \in Ends) /\ Current' = IF c \in Ends THEN <<>> ELSE text'
  BY <1>3 DEF Ended, Current
<1> HIDE DEF f, s
<1>8. CASE ~term.packet_mode
  <2> DEFINE l == term.line
             r == f.line
  <2>1. LineEntry(l, s) /\ (l.previous_cr => s = <<>>)
    BY <1>2, <1>6, <1>8 DEF Entering, s
  <2>2. l \in LineType /\ LineFeedCases(l, c, r, e)
    BY <1>4, <1>5, <1>8
  <2> HIDE DEF l, r, e
  <2>3. /\ c \notin Ends => e = "NONE" /\ LineEntry(r, Append(s, c)) /\ ~r.previous_cr
        /\ c \in Ends /\ e = "NONE" =>
             c = "lf" /\ s = <<>> /\ LineEntry(r, <<>>) /\ ~r.previous_cr
        /\ e # "NONE" => OpenBytes(r) = <<>> /\ ~OpenRejected(r)
        /\ e \in {"READY", "REJECTED"} =>
             (e = "READY" <=> LineAcceptable(s)) /\ (e = "READY" => r.bytes = Edited(s))
    BY <1>1, <1>3, <2>1, <2>2, LineEntryStep
  <2>4. /\ ~term'.packet_mode /\ term'.line = r /\ term'.pending_event = e
        /\ term' \in FrontType
    BY <1>1, <1>4, <1>8 DEF r, e
  <2>5. c \in Ends /\ e = "NONE" => text' = <<"lf">>
    BY <1>3, <2>3
  <2>6. e = "NONE" => Entering'
    BY <1>3, <1>7, <2>3, <2>4, <2>5 DEF Entering
  <2>7. ExactText'
    BY <1>3, <1>7, <2>3, <2>4, <2>5 DEF ExactText
  <2> QED BY <1>3, <2>3, <2>4, <2>6, <2>7 DEF EntryInv
<1>9. CASE term.packet_mode
  <2> DEFINE p == term.input
             r == f.input
  <2>1. PacketEntry(p, s) /\ ~p.completed /\ (p.previous_cr => s = <<>>)
    BY <1>2, <1>6, <1>9 DEF Entering, s
  <2>2. p \in PacketType /\ PacketFeedCases(p, c, r, e)
    BY <1>4, <1>5, <1>9
  <2> HIDE DEF p, r, e
  <2>3. /\ c \notin Ends => /\ e = "NONE" /\ PacketEntry(r, Append(s, c))
                            /\ ~r.previous_cr /\ ~r.completed
        /\ c \in Ends /\ e = "NONE" => /\ c = "lf" /\ s = <<>> /\ PacketEntry(r, <<>>)
                                       /\ ~r.previous_cr /\ ~r.completed
        /\ e \in {"READY", "REJECTED"} =>
             (e = "READY" <=> PacketAcceptable(s)) /\ (e = "READY" => r.digits = s)
    BY <1>1, <1>3, <2>1, <2>2, PacketEntryStep
  <2>4. /\ term'.packet_mode /\ term'.input = r /\ term'.pending_event = e
        /\ term' \in FrontType
    BY <1>1, <1>4, <1>9 DEF r, e
  <2>5. c \in Ends /\ e = "NONE" => text' = <<"lf">>
    BY <1>3, <2>3
  <2>6. e = "NONE" => Entering'
    BY <1>3, <1>7, <2>3, <2>4, <2>5 DEF Entering
  <2>7. ExactText'
    BY <1>3, <1>7, <2>3, <2>4, <2>5 DEF ExactText
  <2> QED BY <1>3, <2>4, <2>6, <2>7 DEF EntryInv
<1> QED BY <1>8, <1>9

(* A gap is reported: what is entered is refused.                          *)
LEMMA EntryOfLose ==
  ASSUME EntryInv, Lose
  PROVE  EntryInv'
<1> DEFINE f == InputLost(term)
           s == Current
<1>1. term.pending_event = "NONE" /\ term' = f /\ text' = Noted("lost")
  BY DEF Lose
<1>2. term \in FrontType /\ text \in TextType
  BY DEF EntryInv
<1>3. /\ s \in TextType /\ text' = Append(s, "lost") /\ text' \in TextType
      /\ text' # <<>> /\ Last(text') = "lost"
  BY <1>1, <1>2, NotedFacts
<1>4. /\ f \in FrontType /\ f.packet_mode = term.packet_mode /\ f.pending_event = "NONE"
      /\ f.line.rejected /\ ~f.line.completed /\ ~f.line.previous_cr
      /\ term.packet_mode => f.input.rejected /\ ~f.input.completed /\ ~f.input.previous_cr
  BY <1>1, <1>2, LostFacts
<1>5. ~Ended' /\ Current' = text'
  BY <1>3 DEF Ended, Current, Ends, Delimiter
<1> HIDE DEF f, s
<1>6. ~LineAcceptable(text') /\ ~PacketOpen(text')
  <2>1. "lost" \notin HexDigit
    BY DEF HexDigit, Digit, Range, Numerals
  <2> QED BY <1>3, <2>1, LineAcceptableAppend, PacketOpenFacts
<1>7. LineEntry(f.line, text') /\ (term.packet_mode => PacketEntry(f.input, text'))
  BY <1>4, <1>6 DEF LineEntry, PacketEntry, OpenRejected
<1>8. Entering'
  BY <1>1, <1>4, <1>5, <1>7 DEF Entering
<1>9. ExactText'
  BY <1>5 DEF ExactText
<1> QED BY <1>1, <1>3, <1>4, <1>8, <1>9 DEF EntryInv

(* The entry invariant holds of every reachable state.                     *)
LEMMA EntryHolds == EditorSpec => []EntryInv
<1>1. EditorInit => EntryInv
  <2> SUFFICES ASSUME EditorInit PROVE EntryInv
    OBVIOUS
  <2>1. /\ ZeroFront \in FrontType /\ ZeroFront.pending_event = "NONE" /\ ~ZeroFront.packet_mode
        /\ ZeroFront.line = ZeroLine
    BY ZeroFacts DEF ZeroFront, FrontType, Event
  <2>2. term = ZeroFront /\ text = <<>>
    BY DEF EditorInit
  <2>3. ~Ended /\ Current = <<>> /\ text \in TextType
    BY <2>2 DEF Ended, Current, TextType
  <2>4. LineEntry(ZeroLine, <<>>)
    BY ZeroFacts, LineAcceptableFacts, EditedEmpty DEF LineEntry, OpenBytes, OpenRejected
  <2>5. Entering
    BY <2>1, <2>2, <2>3, <2>4 DEF Entering
  <2> QED BY <2>1, <2>2, <2>3, <2>5 DEF EntryInv, ExactText
<1>2. EntryInv /\ [EditorNext]_EditorVars => EntryInv'
  <2> SUFFICES ASSUME EntryInv, [EditorNext]_EditorVars PROVE EntryInv'
    OBVIOUS
  <2>1. ASSUME NEW c \in Keys, TypeKey(c) PROVE EntryInv'
    BY <2>1, EntryOfType
  <2>2. CASE Lose
    BY <2>2, EntryOfLose
  <2>3. CASE Answer
    <3> DEFINE t == Handle(term)
    <3>1. term.pending_event # "NONE" /\ term' = t /\ text' = <<>> /\ term \in FrontType
      BY <2>3 DEF Answer, EntryInv
    <3>2. /\ t \in FrontType /\ t.pending_event = "NONE"
          /\ term.packet_mode => /\ ~t.packet_mode /\ t.line.bytes = <<>>
                                 /\ ~t.line.rejected /\ ~t.line.completed
          /\ ~term.packet_mode => /\ t.line = term.line
                                  /\ t.packet_mode => /\ t.input.digits = <<>>
                                                      /\ ~t.input.rejected /\ ~t.input.completed
      BY <3>1, HandleFacts
    <3> HIDE DEF t
    <3>3. ~t.packet_mode => OpenBytes(t.line) = <<>> /\ ~OpenRejected(t.line)
      BY <3>1, <3>2 DEF EntryInv, OpenBytes, OpenRejected
    <3>4. t.packet_mode => t.input.digits = <<>> /\ ~t.input.rejected /\ ~t.input.completed
      BY <3>2
    <3> QED BY <3>1, <3>2, <3>3, <3>4, EntryStart
  <2>4. CASE UNCHANGED EditorVars
    BY <2>4 DEF EditorVars, EntryInv, Entering, Current, Ended, ExactText
  <2> QED BY <2>1, <2>2, <2>3, <2>4 DEF EditorNext
<1> QED BY <1>1, <1>2, PTL DEF EditorSpec

(* A finished line or packet is exactly what was typed since the previous  *)
(* one: accepted if and only if no byte of it was lost, refused or too     *)
(* much at any moment, whatever was erased later, and then handed over as  *)
(* edited; for every alphabet, line length and packet length.              *)
THEOREM EditorExactText == EditorSpec => []ExactText
<1>1. EntryInv => ExactText
  BY DEF EntryInv
<1> QED BY <1>1, EntryHolds, PTL

-----------------------------------------------------------------------------
(* What the screen shows of a text.                                        *)
Cell(c) == IF c = "tab" THEN "space" ELSE c
Cells(s) == [i \in DOMAIN s |-> Cell(s[i])]

(* A text is shown cell by cell.                                           *)
LEMMA CellsType ==
  ASSUME NEW s \in Seq(Char)
  PROVE  /\ Cells(s) \in Seq(Char) /\ Len(Cells(s)) = Len(s)
         /\ \A i \in 1..Len(s) : Cells(s)[i] = Cell(s[i])
<1>1. \A c \in Char : Cell(c) \in Char
  BY DEF Cell, Char, Space
<1>2. DOMAIN s = 1..Len(s) /\ Len(s) \in Nat /\ \A i \in 1..Len(s) : s[i] \in Char
  OBVIOUS
<1>3. Cells(s) = [i \in 1..Len(s) |-> Cell(s[i])]
  BY <1>2 DEF Cells
<1> DEFINE n == Len(s)
           f == [i \in 1..n |-> Cell(s[i])]
<1>4. f \in [1..n -> Char]
  BY <1>1, <1>2
<1> HIDE DEF n
<1>5. f \in Seq(Char) /\ Len(f) = n
  <2>1. n \in Nat /\ DOMAIN f = 1..n
    BY <1>2 DEF n
  <2> HIDE DEF f
  <2> QED BY <1>4, <2>1
<1> QED BY <1>2, <1>3, <1>5 DEF n

(* Nothing is shown of nothing, and another character takes one cell more. *)
LEMMA CellsAppend ==
  ASSUME NEW s \in Seq(Char), NEW c \in Char
  PROVE  Cells(<<>>) = <<>> /\ Cells(Append(s, c)) = Append(Cells(s), Cell(c))
<1>1. Cells(<<>>) = <<>>
  <2> DEFINE none == <<>>
  <2>1. none \in Seq(Char) /\ Len(none) = 0
    OBVIOUS
  <2> HIDE DEF none
  <2>2. Cells(none) \in Seq(Char) /\ Len(Cells(none)) = 0
    BY <2>1, CellsType
  <2> QED BY <2>2 DEF none
<1> DEFINE t == Append(s, c)
           u == Cells(s)
           v == Cells(t)
           w == Append(u, Cell(c))
<1>2. /\ t \in Seq(Char) /\ Len(t) = Len(s) + 1 /\ t[Len(s) + 1] = c /\ Len(s) \in Nat
      /\ \A i \in 1..Len(s) : t[i] = s[i]
  OBVIOUS
<1>3. u \in Seq(Char) /\ Len(u) = Len(s) /\ \A i \in 1..Len(s) : u[i] = Cell(s[i])
  BY CellsType
<1> HIDE DEF t, u
<1>4. v \in Seq(Char) /\ Len(v) = Len(t) /\ \A i \in 1..Len(t) : v[i] = Cell(t[i])
  BY <1>2, CellsType
<1>5. Cell(c) \in Char
  BY DEF Cell, Char, Space
<1>6. /\ w \in Seq(Char) /\ Len(w) = Len(s) + 1 /\ w[Len(s) + 1] = Cell(c)
      /\ \A i \in 1..Len(s) : w[i] = u[i]
  BY <1>2, <1>3, <1>5
<1> HIDE DEF v, w
<1>7. ASSUME NEW i \in 1..Len(v) PROVE v[i] = w[i]
  <2>1. i \in 1..Len(s) \/ i = Len(s) + 1
    BY <1>2, <1>4
  <2> QED BY <1>2, <1>3, <1>4, <1>6, <2>1
<1>8. v = w
  BY <1>2, <1>4, <1>6, <1>7, SeqEqual
<1> QED BY <1>1, <1>8 DEF t, u, v, w

(* A character taken back takes back its cell.                             *)
LEMMA CellsFront ==
  ASSUME NEW s \in Seq(Char), s # <<>>
  PROVE  Cells(s) # <<>> /\ Cells(Front(s)) = Front(Cells(s))
<1> DEFINE t == Front(s)
           u == Cells(s)
           v == Cells(t)
           w == Front(u)
<1>1. /\ t \in Seq(Char) /\ Len(t) = Len(s) - 1 /\ Len(s) \in Nat /\ Len(s) # 0
      /\ \A i \in 1..(Len(s) - 1) : t[i] = s[i]
  BY FrontFacts
<1>2. u \in Seq(Char) /\ Len(u) = Len(s) /\ \A i \in 1..Len(s) : u[i] = Cell(s[i])
  BY CellsType
<1> HIDE DEF t, u
<1>3. v \in Seq(Char) /\ Len(v) = Len(t) /\ \A i \in 1..Len(t) : v[i] = Cell(t[i])
  BY <1>1, CellsType
<1>4. u # <<>>
  BY <1>1, <1>2
<1>5. /\ w \in Seq(Char) /\ Len(w) = Len(u) - 1
      /\ \A i \in 1..(Len(u) - 1) : w[i] = u[i]
  BY <1>2, <1>4, FrontFacts
<1> HIDE DEF v, w
<1>6. ASSUME NEW i \in 1..Len(v) PROVE v[i] = w[i]
  <2>1. i \in 1..(Len(s) - 1) /\ i \in 1..Len(s)
    BY <1>1, <1>3
  <2> QED BY <1>1, <1>2, <1>3, <1>5, <2>1
<1>7. v = w
  BY <1>1, <1>2, <1>3, <1>5, <1>6, SeqEqual
<1> QED BY <1>4, <1>7 DEF t, u, v, w

(* The echo of a byte, by what the feed made of it.                        *)
LEMMA EchoFacts ==
  ASSUME NEW t \in FrontType, NEW byte \in Char
  PROVE  LET n == Feed(t, byte)
             long == Len(OpenBytes(t.line))
         IN /\ n.pending_event # "NONE" => Echo(t, byte) = "row"
            /\ n.pending_event = "NONE" /\ ~t.packet_mode /\ ~n.line.rejected =>
                 Echo(t, byte) = IF Len(n.line.bytes) < long THEN "back"
                                 ELSE IF Len(n.line.bytes) = long + 1 THEN Cell(byte) ELSE "nothing"
            /\ n.pending_event = "NONE" /\ t.packet_mode =>
                 Echo(t, byte) = IF Len(n.input.digits) = Len(t.input.digits) + 1
                                 THEN byte ELSE "nothing"
<1> DEFINE n == Feed(t, byte)
           long == Len(OpenBytes(t.line))
<1>1. n.pending_event # "NONE" => Echo(t, byte) = "row"
  BY EchoOfEvent
<1>2. ASSUME ~t.packet_mode, n.pending_event = "NONE", ~n.line.rejected
      PROVE  Echo(t, byte) = IF Len(n.line.bytes) < long THEN "back"
                             ELSE IF Len(n.line.bytes) = long + 1 THEN Cell(byte) ELSE "nothing"
  <2> DEFINE f == tcs_line_feed(t.line, byte)
             length == IF t.line.completed THEN 0 ELSE Len(t.line.bytes)
  <2>1. n.line = f.state /\ n.pending_event = f.event
    BY <1>2 DEF Feed, FrontType
  <2>2. Echo(t, byte) = tcs_terminal_input(t.line, byte)
    BY <1>2 DEF Echo
  <2>3. long = length /\ length \in Nat
    BY DEF OpenBytes, FrontType, LineType
  <2>4. Len(f.state.bytes) \in Nat
    <3>1. LineFeedCases(t.line, byte, f.state, f.event)
      BY LineFeed DEF FrontType
    <3> HIDE DEF f
    <3> QED BY <3>1 DEF LineFeedCases, LineType
  <2>5. f.event = "NONE" /\ ~f.state.rejected
    BY <1>2, <2>1
  <2>6. CASE Len(f.state.bytes) < length
    BY <2>1, <2>2, <2>3, <2>5, <2>6 DEF tcs_terminal_input
  <2>7. CASE Len(f.state.bytes) = length + 1
    BY <2>1, <2>2, <2>3, <2>5, <2>7 DEF tcs_terminal_input, Cell
  <2>8. CASE ~(Len(f.state.bytes) < length) /\ Len(f.state.bytes) # length + 1
    BY <2>1, <2>2, <2>3, <2>5, <2>8 DEF tcs_terminal_input
  <2> QED BY <2>6, <2>7, <2>8
<1>3. ASSUME t.packet_mode, n.pending_event = "NONE"
      PROVE  Echo(t, byte) = IF Len(n.input.digits) = Len(t.input.digits) + 1
                             THEN byte ELSE "nothing"
  <2> DEFINE f == tcs_signed_feed(t.input, byte)
  <2>1. n.input = f.state /\ n.pending_event = f.event
    BY <1>3 DEF Feed, FrontType
  <2>2. Echo(t, byte) = SignedEcho(t.input, byte)
    BY <1>3 DEF Echo
  <2> QED BY <1>3, <2>1, <2>2 DEF SignedEcho
<1> QED BY <1>1, <1>2, <1>3

(* The row shows what is being entered, unless that was refused; an event  *)
(* leaves the row empty.                                                   *)
RowInv ==
  /\ term.pending_event = "NONE" /\ ~term.packet_mode /\ ~OpenRejected(term.line) =>
       row = Cells(OpenBytes(term.line))
  /\ term.pending_event = "NONE" /\ term.packet_mode /\ ~term.input.rejected =>
       row = Cells(term.input.digits)
  /\ term.pending_event # "NONE" => row = <<>>
  /\ SeenIsRun

(* A byte that is fed to the line is shown, and one taken back is not.     *)
LEMMA RowOfLine ==
  ASSUME NEW l \in LineType, NEW c \in Char, NEW r, LineFeedCases(l, c, r, "NONE"),
         NEW old, NEW new, NEW echo,
         ~OpenRejected(l) => old = Cells(OpenBytes(l)),
         ~r.rejected => echo = IF Len(r.bytes) < Len(OpenBytes(l)) THEN "back"
                               ELSE IF Len(r.bytes) = Len(OpenBytes(l)) + 1 THEN Cell(c)
                               ELSE "nothing",
         new = CASE echo = "nothing" -> old
                 [] echo = "row" -> <<>>
                 [] echo = "back" -> IF old = <<>> THEN old ELSE Front(old)
                 [] OTHER -> Append(old, echo),
         ~OpenRejected(r)
  PROVE  new = Cells(OpenBytes(r))
<1> DEFINE kept == OpenBytes(l)
           bad == OpenRejected(l)
           skipped == c = "lf" /\ l.previous_cr
<1>1. kept \in Seq(Char) /\ Len(kept) \in Nat
  BY DEF OpenBytes, LineType
<1>2. Cell(c) \notin {"nothing", "row", "back"}
  BY DEF Cell, Char, HexDigit, Digit, Range, Numerals, Space, Delimiter, Erase, Illegal, Names
<1> USE DEF LineFeedCases, Ends, Delimiter
<1>3. c # "intr" /\ (c \in Delimiter => skipped) /\ ~r.completed /\ (r.rejected <=> FALSE)
  <2>1. c # "intr"
    OBVIOUS
  <2>2. c \in Delimiter => skipped
    OBVIOUS
  <2>3. ~r.completed
    BY <2>1, <2>2
  <2> QED BY <2>1, <2>2, <2>3 DEF OpenRejected
<1>4. ~bad
  <2>1. CASE skipped
    BY <1>3, <2>1
  <2>2. CASE c \notin Ends
    BY <1>3, <2>2
  <2> QED BY <1>3, <2>1, <2>2
<1>5. old = Cells(kept) /\ OpenBytes(r) = r.bytes /\ ~r.rejected
  BY <1>3, <1>4 DEF OpenBytes
<1> HIDE DEF bad
<1>6. CASE skipped
  <2>1. r.bytes = kept
    BY <1>6
  <2>2. echo = "nothing"
    <3> HIDE DEF kept
    <3> QED BY <1>1, <1>5, <2>1 DEF kept
  <2> QED BY <1>5, <2>1, <2>2
<1>7. CASE c \in Erase
  <2>1. r.bytes = IF kept = <<>> THEN <<>> ELSE Front(kept)
    BY <1>4, <1>7 DEF Erase, bad
  <2>2. CASE kept = <<>>
    <3>1. r.bytes = kept
      BY <2>1, <2>2
    <3>2. echo = "nothing"
      <4> HIDE DEF kept
      <4> QED BY <1>1, <1>5, <3>1 DEF kept
    <3> QED BY <1>5, <3>1, <3>2
  <2>3. CASE kept # <<>>
    <3> HIDE DEF kept
    <3>1. r.bytes = Front(kept) /\ Len(Front(kept)) = Len(kept) - 1
      BY <1>1, <2>1, <2>3, FrontFacts
    <3>2. Len(r.bytes) < Len(kept)
      BY <1>1, <3>1
    <3>3. echo = "back"
      BY <1>5, <3>2 DEF kept
    <3>4. old # <<>> /\ Cells(Front(kept)) = Front(old)
      BY <1>1, <1>5, <2>3, CellsFront
    <3>5. new = Front(old)
      BY <3>3, <3>4
    <3> QED BY <1>5, <3>1, <3>4, <3>5
  <2> QED BY <2>2, <2>3
<1>8. CASE c \notin Ends \cup Erase
  <2>1. r.bytes = Append(kept, c)
    BY <1>4, <1>5, <1>8 DEF bad
  <2> HIDE DEF kept
  <2>2. Len(r.bytes) = Len(kept) + 1
    BY <1>1, <2>1
  <2>3. ~(Len(r.bytes) < Len(kept))
    BY <1>1, <2>2
  <2>4. echo = Cell(c)
    BY <1>5, <2>2, <2>3 DEF kept
  <2>5. new = Append(old, Cell(c))
    BY <1>2, <2>4
  <2>6. Cells(Append(kept, c)) = Append(Cells(kept), Cell(c))
    BY <1>1, CellsAppend
  <2> QED BY <1>5, <2>1, <2>5, <2>6
<1> QED BY <1>3, <1>6, <1>7, <1>8

(* A digit that is fed to the packet is shown.                             *)
LEMMA RowOfPacket ==
  ASSUME NEW p \in PacketType, ~p.completed, NEW c \in Char, NEW r,
         PacketFeedCases(p, c, r, "NONE"), NEW old, NEW new, NEW echo,
         ~p.rejected => old = Cells(p.digits),
         echo = IF Len(r.digits) = Len(p.digits) + 1 THEN c ELSE "nothing",
         new = CASE echo = "nothing" -> old
                 [] echo = "row" -> <<>>
                 [] echo = "back" -> IF old = <<>> THEN old ELSE Front(old)
                 [] OTHER -> Append(old, echo),
         ~r.rejected
  PROVE  new = Cells(r.digits)
<1> DEFINE skipped == c = "lf" /\ p.previous_cr
<1>1. p.digits \in Seq(Char) /\ Len(p.digits) \in Nat
  BY DEF PacketType
<1> USE DEF PacketFeedCases, Ends, Delimiter
<1>2. c # "intr" /\ (c \in Delimiter => skipped)
  OBVIOUS
<1>3. CASE skipped
  <2>1. r.digits = p.digits /\ ~p.rejected
    BY <1>3
  <2>2. echo = "nothing"
    <3>1. Len(p.digits) # Len(p.digits) + 1
      BY <1>1
    <3> QED BY <2>1, <3>1
  <2> QED BY <2>1, <2>2
<1>4. CASE c \notin Ends
  <2>1. ~p.rejected /\ c \in HexDigit /\ r.digits = Append(p.digits, c)
    BY <1>4
  <2>2. Len(r.digits) = Len(p.digits) + 1
    <3> DEFINE d == p.digits
    <3>1. d \in Seq(Char)
      BY <1>1
    <3> HIDE DEF d
    <3>2. Len(Append(d, c)) = Len(d) + 1
      BY <3>1
    <3> QED BY <2>1, <3>2 DEF d
  <2>3. c \notin {"nothing", "row", "back", "tab"}
    BY <2>1 DEF HexDigit, Digit, Range, Numerals
  <2>4. new = Append(old, c) /\ Cell(c) = c
    BY <2>2, <2>3 DEF Cell
  <2>5. Cells(Append(p.digits, c)) = Append(Cells(p.digits), Cell(c))
    BY <1>1, CellsAppend
  <2> QED BY <2>1, <2>4, <2>5
<1> QED BY <1>2, <1>3, <1>4

(* A byte is fed: its echo keeps the row true.                             *)
LEMMA RowOfType ==
  ASSUME EntryInv, RowInv, NEW c \in Keys, TypeKey(c)
  PROVE  RowInv'
<1> DEFINE f == Feed(term, c)
           e == f.pending_event
           echo == Echo(term, c)
<1>1. /\ c \in Char /\ term.pending_event = "NONE" /\ term' = f
      /\ row' = CASE echo = "nothing" -> row
                  [] echo = "row" -> <<>>
                  [] echo = "back" -> IF row = <<>> THEN row ELSE Front(row)
                  [] OTHER -> Append(row, echo)
      /\ shown' = IF echo = "row" THEN row ELSE shown
  BY EditorAssumption DEF TypeKey
<1>2. term \in FrontType /\ term.line \in LineType /\ term.input \in PacketType /\ Entering
  BY <1>1 DEF EntryInv, FrontType
<1>3. /\ f \in FrontType /\ f.packet_mode = term.packet_mode
      /\ term.packet_mode => PacketFeedCases(term.input, c, f.input, e)
      /\ ~term.packet_mode => LineFeedCases(term.line, c, f.line, e)
  BY <1>1, <1>2, FeedFacts
<1>4. /\ e # "NONE" => echo = "row"
      /\ e = "NONE" /\ ~term.packet_mode /\ ~f.line.rejected =>
           echo = IF Len(f.line.bytes) < Len(OpenBytes(term.line)) THEN "back"
                  ELSE IF Len(f.line.bytes) = Len(OpenBytes(term.line)) + 1 THEN Cell(c)
                  ELSE "nothing"
      /\ e = "NONE" /\ term.packet_mode =>
           echo = IF Len(f.input.digits) = Len(term.input.digits) + 1 THEN c ELSE "nothing"
  BY <1>1, <1>2, EchoFacts
<1>5. /\ ~term.packet_mode /\ ~OpenRejected(term.line) => row = Cells(OpenBytes(term.line))
      /\ term.packet_mode /\ ~term.input.rejected => row = Cells(term.input.digits)
  BY <1>1 DEF RowInv
<1> HIDE DEF f, echo
<1>6. e # "NONE" => row' = <<>> /\ shown' = row
  BY <1>1, <1>4
<1>7. CASE ~term.packet_mode
  <2> DEFINE l == term.line
             r == f.line
  <2>1. l \in LineType /\ LineFeedCases(l, c, r, e)
    BY <1>2, <1>3, <1>7
  <2>2. ASSUME e = "NONE", ~OpenRejected(r) PROVE row' = Cells(OpenBytes(r))
    <3>1. LineFeedCases(l, c, r, "NONE")
      BY <2>1, <2>2
    <3>2. ~OpenRejected(l) => row = Cells(OpenBytes(l))
      BY <1>5, <1>7
    <3>3. ~r.rejected => echo = IF Len(r.bytes) < Len(OpenBytes(l)) THEN "back"
                                ELSE IF Len(r.bytes) = Len(OpenBytes(l)) + 1 THEN Cell(c)
                                ELSE "nothing"
      BY <1>4, <1>7, <2>2
    <3>4. row' = CASE echo = "nothing" -> row
                   [] echo = "row" -> <<>>
                   [] echo = "back" -> IF row = <<>> THEN row ELSE Front(row)
                   [] OTHER -> Append(row, echo)
      BY <1>1
    <3> HIDE DEF l, r, e
    <3> QED BY <1>1, <2>1, <2>2, <3>1, <3>2, <3>3, <3>4, RowOfLine
  <2>3. ASSUME e = "READY" PROVE shown' = Cells(r.bytes)
    <3>1. ~OpenRejected(l) /\ r.bytes = OpenBytes(l)
      BY <2>1, <2>3 DEF LineFeedCases, Ends, Delimiter
    <3> QED BY <1>5, <1>6, <1>7, <2>3, <3>1
  <2>4. SeenIsRun'
    BY <1>1, <1>3, <1>7, <2>3 DEF SeenIsRun, Cells, Cell
  <2> QED BY <1>1, <1>3, <1>6, <1>7, <2>2, <2>4 DEF RowInv
<1>8. CASE term.packet_mode
  <2> DEFINE p == term.input
             r == f.input
  <2>1. p \in PacketType /\ PacketFeedCases(p, c, r, e) /\ ~p.completed
    BY <1>2, <1>3, <1>8 DEF Entering
  <2>2. ASSUME e = "NONE", ~r.rejected PROVE row' = Cells(r.digits)
    <3>1. PacketFeedCases(p, c, r, "NONE")
      BY <2>1, <2>2
    <3>2. ~p.rejected => row = Cells(p.digits)
      BY <1>5, <1>8
    <3>3. echo = IF Len(r.digits) = Len(p.digits) + 1 THEN c ELSE "nothing"
      BY <1>4, <1>8, <2>2
    <3>4. row' = CASE echo = "nothing" -> row
                   [] echo = "row" -> <<>>
                   [] echo = "back" -> IF row = <<>> THEN row ELSE Front(row)
                   [] OTHER -> Append(row, echo)
      BY <1>1
    <3> HIDE DEF p, r, e
    <3> QED BY <1>1, <2>1, <2>2, <3>1, <3>2, <3>3, <3>4, RowOfPacket
  <2>3. ASSUME e = "READY" PROVE shown' = Cells(r.digits)
    <3>1. ~p.rejected /\ r.digits = p.digits
      BY <2>1, <2>3 DEF PacketFeedCases, Ends, Delimiter
    <3> QED BY <1>5, <1>6, <1>8, <2>3, <3>1
  <2>4. SeenIsRun'
    BY <1>1, <1>3, <1>8, <2>3 DEF SeenIsRun, Cells, Cell
  <2> QED BY <1>1, <1>3, <1>6, <1>8, <2>2, <2>4 DEF RowInv
<1> QED BY <1>7, <1>8

(* The row is true in every reachable state.                               *)
LEMMA RowHolds == EditorSpec => []RowInv
<1>1. EditorInit => RowInv
  <2> SUFFICES ASSUME EditorInit PROVE RowInv
    OBVIOUS
  <2>1. ZeroFront.pending_event = "NONE" /\ ~ZeroFront.packet_mode /\ ZeroFront.line = ZeroLine
    BY DEF ZeroFront
  <2>2. term = ZeroFront /\ row = <<>>
    BY DEF EditorInit
  <2>3. Cells(OpenBytes(ZeroLine)) = <<>>
    <3>1. OpenBytes(ZeroLine) = <<>>
      BY ZeroFacts DEF OpenBytes
    <3>2. <<>> \in Seq(Char) /\ "cr" \in Char
      BY DEF Char, Delimiter
    <3> QED BY <3>1, <3>2, CellsAppend
  <2> QED BY <2>1, <2>2, <2>3 DEF RowInv, SeenIsRun
<1>2. EntryInv /\ EntryInv' /\ RowInv /\ [EditorNext]_EditorVars => RowInv'
  <2> SUFFICES ASSUME EntryInv, EntryInv', RowInv, [EditorNext]_EditorVars PROVE RowInv'
    OBVIOUS
  <2>1. ASSUME NEW c \in Keys, TypeKey(c) PROVE RowInv'
    BY <2>1, RowOfType
  <2>2. CASE Lose
    <3>1. /\ term.pending_event = "NONE" /\ term' = InputLost(term) /\ term \in FrontType
      BY <2>2 DEF Lose, EntryInv
    <3>2. /\ term'.pending_event = "NONE" /\ term'.line.rejected /\ ~term'.line.completed
          /\ term'.packet_mode => term'.input.rejected
      BY <3>1, LostFacts
    <3> QED BY <3>2 DEF RowInv, SeenIsRun, OpenRejected
  <2>3. CASE Answer
    <3>1. /\ term.pending_event # "NONE" /\ term' = Handle(term) /\ text' = <<>> /\ row' = row
          /\ term \in FrontType
      BY <2>3 DEF Answer, EntryInv
    <3>2. term'.pending_event = "NONE" /\ row' = <<>>
      BY <3>1, HandleFacts DEF RowInv
    <3>3. Entering' /\ Current' = <<>>
      BY <3>1, <3>2 DEF EntryInv, Current, Ended
    <3>4. Cells(<<>>) = <<>>
      <4>1. <<>> \in Seq(Char) /\ "cr" \in Char
        BY DEF Char, Delimiter
      <4> QED BY <4>1, CellsAppend
    <3>5. ~term'.packet_mode /\ ~OpenRejected(term'.line) => OpenBytes(term'.line) = <<>>
      BY <3>3, EditedEmpty DEF Entering, LineEntry
    <3>6. term'.packet_mode /\ ~term'.input.rejected => term'.input.digits = <<>>
      BY <3>3 DEF Entering, PacketEntry
    <3> QED BY <3>2, <3>4, <3>5, <3>6 DEF RowInv, SeenIsRun
  <2>4. CASE UNCHANGED EditorVars
    BY <2>4 DEF EditorVars, RowInv, SeenIsRun
  <2> QED BY <2>1, <2>2, <2>3, <2>4 DEF EditorNext
<1> QED BY <1>1, <1>2, EntryHolds, PTL DEF EditorSpec

(* What the operator saw is what runs: the row on the screen when a line   *)
(* or packet is accepted is the accepted text, cell by cell, whatever was  *)
(* erased, refused, lost or cancelled before it.                           *)
THEOREM EditorSeenIsRun == EditorSpec => []SeenIsRun
<1>1. RowInv => SeenIsRun
  BY DEF RowInv
<1> QED BY <1>1, RowHolds, PTL

-----------------------------------------------------------------------------
(* Every line that is handed over reads and prints numbers exactly.        *)
LEMMA DecimalOfLine ==
  ASSUME term \in FrontType
  PROVE  DecimalExact
<1> DEFINE s == term.line.bytes
           canonical == IsNumeral(s) /\ (s[1] # "0" \/ Len(s) = 1) /\ Positional(s) <= UMAX
           asked(n) == \E i, j \in DOMAIN s :
                         /\ i < j
                         /\ IsNumeral(SubSeq(s, i + 1, j))
                         /\ Positional(SubSeq(s, i + 1, j)) = n
                         /\ \E r \in 1..(i - 1) :
                              /\ s[r] = "read"
                              /\ \A k \in (DOMAIN s) \ ({r} \cup ((i + 1)..j)) : s[k] \in Space
<1>1. s \in Seq(Char)
  BY DEF FrontType, LineType
<1> HIDE DEF s
<1>2. DOMAIN s = 1..Len(s) /\ Len(s) \in Nat
  BY <1>1
<1>3. number(s) = IF canonical THEN Positional(s) ELSE None
  BY <1>1, NumberExact DEF Canonical
<1>4. canonical => decimal[Positional(s)] = s
  BY <1>1, NumberExact DEF Canonical
<1>5. ASSUME NEW n \in 1..UMAX PROVE execute(s) = <<"CLIENT_READ", n>> <=> asked(n)
  <2>1. ASSUME execute(s) = <<"CLIENT_READ", n>> PROVE asked(n)
    <3>1. PICK r, i, j : AskedAt(s, r, i, j, n)
      BY <1>1, <2>1, ExecuteRead, ReadIsAsked
    <3>2. /\ i \in DOMAIN s /\ j \in DOMAIN s /\ i < j
          /\ IsNumeral(SubSeq(s, i + 1, j)) /\ Positional(SubSeq(s, i + 1, j)) = n
          /\ r \in 1..(i - 1) /\ s[r] = "read"
      BY <1>2, <3>1 DEF AskedAt
    <3>3. ASSUME NEW k \in (DOMAIN s) \ ({r} \cup ((i + 1)..j)) PROVE s[k] \in Space
      <4>1. k \in 1..Len(s) /\ k # r /\ ~(i < k /\ k <= j)
        BY <1>2, <3>2
      <4> QED BY <3>1, <4>1 DEF AskedAt
    <3> QED BY <3>2, <3>3
  <2>2. ASSUME asked(n) PROVE execute(s) = <<"CLIENT_READ", n>>
    <3>1. PICK i, j \in DOMAIN s :
            /\ i < j
            /\ IsNumeral(SubSeq(s, i + 1, j))
            /\ Positional(SubSeq(s, i + 1, j)) = n
            /\ \E r \in 1..(i - 1) :
                 /\ s[r] = "read"
                 /\ \A k \in (DOMAIN s) \ ({r} \cup ((i + 1)..j)) : s[k] \in Space
      BY <2>2
    <3>2. PICK r \in 1..(i - 1) :
            /\ s[r] = "read"
            /\ \A k \in (DOMAIN s) \ ({r} \cup ((i + 1)..j)) : s[k] \in Space
      BY <3>1
    <3>3. ASSUME NEW k \in 1..Len(s), k # r, ~(i < k /\ k <= j) PROVE s[k] \in Space
      <4>1. k \in (DOMAIN s) \ ({r} \cup ((i + 1)..j))
        BY <1>2, <3>3
      <4> QED BY <3>2, <4>1
    <3>4. AskedAt(s, r, i, j, n)
      BY <1>2, <3>1, <3>2, <3>3 DEF AskedAt
    <3> QED BY <1>1, <3>4, AskedIsRead, ExecuteRead
  <2> QED BY <2>1, <2>2
<1>6. execute(s) \notin {<<"CLIENT_READ", None>>, <<"CLIENT_READ", 0>>}
  <2>1. ~ReadText(Trim(s), None) /\ ~ReadText(Trim(s), 0)
    BY DEF ReadText
  <2> QED BY <2>1, ExecuteRead
<1> HIDE DEF canonical, asked
<1>7. (number(s) = IF canonical THEN Positional(s) ELSE None)
      /\ (canonical => decimal[Positional(s)] = s)
      /\ (\A n \in 1..UMAX : execute(s) = <<"CLIENT_READ", n>> <=> asked(n))
      /\ execute(s) \notin {<<"CLIENT_READ", None>>, <<"CLIENT_READ", 0>>}
  BY <1>3, <1>4, <1>5, <1>6
<1> USE DEF canonical, asked, s
<1> QED BY <1>7 DEF DecimalExact

(* Whatever has been typed, a finished line read as a number is its        *)
(* positional value, or refused when it is not canonical or above UMAX;    *)
(* printing it gives the line back; and the client is asked for n exactly  *)
(* by the lines that say "read" and a numeral of the value n, for every    *)
(* largest number, line length and alphabet.                               *)
THEOREM EditorDecimalExact == EditorSpec => []DecimalExact
<1>1. EntryInv => DecimalExact
  BY DecimalOfLine DEF EntryInv
<1> QED BY <1>1, EntryHolds, PTL
=============================================================================
