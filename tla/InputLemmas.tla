---------------------------- MODULE InputLemmas ----------------------------
(***************************************************************************)
(* Facts about the operators of Input, for every line length, packet size  *)
(* and UMAX: what one byte does to the line editor and to the packet       *)
(* input, and how a text is edited byte by byte.                           *)
(*                                                                         *)
(* Induction is by sets: SetInduction follows from the least element that  *)
(* a nonempty set of naturals has (WFMin).  Iteration gives the function a *)
(* recursive definition over 0..N chooses, its step being a function.      *)
(***************************************************************************)
EXTENDS Input, TLAPS, WellFoundedInduction, SequenceTheorems

(* A set that holds 0 and the successor of each of its numbers holds every *)
(* natural number.                                                         *)
LEMMA SetInduction ==
  ASSUME NEW T, 0 \in T, \A n \in Nat : n \in T => n + 1 \in T
  PROVE  Nat \subseteq T
<1> DEFINE B == Nat \ T
           R == OpToRel(<, Nat)
<1> SUFFICES ASSUME B # {} PROVE FALSE
  OBVIOUS
<1>1. IsWellFoundedOn(R, Nat)
  BY NatLessThanWellFounded, Zenon
<1>2. \A x, y \in Nat : x < y => <<x, y>> \in R
  BY DEF OpToRel
<1>3. B \subseteq Nat
  OBVIOUS
<1> HIDE DEF R, B
<1>4. PICK x \in B : \A y \in B : ~(<<y, x>> \in R)
  BY <1>1, <1>3, WFMin, Zenon
<1>5. x \in Nat /\ x \notin T
  BY <1>4 DEF B
<1>6. x - 1 \in Nat /\ x - 1 < x
  BY <1>5
<1>7. x - 1 \notin B
  BY <1>2, <1>4, <1>5, <1>6
<1>8. x - 1 \in T
  BY <1>6, <1>7 DEF B
<1>9. (x - 1) + 1 \in T
  BY <1>6, <1>8
<1> QED BY <1>5, <1>9

(* A step on S, taken N times, and the table of its results from base.     *)
IsStep(F, S, N) == F \in [S \X (1..N) -> S]
IsTable(g, F, S, N, base) ==
  /\ g \in [0..N -> S]
  /\ g[0] = base
  /\ \A k \in 1..N : g[k] = F[<<g[k - 1], k>>]

(* A step repeated from base has a table of its results.                   *)
LEMMA Iteration ==
  ASSUME NEW S, NEW base \in S, NEW N \in Nat, NEW F, IsStep(F, S, N)
  PROVE  \E g : IsTable(g, F, S, N, base)
<1> USE DEF IsStep
<1> DEFINE Table(n, g) == g[0] = base /\ \A k \in 1..n : g[k] = F[<<g[k - 1], k>>]
           T == {n \in Nat : n <= N => \E g \in [0..n -> S] : Table(n, g)}
<1>1. 0 \in T
  <2>1. [k \in 0..0 |-> base] \in [0..0 -> S] /\ Table(0, [k \in 0..0 |-> base])
    OBVIOUS
  <2> QED BY <2>1
<1>2. ASSUME NEW n \in Nat, n \in T PROVE n + 1 \in T
  <2> SUFFICES ASSUME n + 1 <= N PROVE \E g \in [0..(n + 1) -> S] : Table(n + 1, g)
    OBVIOUS
  <2>1. PICK g \in [0..n -> S] : Table(n, g)
    BY <1>2
  <2> DEFINE h == [k \in 0..(n + 1) |-> IF k = n + 1 THEN F[<<g[n], n + 1>>] ELSE g[k]]
  <2>2. F[<<g[n], n + 1>>] \in S
    <3>1. <<g[n], n + 1>> \in S \X (1..N)
      OBVIOUS
    <3> QED BY <3>1
  <2>3. h \in [0..(n + 1) -> S]
    BY <2>2
  <2>4. h[0] = base
    BY <2>1
  <2>5. ASSUME NEW k \in 1..(n + 1) PROVE h[k] = F[<<h[k - 1], k>>]
    <3>1. CASE k = n + 1
      <4>1. k - 1 = n /\ n \in 0..(n + 1) /\ n # n + 1 /\ k \in 0..(n + 1)
        BY <3>1
      <4>2. h[k] = F[<<g[n], n + 1>>] /\ h[n] = g[n]
        BY <3>1, <4>1
      <4> QED BY <3>1, <4>1, <4>2
    <3>2. CASE k # n + 1
      <4>1. k \in 1..n /\ k - 1 \in 0..n /\ k \in 0..n
        BY <3>2
      <4>2. g[k] = F[<<g[k - 1], k>>]
        BY <2>1, <4>1
      <4>3. h[k] = g[k] /\ h[k - 1] = g[k - 1]
        BY <4>1
      <4> QED BY <4>2, <4>3
    <3> QED BY <3>1, <3>2
  <2> QED BY <2>3, <2>4, <2>5
<1>3. N \in T
  BY <1>1, <1>2, SetInduction
<1> QED BY <1>3 DEF IsTable

(* Two tables of the same step agree wherever both are defined.            *)
LEMMA IterationUnique ==
  ASSUME NEW N \in Nat, NEW g, NEW h,
         g[0] = h[0],
         \A k \in 1..N : g[k - 1] = h[k - 1] => g[k] = h[k]
  PROVE  g[N] = h[N]
<1> DEFINE T == {n \in Nat : n <= N => g[n] = h[n]}
<1>1. 0 \in T
  OBVIOUS
<1>2. ASSUME NEW n \in Nat, n \in T PROVE n + 1 \in T
  <2> SUFFICES ASSUME n + 1 <= N PROVE g[n + 1] = h[n + 1]
    OBVIOUS
  <2>1. n + 1 \in 1..N /\ (n + 1) - 1 = n
    OBVIOUS
  <2> QED BY <1>2, <2>1
<1>3. N \in T
  BY <1>1, <1>2, SetInduction
<1> QED BY <1>3

-----------------------------------------------------------------------------
(* One character more keeps a text of characters of C one of them.         *)
LEMMA KeptType ==
  ASSUME NEW C, NEW t \in Seq(C), NEW c \in C
  PROVE  Kept(t, c) \in Seq(C)
<1>1. CASE t = <<>>
  BY <1>1 DEF Kept
<1>2. CASE t # <<>>
  <2>1. Len(t) - 1 \in Nat /\ Len(t) - 1 <= Len(t)
    BY <1>2
  <2>2. SubSeq(t, 1, Len(t) - 1) \in Seq(C)
    BY <2>1
  <2> QED BY <1>2, <2>2 DEF Kept, Front
<1> QED BY <1>1, <1>2

(* The table Edited chooses: the text edited so far, byte by byte.         *)
LEMMA EditedTable ==
  ASSUME NEW C, NEW s \in Seq(C)
  PROVE  \E g \in [0..Len(s) -> Seq(C)] :
            /\ g[0] = <<>>
            /\ \A k \in 1..Len(s) : g[k] = Kept(g[k - 1], s[k])
            /\ Edited(s) = g[Len(s)]
<1> DEFINE N == Len(s)
           F == [p \in Seq(C) \X (1..N) |-> Kept(p[1], s[p[2]])]
           Rule(f) == [n \in 0..N |-> IF n = 0 THEN <<>> ELSE Kept(f[n - 1], s[n])]
           kept == CHOOSE f : f = Rule(f)
<1>1. N \in Nat /\ <<>> \in Seq(C) /\ \A k \in 1..N : s[k] \in C
  OBVIOUS
<1>2. F \in [Seq(C) \X (1..N) -> Seq(C)]
  <2>1. ASSUME NEW p \in Seq(C) \X (1..N) PROVE Kept(p[1], s[p[2]]) \in Seq(C)
    BY <1>1, KeptType
  <2> QED BY <2>1
<1> HIDE DEF N
<1>3. PICK g \in [0..N -> Seq(C)] : g[0] = <<>> /\ \A k \in 1..N : g[k] = F[<<g[k - 1], k>>]
  <2> DEFINE S == Seq(C)
             base == <<>>
  <2>1. N \in Nat /\ base \in S /\ IsStep(F, S, N)
    BY <1>1, <1>2 DEF IsStep
  <2> HIDE DEF F, S, base
  <2>2. PICK g : IsTable(g, F, S, N, base)
    BY <2>1, Iteration
  <2> QED BY <2>2 DEF IsTable, S, base
<1>4. ASSUME NEW k \in 1..N PROVE g[k] = Kept(g[k - 1], s[k])
  <2>1. g[k - 1] \in Seq(C) /\ k - 1 \in 0..N
    BY <1>1
  <2>2. <<g[k - 1], k>> \in Seq(C) \X (1..N)
    BY <2>1
  <2> QED BY <1>3, <2>2
<1>5. g = Rule(g)
  BY <1>1, <1>3, <1>4
<1>6. kept = Rule(kept)
  BY <1>5
<1>7. Edited(s) = kept[N]
  BY DEF Edited, N
<1> HIDE DEF kept
<1>8. kept[0] = g[0]
  BY <1>1, <1>3, <1>6
<1>9. ASSUME NEW k \in 1..N, kept[k - 1] = g[k - 1] PROVE kept[k] = g[k]
  BY <1>1, <1>4, <1>6, <1>9
<1>10. kept[N] = g[N]
  BY <1>1, <1>8, <1>9, IterationUnique
<1> QED BY <1>3, <1>4, <1>7, <1>10 DEF N

(* Nothing typed is edited to nothing.                                     *)
LEMMA EditedEmpty == Edited(<<>>) = <<>>
<1>1. <<>> \in Seq({}) /\ Len(<<>>) = 0
  OBVIOUS
<1> QED BY <1>1, EditedTable

(* An edited text holds only characters that were typed.                   *)
LEMMA EditedType ==
  ASSUME NEW C, NEW s \in Seq(C)
  PROVE  Edited(s) \in Seq(C)
<1>1. Len(s) \in 0..Len(s)
  OBVIOUS
<1> QED BY <1>1, EditedTable

(* A text is edited byte by byte.                                          *)
LEMMA EditedAppend ==
  ASSUME NEW C, NEW s \in Seq(C), NEW c \in C
  PROVE  Edited(Append(s, c)) = Kept(Edited(s), c)
<1> DEFINE t == Append(s, c)
           N == Len(s)
<1>1. t \in Seq(C) /\ Len(t) = N + 1 /\ N \in Nat /\ t[N + 1] = c
      /\ \A k \in 1..N : t[k] = s[k]
  OBVIOUS
<1>2. PICK g \in [0..N -> Seq(C)] :
         /\ g[0] = <<>>
         /\ \A k \in 1..N : g[k] = Kept(g[k - 1], s[k])
         /\ Edited(s) = g[N]
  BY EditedTable
<1> HIDE DEF t
<1>3. PICK h \in [0..Len(t) -> Seq(C)] :
         /\ h[0] = <<>>
         /\ \A k \in 1..Len(t) : h[k] = Kept(h[k - 1], t[k])
         /\ Edited(t) = h[Len(t)]
  BY <1>1, EditedTable
<1> HIDE DEF N
<1>4. ASSUME NEW k \in 1..N, g[k - 1] = h[k - 1] PROVE g[k] = h[k]
  <2>1. k \in 1..Len(t)
    BY <1>1
  <2> QED BY <1>1, <1>2, <1>3, <1>4, <2>1
<1>5. g[N] = h[N]
  <2>1. N \in Nat /\ g[0] = h[0]
    BY <1>1, <1>2, <1>3
  <2> QED BY <2>1, <1>4, IterationUnique
<1>6. N + 1 \in 1..Len(t) /\ (N + 1) - 1 = N
  BY <1>1
<1>7. h[N + 1] = Kept(h[N], c)
  BY <1>1, <1>3, <1>6
<1> QED BY <1>1, <1>2, <1>3, <1>5, <1>7 DEF t

-----------------------------------------------------------------------------
(* The types of the terminal's input structures.                           *)
LineType == [bytes : Seq(Char), rejected : BOOLEAN, previous_cr : BOOLEAN, completed : BOOLEAN]
PacketType == [digits : Seq(Char), rejected : BOOLEAN, previous_cr : BOOLEAN, completed : BOOLEAN]
FrontType == [line : LineType, input : PacketType, packet_mode : BOOLEAN, pending_event : Event]

(* The cleared structures.                                                 *)
LEMMA ZeroFacts ==
  /\ ZeroLine \in LineType /\ ZeroLine.bytes = <<>>
  /\ ~ZeroLine.rejected /\ ~ZeroLine.previous_cr /\ ~ZeroLine.completed
  /\ ZeroInput \in PacketType /\ ZeroInput.digits = <<>>
  /\ ~ZeroInput.rejected /\ ~ZeroInput.previous_cr /\ ~ZeroInput.completed
BY DEF ZeroLine, ZeroInput, LineType, PacketType

(* The line a byte is fed to: one that was completed is started anew.      *)
OpenBytes(l) == IF l.completed THEN <<>> ELSE l.bytes
OpenRejected(l) == ~l.completed /\ l.rejected

(* What tcs_line_feed does with a byte, by the kind of the byte.           *)
LineFeedCases(l, byte, n, event) ==
  LET kept == OpenBytes(l)
      bad == OpenRejected(l)
      skipped == byte = "lf" /\ l.previous_cr
  IN /\ n \in LineType /\ event \in Event
     /\ n.previous_cr <=> byte = "cr"
     /\ skipped => event = "NONE" /\ ~n.completed /\ n.bytes = kept /\ (n.rejected <=> bad)
     /\ byte = "intr" => event = "CANCELLED" /\ ~n.completed /\ n.bytes = <<>> /\ ~n.rejected
     /\ byte \in Delimiter /\ ~skipped =>
          /\ event = IF bad THEN "REJECTED" ELSE "READY"
          /\ n.completed /\ n.bytes = kept /\ (n.rejected <=> bad)
     /\ byte \notin Ends => event = "NONE" /\ ~n.completed
     /\ byte \notin Ends /\ bad => n.rejected /\ n.bytes = kept
     /\ byte \notin Ends \cup Erase /\ ~bad =>
          IF byte \in Illegal \/ Len(kept) = LineMax
          THEN n.rejected /\ n.bytes = <<>>
          ELSE ~n.rejected /\ n.bytes = Append(kept, byte)
     /\ byte \in Erase /\ ~bad =>
          ~n.rejected /\ n.bytes = IF kept = <<>> THEN <<>> ELSE Front(kept)

(* tcs_line_feed does what LineFeedCases says.                             *)
LEMMA LineFeed ==
  ASSUME NEW l \in LineType, NEW byte \in Char
  PROVE  LineFeedCases(l, byte, tcs_line_feed(l, byte).state, tcs_line_feed(l, byte).event)
<1> DEFINE open == IF l.completed THEN reset_line(l) ELSE l
           line == [open EXCEPT !.previous_cr = (byte = "cr")]
           skipped == byte = "lf" /\ open.previous_cr
           kept == OpenBytes(l)
           bad == OpenRejected(l)
           f == tcs_line_feed(l, byte)
<1>1. /\ open \in LineType /\ kept \in Seq(Char)
      /\ open.bytes = kept /\ (open.rejected <=> bad) /\ ~open.completed
      /\ open.previous_cr <=> l.previous_cr
  <2>1. CASE l.completed = TRUE
    <3>1. open = [ZeroLine EXCEPT !.previous_cr = l.previous_cr] /\ kept = <<>> /\ ~bad
      BY <2>1 DEF reset_line, OpenBytes, OpenRejected
    <3>2. l.previous_cr \in BOOLEAN
      BY DEF LineType
    <3> HIDE DEF open, kept, bad
    <3> QED BY <3>1, <3>2, ZeroFacts DEF LineType
  <2>2. CASE l.completed = FALSE
    BY <2>2 DEF LineType, OpenBytes, OpenRejected
  <2> QED BY <2>1, <2>2 DEF LineType
<1> HIDE DEF open
<1>2. /\ line \in LineType
      /\ line.bytes = kept /\ (line.rejected <=> bad) /\ ~line.completed
      /\ line.previous_cr <=> byte = "cr"
  BY <1>1 DEF LineType
<1>3. f = CASE skipped -> Fed(line, "NONE")
            [] byte = "intr" -> Fed(reset_line(line), "CANCELLED")
            [] byte \in Delimiter /\ ~skipped ->
                 Fed([line EXCEPT !.completed = TRUE],
                     IF line.rejected THEN "REJECTED" ELSE "READY")
            [] byte \in Erase -> Fed(IF line.rejected THEN line ELSE EraseLast(line), "NONE")
            [] OTHER -> Fed(IF line.rejected THEN line ELSE Insert(line, byte), "NONE")
  BY DEF tcs_line_feed, open
<1>4. skipped <=> byte = "lf" /\ l.previous_cr
  BY <1>1
<1> HIDE DEF line, skipped, kept, bad, f
<1> SUFFICES LineFeedCases(l, byte, f.state, f.event)
  BY DEF f
<1> USE DEF Delimiter, Erase, Ends, Event
<1>5. CASE skipped
  <2>1. f.state = line /\ f.event = "NONE"
    BY <1>3, <1>4, <1>5 DEF Fed
  <2> QED BY <1>2, <1>4, <1>5, <2>1 DEF LineFeedCases, kept, bad
<1>6. CASE byte = "intr"
  <2>1. f.state = reset_line(line) /\ f.event = "CANCELLED"
    BY <1>3, <1>4, <1>6 DEF Fed
  <2> DEFINE n == f.state
  <2>2. n \in LineType /\ n.bytes = <<>> /\ ~n.rejected /\ ~n.completed
        /\ n.previous_cr = line.previous_cr
    <3>1. n = [ZeroLine EXCEPT !.previous_cr = line.previous_cr] /\ line.previous_cr \in BOOLEAN
      BY <1>2, <2>1 DEF reset_line, LineType
    <3> HIDE DEF n
    <3> QED BY <3>1, ZeroFacts DEF LineType
  <2> QED BY <1>2, <1>4, <1>6, <2>1, <2>2 DEF LineFeedCases, kept, bad
<1>7. CASE byte \in Delimiter /\ ~skipped
  <2>1. /\ f.state = [line EXCEPT !.completed = TRUE]
        /\ f.event = IF line.rejected THEN "REJECTED" ELSE "READY"
    BY <1>3, <1>4, <1>7 DEF Fed
  <2> DEFINE n == f.state
  <2>2. /\ n \in LineType /\ n.bytes = kept /\ n.completed /\ n.previous_cr = line.previous_cr
        /\ n.rejected = line.rejected
    BY <1>2, <2>1 DEF LineType
  <2> QED BY <1>2, <1>4, <1>7, <2>1, <2>2 DEF LineFeedCases, kept, bad
<1>8. CASE byte \in Erase
  <2>1. f.state = (IF line.rejected THEN line ELSE EraseLast(line)) /\ f.event = "NONE"
    BY <1>3, <1>4, <1>8 DEF Fed
  <2>2. CASE bad
    BY <1>2, <1>4, <1>8, <2>1, <2>2 DEF LineFeedCases, kept, bad
  <2>3. CASE ~bad
    <3> DEFINE n == f.state
    <3>1. n = EraseLast(line)
      BY <1>2, <2>1, <2>3
    <3>2. (IF kept = <<>> THEN <<>> ELSE Front(kept)) \in Seq(Char)
      <4>1. CASE kept # <<>>
        <5>1. Len(kept) - 1 \in Nat /\ Len(kept) - 1 <= Len(kept)
          BY <1>1, <4>1
        <5> QED BY <1>1, <5>1 DEF Front
      <4> QED BY <1>1, <4>1
    <3>3. /\ n \in LineType /\ n.bytes = IF kept = <<>> THEN <<>> ELSE Front(kept)
          /\ n.completed = line.completed /\ n.rejected = line.rejected
          /\ n.previous_cr = line.previous_cr
      BY <1>2, <3>1, <3>2 DEF EraseLast, LineType
    <3> QED BY <1>2, <1>4, <1>8, <2>1, <2>3, <3>3 DEF LineFeedCases, kept, bad
  <2> QED BY <2>2, <2>3
<1>9. CASE byte \notin Ends \cup Erase
  <2>1. f.state = (IF line.rejected THEN line ELSE Insert(line, byte)) /\ f.event = "NONE"
    BY <1>3, <1>4, <1>9 DEF Fed
  <2>2. CASE bad
    BY <1>2, <1>4, <1>9, <2>1, <2>2 DEF LineFeedCases, kept, bad
  <2>3. CASE ~bad /\ (byte \in Illegal \/ Len(kept) = LineMax)
    <3> DEFINE n == f.state
    <3>1. n = [ZeroLine EXCEPT !.rejected = TRUE]
      BY <1>2, <2>1, <2>3 DEF Insert, tcs_line_discard
    <3>2. n \in LineType /\ n.bytes = <<>> /\ n.rejected /\ ~n.completed /\ ~n.previous_cr
      <4> HIDE DEF n
      <4> QED BY <3>1, ZeroFacts DEF LineType
    <3> QED BY <1>2, <1>4, <1>9, <2>1, <2>3, <3>2 DEF LineFeedCases, kept, bad
  <2>4. CASE ~bad /\ ~(byte \in Illegal \/ Len(kept) = LineMax)
    <3> DEFINE n == f.state
    <3>1. n = [line EXCEPT !.bytes = Append(@, byte)]
      BY <1>2, <2>1, <2>4 DEF Insert
    <3>2. /\ n \in LineType /\ n.bytes = Append(kept, byte)
          /\ n.completed = line.completed /\ n.rejected = line.rejected
          /\ n.previous_cr = line.previous_cr
      <4>1. Append(kept, byte) \in Seq(Char)
        BY <1>1
      <4> HIDE DEF n
      <4> QED BY <1>2, <3>1, <4>1 DEF LineType
    <3> QED BY <1>2, <1>4, <1>9, <2>1, <2>4, <3>2 DEF LineFeedCases, kept, bad
  <2> QED BY <2>2, <2>3, <2>4
<1> QED BY <1>4, <1>5, <1>6, <1>7, <1>8, <1>9

(* What tcs_signed_feed does with a byte, by the kind of the byte.         *)
PacketFeedCases(s, byte, n, event) ==
  LET skipped == byte = "lf" /\ s.previous_cr
  IN /\ n \in PacketType /\ event \in Event
     /\ s.completed => n = s /\ event = "NONE"
     /\ ~s.completed =>
          /\ skipped => /\ event = "NONE" /\ ~n.completed /\ n.digits = s.digits
                        /\ n.rejected = s.rejected /\ ~n.previous_cr
          /\ byte = "intr" => event = "CANCELLED" /\ n.completed
          /\ byte \in Delimiter /\ ~skipped =>
               /\ n.completed
               /\ IF ~s.rejected /\ Len(s.digits) = PacketDigits
                  THEN event = "READY" /\ n.digits = s.digits
                  ELSE event = "REJECTED"
          /\ byte \notin Ends => event = "NONE" /\ ~n.completed /\ ~n.previous_cr
          /\ byte \notin Ends /\ s.rejected => n.rejected /\ n.digits = s.digits
          /\ byte \notin Ends /\ ~s.rejected =>
               IF byte \notin HexDigit \/ Len(s.digits) >= PacketDigits
               THEN n.rejected /\ n.digits = <<>>
               ELSE ~n.rejected /\ n.digits = Append(s.digits, byte)

(* tcs_signed_feed does what PacketFeedCases says.                         *)
LEMMA PacketFeed ==
  ASSUME NEW b \in PacketType, NEW byte \in Char
  PROVE  PacketFeedCases(b, byte, tcs_signed_feed(b, byte).state, tcs_signed_feed(b, byte).event)
<1> DEFINE s == [b EXCEPT !.previous_cr = (byte = "cr")]
           skipped == byte = "lf" /\ b.previous_cr
           f == tcs_signed_feed(b, byte)
           bare == [ZeroInput EXCEPT !.rejected = TRUE]
<1>1. /\ s \in PacketType /\ s.digits = b.digits /\ s.rejected = b.rejected
      /\ s.completed = b.completed /\ (s.previous_cr <=> byte = "cr")
      /\ b.digits \in Seq(Char)
  BY DEF PacketType
<1>2. /\ bare \in PacketType /\ bare.digits = <<>> /\ bare.rejected
      /\ ~bare.previous_cr /\ ~bare.completed
  BY ZeroFacts DEF PacketType
<1>3. f = CASE b.completed -> Fed(b, "NONE")
            [] ~b.completed /\ skipped -> Fed(s, "NONE")
            [] ~b.completed /\ byte = "intr" ->
                 Fed([tcs_signed_discard(s) EXCEPT !.completed = TRUE], "CANCELLED")
            [] ~b.completed /\ byte \in Delimiter /\ ~skipped -> FinishFrame(s)
            [] OTHER -> Fed(IF s.rejected THEN s ELSE Nibble(s, byte), "NONE")
  BY DEF tcs_signed_feed
<1>4. skipped => byte = "lf"
  OBVIOUS
<1>5. tcs_signed_discard(s) = bare
  BY DEF tcs_signed_discard
<1> HIDE DEF s, f, bare
<1> SUFFICES PacketFeedCases(b, byte, f.state, f.event)
  BY DEF f
<1> USE DEF Delimiter, Ends, Event
<1>6. CASE b.completed
  <2>1. f.state = b /\ f.event = "NONE"
    BY <1>3, <1>6 DEF Fed
  <2> QED BY <1>6, <2>1 DEF PacketFeedCases
<1>7. CASE ~b.completed /\ skipped
  <2>1. f.state = s /\ f.event = "NONE"
    BY <1>3, <1>7 DEF Fed
  <2> QED BY <1>1, <1>7, <2>1 DEF PacketFeedCases
<1>8. CASE ~b.completed /\ byte = "intr"
  <2>1. f.state = [bare EXCEPT !.completed = TRUE] /\ f.event = "CANCELLED"
    BY <1>3, <1>5, <1>8 DEF Fed
  <2>2. f.state \in PacketType /\ f.state.completed
    BY <1>2, <2>1 DEF PacketType
  <2> QED BY <1>8, <2>1, <2>2 DEF PacketFeedCases
<1>9. CASE ~b.completed /\ byte \in Delimiter /\ ~skipped
  <2>1. f = FinishFrame(s)
    BY <1>3, <1>9
  <2>2. CASE ~s.rejected /\ Len(s.digits) = PacketDigits
    <3>1. f.state = [s EXCEPT !.completed = TRUE] /\ f.event = "READY"
      BY <2>1, <2>2 DEF FinishFrame, Fed
    <3>2. f.state \in PacketType /\ f.state.completed /\ f.state.digits = s.digits
      BY <1>1, <3>1 DEF PacketType
    <3> QED BY <1>1, <1>9, <2>2, <3>1, <3>2 DEF PacketFeedCases
  <2>3. CASE ~(~s.rejected /\ Len(s.digits) = PacketDigits)
    <3>1. /\ f.state = [bare EXCEPT !.previous_cr = s.previous_cr, !.completed = TRUE]
          /\ f.event = "REJECTED"
      BY <1>5, <2>1, <2>3 DEF FinishFrame, Fed
    <3>2. s.previous_cr \in BOOLEAN
      BY <1>1 DEF PacketType
    <3>3. f.state \in PacketType /\ f.state.completed
      BY <1>2, <3>1, <3>2 DEF PacketType
    <3> QED BY <1>1, <1>9, <2>3, <3>1, <3>3 DEF PacketFeedCases
  <2> QED BY <2>2, <2>3
<1>10. CASE ~b.completed /\ byte \notin Ends
  <2>1. f.state = (IF s.rejected THEN s ELSE Nibble(s, byte)) /\ f.event = "NONE"
    BY <1>3, <1>4, <1>10 DEF Fed
  <2>2. CASE s.rejected
    BY <1>1, <1>10, <2>1, <2>2 DEF PacketFeedCases
  <2>3. CASE ~s.rejected /\ (byte \notin HexDigit \/ Len(s.digits) >= PacketDigits)
    <3>1. f.state = bare
      BY <1>5, <2>1, <2>3 DEF Nibble
    <3> QED BY <1>1, <1>2, <1>10, <2>1, <2>3, <3>1 DEF PacketFeedCases
  <2>4. CASE ~s.rejected /\ ~(byte \notin HexDigit \/ Len(s.digits) >= PacketDigits)
    <3>1. f.state = [s EXCEPT !.digits = Append(@, byte)]
      BY <2>1, <2>4 DEF Nibble
    <3>2. Append(s.digits, byte) \in Seq(Char)
      BY <1>1
    <3> DEFINE n == f.state
    <3>3. /\ n \in PacketType /\ n.digits = Append(s.digits, byte)
          /\ n.rejected = s.rejected /\ n.completed = s.completed
          /\ n.previous_cr = s.previous_cr
      <4> HIDE DEF n
      <4>1. n = [s EXCEPT !.digits = Append(s.digits, byte)]
        BY <3>1 DEF n
      <4> QED BY <1>1, <3>2, <4>1 DEF PacketType
    <3> QED BY <1>1, <1>10, <2>1, <2>4, <3>3 DEF PacketFeedCases
  <2> QED BY <2>2, <2>3, <2>4
<1> QED BY <1>4, <1>6, <1>7, <1>8, <1>9, <1>10

-----------------------------------------------------------------------------
(* The terminal feeds the packet input in packet mode, else the line.      *)
LEMMA FeedFacts ==
  ASSUME NEW t \in FrontType, NEW byte \in Char
  PROVE  LET n == Feed(t, byte)
         IN /\ n \in FrontType /\ n.packet_mode = t.packet_mode
            /\ t.packet_mode => /\ PacketFeedCases(t.input, byte, n.input, n.pending_event)
                                /\ n.line = t.line
            /\ ~t.packet_mode => /\ LineFeedCases(t.line, byte, n.line, n.pending_event)
                                 /\ n.input = t.input
<1> DEFINE n == Feed(t, byte)
<1>1. CASE t.packet_mode
  <2> DEFINE f == tcs_signed_feed(t.input, byte)
  <2>1. n = [t EXCEPT !.input = f.state, !.pending_event = f.event]
    BY <1>1 DEF Feed
  <2>2. PacketFeedCases(t.input, byte, f.state, f.event)
    BY PacketFeed DEF FrontType
  <2>3. f.state \in PacketType /\ f.event \in Event
    BY <2>2 DEF PacketFeedCases
  <2> HIDE DEF n, f
  <2>4. /\ n \in FrontType /\ n.packet_mode = t.packet_mode /\ n.line = t.line
        /\ n.input = f.state /\ n.pending_event = f.event
    BY <2>1, <2>3 DEF FrontType
  <2> QED BY <1>1, <2>2, <2>4 DEF n
<1>2. CASE ~t.packet_mode
  <2> DEFINE f == tcs_line_feed(t.line, byte)
  <2>1. n = [t EXCEPT !.line = f.state, !.pending_event = f.event]
    BY <1>2 DEF Feed
  <2>2. LineFeedCases(t.line, byte, f.state, f.event)
    BY LineFeed DEF FrontType
  <2>3. f.state \in LineType /\ f.event \in Event
    BY <2>2 DEF LineFeedCases
  <2> HIDE DEF n, f
  <2>4. /\ n \in FrontType /\ n.packet_mode = t.packet_mode /\ n.input = t.input
        /\ n.line = f.state /\ n.pending_event = f.event
    BY <2>1, <2>3 DEF FrontType
  <2> QED BY <1>2, <2>2, <2>4 DEF n
<1> QED BY <1>1, <1>2

(* A gap the driver reports: whatever is being entered is discarded.       *)
LEMMA LostFacts ==
  ASSUME NEW t \in FrontType
  PROVE  LET n == InputLost(t)
         IN /\ n \in FrontType
            /\ n.packet_mode = t.packet_mode /\ n.pending_event = t.pending_event
            /\ n.line.rejected /\ ~n.line.completed /\ ~n.line.previous_cr /\ n.line.bytes = <<>>
            /\ t.packet_mode => n.input.rejected /\ ~n.input.completed /\ ~n.input.previous_cr
                                /\ n.input.digits = <<>>
            /\ ~t.packet_mode => n.input = t.input
<1> DEFINE n == InputLost(t)
           l == tcs_line_discard(t.line)
           s == IF t.packet_mode THEN tcs_signed_discard(t.input) ELSE t.input
<1>1. n = [t EXCEPT !.line = l, !.input = s]
  BY DEF InputLost
<1>2. /\ l \in LineType /\ l.rejected /\ ~l.completed /\ ~l.previous_cr /\ l.bytes = <<>>
  BY ZeroFacts DEF tcs_line_discard, LineType
<1>3. /\ tcs_signed_discard(t.input) \in PacketType
      /\ tcs_signed_discard(t.input).rejected /\ ~tcs_signed_discard(t.input).completed
      /\ ~tcs_signed_discard(t.input).previous_cr /\ tcs_signed_discard(t.input).digits = <<>>
  BY ZeroFacts DEF tcs_signed_discard, PacketType
<1>4. /\ s \in PacketType
      /\ t.packet_mode => s.rejected /\ ~s.completed /\ ~s.previous_cr /\ s.digits = <<>>
      /\ ~t.packet_mode => s = t.input
  BY <1>3 DEF FrontType
<1> HIDE DEF n, l, s
<1>5. /\ n \in FrontType /\ n.line = l /\ n.input = s
      /\ n.packet_mode = t.packet_mode /\ n.pending_event = t.pending_event
  BY <1>1, <1>2, <1>4 DEF FrontType
<1> QED BY <1>2, <1>4, <1>5 DEF n

(* The event is handled: a packet ends packet mode with a fresh line, the  *)
(* submit command starts it, and anything else leaves the line as it is.   *)
LEMMA HandleFacts ==
  ASSUME NEW t \in FrontType
  PROVE  LET n == Handle(t)
         IN /\ n \in FrontType /\ n.pending_event = "NONE"
            /\ t.packet_mode => /\ ~n.packet_mode /\ n.line.bytes = <<>>
                                /\ ~n.line.rejected /\ ~n.line.completed
            /\ ~t.packet_mode => /\ n.line = t.line
                                 /\ n.packet_mode => /\ t.pending_event = "READY"
                                                     /\ n.input.digits = <<>>
                                                     /\ ~n.input.rejected /\ ~n.input.completed
<1> DEFINE n == Handle(t)
           submit == t.pending_event = "READY" /\ t.line.bytes = <<"submit">>
<1>1. CASE t.packet_mode
  <2> DEFINE l == [ZeroLine EXCEPT !.previous_cr = t.input.previous_cr]
             s == tcs_signed_discard(t.input)
  <2>1. n = [t EXCEPT !.line = l, !.input = s, !.packet_mode = FALSE, !.pending_event = "NONE"]
    BY <1>1 DEF Handle, finish_packet
  <2>2. t.input.previous_cr \in BOOLEAN
    BY DEF FrontType, PacketType
  <2>3. l \in LineType /\ l.bytes = <<>> /\ ~l.rejected /\ ~l.completed
    BY <2>2, ZeroFacts DEF LineType
  <2>4. s \in PacketType
    BY ZeroFacts DEF tcs_signed_discard, PacketType
  <2> HIDE DEF n, l, s
  <2>5. n \in FrontType /\ n.line = l /\ ~n.packet_mode /\ n.pending_event = "NONE"
    BY <2>1, <2>3, <2>4 DEF FrontType, Event
  <2> QED BY <1>1, <2>3, <2>5 DEF n
<1>2. CASE ~t.packet_mode /\ submit
  <2> DEFINE s == [ZeroInput EXCEPT !.previous_cr = t.line.previous_cr]
  <2>1. n = [t EXCEPT !.input = s, !.packet_mode = TRUE, !.pending_event = "NONE"]
    BY <1>2 DEF Handle, tcs_signed_begin
  <2>2. t.line.previous_cr \in BOOLEAN
    BY DEF FrontType, LineType
  <2>3. s \in PacketType /\ s.digits = <<>> /\ ~s.rejected /\ ~s.completed
    BY <2>2, ZeroFacts DEF PacketType
  <2> HIDE DEF n, s
  <2>4. n \in FrontType /\ n.line = t.line /\ n.input = s /\ n.pending_event = "NONE"
    BY <2>1, <2>3 DEF FrontType, Event
  <2> QED BY <1>2, <2>3, <2>4 DEF n
<1>3. CASE ~t.packet_mode /\ ~submit
  <2>1. n = [t EXCEPT !.pending_event = "NONE"]
    BY <1>3 DEF Handle
  <2> HIDE DEF n
  <2>2. /\ n \in FrontType /\ n.line = t.line /\ n.pending_event = "NONE"
        /\ n.packet_mode = t.packet_mode
    BY <2>1 DEF FrontType, Event
  <2> QED BY <1>3, <2>2 DEF n
<1> QED BY <1>1, <1>2, <1>3

(* A byte that ends something is answered with a new row.                  *)
LEMMA EchoOfEvent ==
  ASSUME NEW t \in FrontType, NEW byte \in Char, Feed(t, byte).pending_event # "NONE"
  PROVE  Echo(t, byte) = "row"
<1>1. CASE t.packet_mode
  <2>1. tcs_signed_feed(t.input, byte).event # "NONE"
    BY <1>1 DEF Feed, FrontType
  <2>2. Echo(t, byte) = SignedEcho(t.input, byte)
    BY <1>1 DEF Echo
  <2> QED BY <2>1, <2>2 DEF SignedEcho
<1>2. CASE ~t.packet_mode
  <2>1. tcs_line_feed(t.line, byte).event # "NONE"
    BY <1>2 DEF Feed, FrontType
  <2>2. Echo(t, byte) = tcs_terminal_input(t.line, byte)
    BY <1>2 DEF Echo
  <2> QED BY <2>1, <2>2 DEF tcs_terminal_input
<1> QED BY <1>1, <1>2

-----------------------------------------------------------------------------
(***************************************************************************)
(* Decimal numbers.  Reading and Positional go through a text in step with *)
(* one table each (ReadingTable, PositionalTable): below UMAX the tables   *)
(* agree, and once the value has passed UMAX the reader has refused for    *)
(* good (ReadingValue).  decimal is well-founded on its argument, so it    *)
(* satisfies its own rule (DecimalRule), which undoes one step of the table*)
(* (DecimalInverse).  Trim is the least span that holds every character    *)
(* that is no blank (TrimSpan), and a read command is two such spans       *)
(* (AskedIsRead, ReadIsAsked).                                             *)
(***************************************************************************)

(* The value of a digit.                                                   *)
LEMMA ValueFacts ==
  ASSUME NEW d \in Digit
  PROVE  ValueOf(d) \in 0..9 /\ Numerals[ValueOf(d) + 1] = d
<1>1. \E i \in 1..10 : Numerals[i] = d
  BY DEF Digit, Range, Numerals
<1>2. PICK i \in 1..10 : i = (CHOOSE j \in 1..10 : Numerals[j] = d) /\ Numerals[i] = d
  BY <1>1
<1>3. ValueOf(d) = i - 1
  BY <1>2 DEF ValueOf
<1>4. i - 1 \in 0..9 /\ (i - 1) + 1 = i
  OBVIOUS
<1> QED BY <1>2, <1>3, <1>4

(* The overflow test of either loop is exact.                              *)
LEMMA OverflowTest ==
  ASSUME NEW v \in Nat, NEW d \in 0..9, NEW U \in Nat
  PROVE  v > (U - d) \div 10 <=> v * 10 + d > U
OBVIOUS

(* The table Positional chooses.                                           *)
LEMMA PositionalTable ==
  ASSUME NEW s \in Seq(Digit)
  PROVE  \E h \in [0..Len(s) -> Nat] :
            /\ h[0] = 0
            /\ \A k \in 1..Len(s) : h[k] = 10 * h[k - 1] + ValueOf(s[k])
            /\ Positional(s) = h[Len(s)]
<1> DEFINE N == Len(s)
           F == [p \in Nat \X (1..N) |-> 10 * p[1] + ValueOf(s[p[2]])]
           Rule(f) == [n \in 0..N |-> IF n = 0 THEN 0 ELSE 10 * f[n - 1] + ValueOf(s[n])]
           sum == CHOOSE f : f = Rule(f)
<1>1. N \in Nat /\ \A k \in 1..N : s[k] \in Digit
  OBVIOUS
<1>2. \A k \in 1..N : ValueOf(s[k]) \in Nat
  BY <1>1, ValueFacts
<1> HIDE DEF N
<1>3. PICK g \in [0..N -> Nat] : g[0] = 0 /\ \A k \in 1..N : g[k] = F[<<g[k - 1], k>>]
  <2>1. IsStep(F, Nat, N)
    <3>1. ASSUME NEW p \in Nat \X (1..N) PROVE 10 * p[1] + ValueOf(s[p[2]]) \in Nat
      BY <1>2
    <3> QED BY <3>1 DEF IsStep
  <2> HIDE DEF F
  <2> DEFINE base == 0
  <2>2. base \in Nat
    OBVIOUS
  <2> HIDE DEF base
  <2>3. PICK g : IsTable(g, F, Nat, N, base)
    BY <1>1, <2>1, <2>2, Iteration
  <2> QED BY <2>3 DEF IsTable, base
<1>4. ASSUME NEW k \in 1..N PROVE g[k] = 10 * g[k - 1] + ValueOf(s[k])
  <2>1. g[k - 1] \in Nat /\ k - 1 \in 0..N
    BY <1>1
  <2>2. <<g[k - 1], k>> \in Nat \X (1..N)
    BY <2>1
  <2> QED BY <1>3, <2>2
<1>5. g = Rule(g)
  BY <1>1, <1>3, <1>4
<1>6. sum = Rule(sum)
  BY <1>5
<1>7. Positional(s) = sum[N]
  BY DEF Positional, N
<1> HIDE DEF sum
<1>8. sum[0] = g[0]
  BY <1>1, <1>3, <1>6
<1>9. ASSUME NEW k \in 1..N, sum[k - 1] = g[k - 1] PROVE sum[k] = g[k]
  BY <1>1, <1>4, <1>6, <1>9
<1>10. sum[N] = g[N]
  BY <1>1, <1>8, <1>9, IterationUnique
<1> QED BY <1>3, <1>4, <1>7, <1>10 DEF N

(* The table Reading chooses.                                              *)
LEMMA ReadingTable ==
  ASSUME NEW C, NEW s \in Seq(C)
  PROVE  \E g \in [0..Len(s) -> Int] :
            /\ g[0] = 0
            /\ \A k \in 1..Len(s) : g[k] = DigitStep(g[k - 1], s[k])
            /\ Reading(s) = g[Len(s)]
<1> DEFINE N == Len(s)
           F == [p \in Int \X (1..N) |-> DigitStep(p[1], s[p[2]])]
           Rule(f) == [n \in 0..N |-> IF n = 0 THEN 0 ELSE DigitStep(f[n - 1], s[n])]
           value == CHOOSE f : f = Rule(f)
<1>1. N \in Nat
  OBVIOUS
<1>2. ASSUME NEW v \in Int, NEW d PROVE DigitStep(v, d) \in Int
  <2>1. CASE d \in Digit
    <3>1. ValueOf(d) \in Int
      BY <2>1, ValueFacts
    <3> QED BY <3>1 DEF DigitStep, None
  <2>2. CASE d \notin Digit
    BY <2>2 DEF DigitStep, None
  <2> QED BY <2>1, <2>2
<1> HIDE DEF N
<1>3. PICK g \in [0..N -> Int] : g[0] = 0 /\ \A k \in 1..N : g[k] = F[<<g[k - 1], k>>]
  <2>1. IsStep(F, Int, N)
    <3>1. ASSUME NEW p \in Int \X (1..N) PROVE DigitStep(p[1], s[p[2]]) \in Int
      BY <1>2
    <3> QED BY <3>1 DEF IsStep
  <2> HIDE DEF F
  <2> DEFINE base == 0
  <2>2. base \in Int
    OBVIOUS
  <2> HIDE DEF base
  <2>3. PICK g : IsTable(g, F, Int, N, base)
    BY <1>1, <2>1, <2>2, Iteration
  <2> QED BY <2>3 DEF IsTable, base
<1>4. ASSUME NEW k \in 1..N PROVE g[k] = DigitStep(g[k - 1], s[k])
  <2>1. g[k - 1] \in Int /\ k - 1 \in 0..N
    BY <1>1
  <2>2. <<g[k - 1], k>> \in Int \X (1..N)
    BY <2>1
  <2> QED BY <1>3, <2>2
<1>5. g = Rule(g)
  BY <1>1, <1>3, <1>4
<1>6. value = Rule(value)
  BY <1>5
<1>7. Reading(s) = value[N]
  BY DEF Reading, N
<1> HIDE DEF value
<1>8. value[0] = g[0]
  BY <1>1, <1>3, <1>6
<1>9. ASSUME NEW k \in 1..N, value[k - 1] = g[k - 1] PROVE value[k] = g[k]
  BY <1>1, <1>4, <1>6, <1>9
<1>10. value[N] = g[N]
  BY <1>1, <1>8, <1>9, IterationUnique
<1> QED BY <1>3, <1>4, <1>7, <1>10 DEF N

(* A text of digits is read as its value, or refused if that is too much.  *)
LEMMA ReadingValue ==
  ASSUME NEW s \in Seq(Digit)
  PROVE  /\ Positional(s) \in Nat
         /\ Reading(s) = IF Positional(s) <= UMAX THEN Positional(s) ELSE None
<1> DEFINE N == Len(s)
<1>1. N \in Nat /\ UMAX \in Nat /\ \A k \in 1..N : s[k] \in Digit
  BY InputAssumption
<1>2. PICK h \in [0..N -> Nat] : /\ h[0] = 0
                                 /\ \A k \in 1..N : h[k] = 10 * h[k - 1] + ValueOf(s[k])
                                 /\ Positional(s) = h[N]
  BY PositionalTable
<1>3. PICK g \in [0..N -> Int] : /\ g[0] = 0
                                 /\ \A k \in 1..N : g[k] = DigitStep(g[k - 1], s[k])
                                 /\ Reading(s) = g[N]
  BY ReadingTable
<1> HIDE DEF N
<1> DEFINE T == {k \in Nat : k <= N => g[k] = IF h[k] <= UMAX THEN h[k] ELSE None}
<1>4. 0 \in T
  BY <1>1, <1>2, <1>3
<1>5. ASSUME NEW k \in Nat, k \in T PROVE k + 1 \in T
  <2> SUFFICES ASSUME k + 1 <= N
               PROVE  g[k + 1] = IF h[k + 1] <= UMAX THEN h[k + 1] ELSE None
    OBVIOUS
  <2> DEFINE d == s[k + 1]
             x == ValueOf(d)
             v == h[k]
  <2>1. k \in 0..N /\ k + 1 \in 1..N /\ k <= N /\ (k + 1) - 1 = k
    BY <1>1
  <2>2. d \in Digit /\ x \in 0..9 /\ v \in Nat
    BY <1>1, <1>2, <2>1, ValueFacts
  <2>3. h[k + 1] = 10 * v + x /\ g[k + 1] = DigitStep(g[k], d)
    BY <1>2, <1>3, <2>1
  <2>4. g[k] = IF v <= UMAX THEN v ELSE None
    BY <1>5, <2>1
  <2> HIDE DEF d, x, v
  <2>5. CASE v > UMAX
    <3>1. g[k] = None /\ g[k + 1] = None
      BY <1>1, <2>2, <2>3, <2>4, <2>5 DEF DigitStep
    <3>2. ~(10 * v + x <= UMAX)
      BY <1>1, <2>2, <2>5
    <3> QED BY <2>3, <3>1, <3>2
  <2>6. CASE v <= UMAX
    <3>1. g[k] = v /\ v # None
      BY <2>2, <2>4, <2>6 DEF None
    <3>2. g[k + 1] = IF v > (UMAX - x) \div 10 THEN None ELSE v * 10 + x
      BY <2>2, <2>3, <3>1 DEF DigitStep, x
    <3>3. v > (UMAX - x) \div 10 <=> v * 10 + x > UMAX
      BY <1>1, <2>2, OverflowTest
    <3>4. v * 10 + x = 10 * v + x /\ (v * 10 + x > UMAX <=> ~(10 * v + x <= UMAX))
      BY <1>1, <2>2
    <3> QED BY <2>3, <3>2, <3>3, <3>4
  <2> QED BY <1>1, <2>2, <2>5, <2>6
<1>6. N \in T
  BY <1>1, <1>4, <1>5, SetInduction
<1> QED BY <1>1, <1>2, <1>3, <1>6

(* A text with anything but digits is refused.                             *)
LEMMA ReadingRefused ==
  ASSUME NEW C, NEW s \in Seq(C), NEW i \in 1..Len(s), s[i] \notin Digit
  PROVE  Reading(s) = None
<1> DEFINE N == Len(s)
<1>1. PICK g \in [0..N -> Int] : /\ g[0] = 0
                                 /\ \A k \in 1..N : g[k] = DigitStep(g[k - 1], s[k])
                                 /\ Reading(s) = g[N]
  BY ReadingTable
<1>2. N \in Nat /\ i \in 1..N
  OBVIOUS
<1> HIDE DEF N
<1> DEFINE T == {k \in Nat : i <= k /\ k <= N => g[k] = None}
<1>3. 0 \in T
  BY <1>2
<1>4. ASSUME NEW k \in Nat, k \in T PROVE k + 1 \in T
  <2> SUFFICES ASSUME i <= k + 1, k + 1 <= N PROVE g[k + 1] = None
    OBVIOUS
  <2>1. g[k + 1] = DigitStep(g[k], s[k + 1])
    BY <1>1, <1>2
  <2>2. CASE i = k + 1
    BY <2>1, <2>2 DEF DigitStep
  <2>3. CASE i <= k
    <3>1. g[k] = None
      BY <1>2, <1>4, <2>3
    <3> QED BY <2>1, <3>1 DEF DigitStep
  <2> QED BY <1>2, <2>2, <2>3
<1>5. N \in T
  BY <1>2, <1>3, <1>4, SetInduction
<1> QED BY <1>1, <1>2, <1>5

-----------------------------------------------------------------------------
(* The digits decimal() appends, one more than for a tenth of the value.   *)
LEMMA DecimalRule ==
  ASSUME NEW v \in 0..UMAX
  PROVE  decimal[v] = (IF v \div 10 = 0 THEN <<>> ELSE decimal[v \div 10])
                        \o <<Numerals[(v % 10) + 1]>>
<1> DEFINE Line(g, x) == (IF x \div 10 = 0 THEN <<>> ELSE g[x \div 10])
                           \o <<Numerals[(x % 10) + 1]>>
           Holds(g, n) == DOMAIN g = 0..n /\ \A x \in 0..n : g[x] = Line(g, x)
           T == {n \in Nat : \E g : g = [x \in 0..n |-> g[x]] /\ Holds(g, n)}
<1>1. UMAX \in Nat
  BY InputAssumption
<1>2. \A x \in Nat : x \div 10 \in 0..x /\ (x > 0 => x \div 10 < x)
  OBVIOUS
<1>3. 0 \in T
  <2> DEFINE g == [x \in 0..0 |-> <<>> \o <<Numerals[(x % 10) + 1]>>]
  <2>1. ASSUME NEW x \in 0..0 PROVE g[x] = Line(g, x)
    <3>1. x \div 10 = 0
      OBVIOUS
    <3> QED BY <3>1
  <2>2. g = [x \in 0..0 |-> g[x]] /\ DOMAIN g = 0..0
    OBVIOUS
  <2> HIDE DEF g
  <2> QED BY <2>1, <2>2
<1>4. ASSUME NEW n \in Nat, n \in T PROVE n + 1 \in T
  <2>1. PICK g : Holds(g, n)
    BY <1>4
  <2> DEFINE h == [x \in 0..(n + 1) |-> IF x <= n THEN g[x] ELSE Line(g, x)]
  <2>2. \A x \in 0..n : h[x] = g[x]
    OBVIOUS
  <2>3. ASSUME NEW x \in 0..(n + 1) PROVE h[x] = Line(h, x)
    <3>1. x \div 10 \in 0..n
      BY <1>2
    <3>2. h[x \div 10] = g[x \div 10]
      BY <2>2, <3>1
    <3>3. h[x] = IF x <= n THEN g[x] ELSE Line(g, x)
      OBVIOUS
    <3>4. x <= n => g[x] = Line(g, x)
      <4> HIDE DEF Line, h
      <4>1. x <= n => x \in 0..n
        OBVIOUS
      <4> QED BY <2>1, <4>1
    <3> HIDE DEF h
    <3>5. Line(h, x) = Line(g, x)
      BY <3>2
    <3> HIDE DEF Line
    <3> QED BY <3>3, <3>4, <3>5
  <2>4. h = [x \in 0..(n + 1) |-> h[x]] /\ DOMAIN h = 0..(n + 1)
    OBVIOUS
  <2> HIDE DEF h, Line
  <2>5. Holds(h, n + 1)
    BY <2>3, <2>4
  <2> HIDE DEF Holds
  <2> QED BY <2>4, <2>5
<1>5. UMAX \in T
  <2> HIDE DEF T
  <2> QED BY <1>1, <1>3, <1>4, SetInduction
<1>6. PICK g : g = [x \in 0..UMAX |-> g[x]] /\ Holds(g, UMAX)
  BY <1>5
<1>7. g = [x \in 0..UMAX |-> Line(g, x)]
  BY <1>6
<1>8. decimal = [x \in 0..UMAX |-> Line(decimal, x)]
  <2> HIDE DEF Line
  <2>1. decimal = CHOOSE f : f = [x \in 0..UMAX |-> Line(f, x)]
    BY DEF decimal, Line
  <2> QED BY <1>7, <2>1
<1>9. decimal[v] = Line(decimal, v)
  <2> HIDE DEF Line
  <2> QED BY <1>8
<1> QED BY <1>9

(* The value and the last digit of a longer numeral, and of one digit.     *)
LEMMA TenTimes ==
  ASSUME NEW v \in Nat, NEW d \in 0..9
  PROVE  /\ (10 * v + d) \div 10 = v /\ (10 * v + d) % 10 = d
         /\ d \div 10 = 0 /\ d % 10 = d
OBVIOUS

(* What decimal() prints for the value of a canonical numeral is that      *)
(* numeral.                                                                *)
LEMMA DecimalInverse ==
  ASSUME NEW s \in Seq(Digit), s # <<>>, s[1] # "0" \/ Len(s) = 1, Positional(s) <= UMAX
  PROVE  decimal[Positional(s)] = s
<1> DEFINE N == Len(s)
<1>1. N \in Nat /\ N >= 1 /\ UMAX \in Nat /\ \A k \in 1..N : s[k] \in Digit
  BY InputAssumption
<1>2. PICK h \in [0..N -> Nat] : /\ h[0] = 0
                                 /\ \A k \in 1..N : h[k] = 10 * h[k - 1] + ValueOf(s[k])
                                 /\ Positional(s) = h[N]
  BY PositionalTable
<1>3. ASSUME NEW k \in 1..N
      PROVE  /\ ValueOf(s[k]) \in 0..9 /\ Numerals[ValueOf(s[k]) + 1] = s[k]
             /\ h[k] = 10 * h[k - 1] + ValueOf(s[k]) /\ h[k - 1] \in Nat
  <2>1. k - 1 \in 0..N
    BY <1>1
  <2> QED BY <1>1, <1>2, <2>1, ValueFacts
<1>4. /\ SubSeq(s, 1, N) = s /\ SubSeq(s, 1, 1) = <<s[1]>>
      /\ \A k \in 1..(N - 1) : SubSeq(s, 1, k) \o <<s[k + 1]>> = SubSeq(s, 1, k + 1)
  <2>1. SubSeq(s, 1, N) = s
    OBVIOUS
  <2>2. SubSeq(s, 1, 1) = <<s[1]>>
    BY <1>1
  <2>3. ASSUME NEW k \in 1..(N - 1) PROVE SubSeq(s, 1, k) \o <<s[k + 1]>> = SubSeq(s, 1, k + 1)
    BY <1>1
  <2> QED BY <2>1, <2>2, <2>3
<1> HIDE DEF N
<1> DEFINE T == {k \in Nat : k + 1 <= N /\ h[k + 1] <= UMAX =>
                               /\ h[k + 1] = 0 => N = 1
                               /\ decimal[h[k + 1]] = SubSeq(s, 1, k + 1)}
<1>5. 0 \in T
  <2>1. 1 \in 1..N /\ 1 - 1 = 0
    BY <1>1
  <2>2. h[1] = ValueOf(s[1]) /\ h[1] \in 0..9 /\ Numerals[h[1] + 1] = s[1]
    BY <1>2, <1>3, <2>1
  <2>3. h[1] = 0 => N = 1
    <3>1. Numerals[1] = "0"
      BY DEF Numerals
    <3>2. h[1] = 0 => s[1] = "0"
      BY <2>2, <3>1
    <3> QED BY <3>2 DEF N
  <2>4. ASSUME h[1] <= UMAX PROVE decimal[h[1]] = <<s[1]>>
    <3>1. h[1] \in 0..UMAX
      BY <1>1, <2>2, <2>4
    <3>2. h[1] \div 10 = 0 /\ h[1] % 10 = h[1]
      BY <2>2, TenTimes
    <3>3. decimal[h[1]] = <<>> \o <<s[1]>>
      BY <2>2, <3>1, <3>2, DecimalRule
    <3> QED BY <3>3
  <2> QED BY <1>4, <2>3, <2>4
<1>6. ASSUME NEW k \in Nat, k \in T PROVE k + 1 \in T
  <2> DEFINE m == k + 1
  <2>1. m \in Nat /\ m = k + 1
    OBVIOUS
  <2> HIDE DEF m
  <2> SUFFICES ASSUME m + 1 <= N, h[m + 1] <= UMAX
               PROVE  h[m + 1] # 0 /\ decimal[h[m + 1]] = SubSeq(s, 1, m + 1)
    BY <2>1
  <2> DEFINE x == ValueOf(s[m + 1])
             v == h[m]
  <2>2. m + 1 \in 1..N /\ (m + 1) - 1 = m /\ m \in 1..(N - 1) /\ N # 1 /\ m <= N
    BY <1>1, <2>1
  <2>3. x \in 0..9 /\ Numerals[x + 1] = s[m + 1] /\ h[m + 1] = 10 * v + x /\ v \in Nat
    BY <1>3, <2>2
  <2> HIDE DEF x, v
  <2>4. v <= UMAX
    BY <1>1, <2>3
  <2>5. v # 0 /\ decimal[v] = SubSeq(s, 1, m)
    BY <1>6, <2>1, <2>2, <2>4 DEF v
  <2>6. h[m + 1] \in 0..UMAX /\ h[m + 1] \div 10 = v /\ h[m + 1] % 10 = x /\ h[m + 1] # 0
    <3>1. (10 * v + x) \div 10 = v /\ (10 * v + x) % 10 = x
      BY <2>3, TenTimes
    <3>2. 10 * v + x \in Nat /\ 10 * v + x # 0
      BY <2>3, <2>5
    <3> QED BY <1>1, <2>3, <3>1, <3>2
  <2>7. decimal[h[m + 1]] = decimal[v] \o <<s[m + 1]>>
    BY <2>3, <2>5, <2>6, DecimalRule
  <2> QED BY <1>4, <2>2, <2>5, <2>6, <2>7
<1>7. N - 1 \in T
  <2>1. N - 1 \in Nat
    BY <1>1
  <2> HIDE DEF T
  <2> QED BY <1>5, <1>6, <2>1, SetInduction
<1>8. decimal[h[N]] = SubSeq(s, 1, N)
  <2>1. (N - 1) + 1 = N /\ N <= N
    BY <1>1
  <2> QED BY <1>2, <1>7, <2>1
<1> QED BY <1>2, <1>4, <1>8

(* The texts number() is to accept.                                        *)
Canonical(s) == IsNumeral(s) /\ (s[1] # "0" \/ Len(s) = 1) /\ Positional(s) <= UMAX

(* A numeral is a text of digits.                                          *)
LEMMA NumeralDigits ==
  ASSUME NEW C, NEW s \in Seq(C)
  PROVE  IsNumeral(s) <=> s # <<>> /\ s \in Seq(Digit)
<1>1. ASSUME \A i \in DOMAIN s : s[i] \in Digit PROVE s \in Seq(Digit)
  <2>1. Len(s) \in Nat /\ DOMAIN s = 1..Len(s) /\ s = [i \in 1..Len(s) |-> s[i]]
    OBVIOUS
  <2>2. s \in [1..Len(s) -> Digit]
    BY <1>1, <2>1
  <2> QED BY <2>1, <2>2
<1>2. ASSUME s \in Seq(Digit) PROVE \A i \in DOMAIN s : s[i] \in Digit
  BY <1>2
<1> QED BY <1>1, <1>2 DEF IsNumeral

(* number() reads the canonical decimals up to UMAX and nothing else, and  *)
(* what decimal() prints is read back.                                     *)
LEMMA NumberExact ==
  ASSUME NEW C, NEW s \in Seq(C)
  PROVE  /\ number(s) = IF Canonical(s) THEN Positional(s) ELSE None
         /\ Canonical(s) => decimal[Positional(s)] = s
<1>1. CASE s = <<>>
  BY <1>1 DEF number, Canonical, IsNumeral
<1>2. CASE s # <<>> /\ s \in Seq(Digit)
  <2>1. IsNumeral(s)
    BY <1>2, NumeralDigits
  <2>2. Len(s) > 1 <=> Len(s) # 1
    <3> DEFINE n == Len(s)
    <3>1. n \in Nat /\ n # 0
      BY <1>2
    <3> HIDE DEF n
    <3>2. n > 1 <=> n # 1
      BY <3>1
    <3> QED BY <3>2 DEF n
  <2>3. number(s) = IF Len(s) # 1 /\ s[1] = "0" THEN None ELSE Reading(s)
    BY <1>2, <2>2 DEF number
  <2>4. Reading(s) = IF Positional(s) <= UMAX THEN Positional(s) ELSE None
    BY <1>2, ReadingValue
  <2>5. number(s) = IF Canonical(s) THEN Positional(s) ELSE None
    BY <2>1, <2>3, <2>4 DEF Canonical
  <2> QED BY <1>2, <2>5, DecimalInverse DEF Canonical
<1>3. CASE s # <<>> /\ s \notin Seq(Digit)
  <2>1. ~IsNumeral(s)
    BY <1>3, NumeralDigits
  <2>2. PICK i \in 1..Len(s) : s[i] \notin Digit
    BY <1>3, <2>1 DEF IsNumeral
  <2>3. Reading(s) = None
    BY <2>2, ReadingRefused
  <2> QED BY <2>1, <2>3 DEF number, Canonical
<1> QED BY <1>1, <1>2, <1>3

-----------------------------------------------------------------------------
(* The smallest and the largest of a set of positions.                     *)
LEMMA Extremes ==
  ASSUME NEW N \in Nat, NEW S \in SUBSET (1..N), S # {}
  PROVE  /\ Min(S) \in S /\ \A x \in S : Min(S) <= x
         /\ Max(S) \in S /\ \A x \in S : x <= Max(S)
<1> DEFINE Bounded(Q) == (\E a \in Q : \A x \in Q : a <= x) /\ (\E b \in Q : \A x \in Q : b >= x)
           T == {n \in Nat : \A Q \in SUBSET (1..n) : Q # {} => Bounded(Q)}
<1>1. 0 \in T
  <2>1. \A Q \in SUBSET (1..0) : Q = {}
    OBVIOUS
  <2> HIDE DEF Bounded
  <2> QED BY <2>1
<1>2. ASSUME NEW n \in Nat, n \in T PROVE n + 1 \in T
  <2> SUFFICES ASSUME NEW Q \in SUBSET (1..(n + 1)), Q # {} PROVE Bounded(Q)
    OBVIOUS
  <2> DEFINE P == Q \ {n + 1}
  <2>1. P \in SUBSET (1..n) /\ \A x \in Q : x \in P \/ x = n + 1
    OBVIOUS
  <2>2. CASE P = {}
    <3>1. Q = {n + 1}
      BY <2>1, <2>2
    <3> QED BY <3>1
  <2>3. CASE P # {}
    <3>1. Bounded(P)
      BY <1>2, <2>1, <2>3
    <3>2. PICK a \in P : \A x \in P : a <= x
      BY <3>1
    <3>3. PICK b \in P : \A x \in P : b >= x
      BY <3>1
    <3>4. a \in Q /\ \A x \in Q : a <= x
      BY <2>1, <3>2
    <3>5. \E c \in Q : \A x \in Q : c >= x
      <4>1. CASE n + 1 \in Q
        BY <2>1, <4>1
      <4>2. CASE n + 1 \notin Q
        BY <2>1, <3>3, <4>2
      <4> QED BY <4>1, <4>2
    <3> QED BY <3>4, <3>5
  <2> QED BY <2>2, <2>3
<1>3. N \in T
  <2> HIDE DEF T
  <2> QED BY <1>1, <1>2, SetInduction
<1>4. Bounded(S)
  BY <1>3
<1>5. Min(S) \in S /\ \A x \in S : Min(S) <= x
  BY <1>4 DEF Min
<1>6. Max(S) \in S /\ \A x \in S : Max(S) >= x
  BY <1>4 DEF Max
<1>7. \A x \in S : x \in Nat
  OBVIOUS
<1> QED BY <1>5, <1>6, <1>7

(* Positions a to b of a text hold all of it that is not blank.            *)
Span(s, a, b) ==
  /\ a \in 1..Len(s) /\ b \in 1..Len(s) /\ a <= b
  /\ s[a] \notin Space /\ s[b] \notin Space
  /\ \A i \in 1..Len(s) : i < a \/ b < i => s[i] \in Space

(* Trim takes the blanks off both ends.                                    *)
LEMMA TrimSpan ==
  ASSUME NEW C, NEW s \in Seq(C), NEW a, NEW b, Span(s, a, b)
  PROVE  Trim(s) = SubSeq(s, a, b)
<1> DEFINE solid == {i \in DOMAIN s : s[i] \notin Space}
           N == Len(s)
<1>1. N \in Nat /\ DOMAIN s = 1..N
  OBVIOUS
<1>2. /\ a \in 1..N /\ b \in 1..N /\ a \in solid /\ b \in solid
      /\ \A i \in solid : i \in 1..N /\ a <= i /\ i <= b
  BY <1>1 DEF Span
<1>3. solid \in SUBSET (1..N) /\ solid # {}
  BY <1>1, <1>2
<1>4. Trim(s) = SubSeq(s, Min(solid), Max(solid))
  BY <1>3 DEF Trim
<1> HIDE DEF solid, N
<1>5. /\ Min(solid) \in solid /\ \A x \in solid : Min(solid) <= x
      /\ Max(solid) \in solid /\ \A x \in solid : x <= Max(solid)
  BY <1>1, <1>3, Extremes
<1>6. Min(solid) = a /\ Max(solid) = b
  <2> DEFINE x == Min(solid)
             y == Max(solid)
  <2>1. x \in solid /\ y \in solid
    BY <1>5
  <2>2. x <= a /\ a <= x /\ y <= b /\ b <= y
    BY <1>2, <1>5
  <2> HIDE DEF x, y
  <2>3. x \in 1..N /\ y \in 1..N /\ a \in 1..N /\ b \in 1..N
    BY <1>2, <2>1
  <2>4. x = a /\ y = b
    BY <1>1, <2>2, <2>3
  <2> QED BY <2>4 DEF x, y
<1> QED BY <1>4, <1>6

(* A text is blank, or has a span.                                         *)
LEMMA TrimCases ==
  ASSUME NEW C, NEW s \in Seq(C)
  PROVE  \/ Trim(s) = <<>> /\ \A i \in 1..Len(s) : s[i] \in Space
         \/ \E a, b \in 1..Len(s) : Span(s, a, b)
<1> DEFINE solid == {i \in DOMAIN s : s[i] \notin Space}
           N == Len(s)
<1>1. N \in Nat /\ DOMAIN s = 1..N
  OBVIOUS
<1>2. CASE solid = {}
  <2>1. Trim(s) = <<>>
    BY <1>2 DEF Trim
  <2>2. \A i \in 1..N : s[i] \in Space
    BY <1>1, <1>2
  <2> QED BY <2>1, <2>2
<1>3. CASE solid # {}
  <2>1. solid \in SUBSET (1..N)
    BY <1>1
  <2>2. \A i \in 1..N : i \notin solid => s[i] \in Space
    BY <1>1
  <2>3. \A i \in solid : i \in 1..N /\ s[i] \notin Space
    BY <1>1
  <2> HIDE DEF solid
  <2> DEFINE a == Min(solid)
             b == Max(solid)
  <2>4. a \in solid /\ b \in solid /\ \A x \in solid : a <= x /\ x <= b
    BY <1>1, <1>3, <2>1, Extremes
  <2> HIDE DEF a, b
  <2>5. Span(s, a, b)
    BY <1>1, <2>2, <2>3, <2>4 DEF Span
  <2> QED BY <2>3, <2>4, <2>5 DEF N
<1> QED BY <1>2, <1>3

(* A part of a text, character by character.                               *)
LEMMA Part ==
  ASSUME NEW C, NEW s \in Seq(C), NEW a \in 1..Len(s), NEW b \in 1..Len(s), a <= b
  PROVE  /\ SubSeq(s, a, b) \in Seq(C) /\ SubSeq(s, a, b) # <<>>
         /\ Len(SubSeq(s, a, b)) = (b - a) + 1
         /\ \A k \in 1..((b - a) + 1) : SubSeq(s, a, b)[k] = s[(a - 1) + k]
<1>1. Len(s) \in Nat
  OBVIOUS
<1>2. Len(SubSeq(s, a, b)) = (b - a) + 1 /\ SubSeq(s, a, b) \in Seq(C)
  BY <1>1
<1>3. \A k \in 1..((b - a) + 1) : SubSeq(s, a, b)[k] = s[(a - 1) + k]
  BY <1>1
<1>4. SubSeq(s, a, b) # <<>>
  <2>1. Len(<<>>) = 0 /\ (b - a) + 1 # 0
    BY <1>1
  <2> QED BY <1>2, <2>1
<1> QED BY <1>2, <1>3, <1>4

(* The first character of a text.                                          *)
LEMMA First ==
  ASSUME NEW C, NEW s \in Seq(C), Len(s) >= 1
  PROVE  SubSeq(s, 1, 1) = <<s[1]>>
<1>1. Len(s) \in Nat /\ 1 \in 1..Len(s) /\ s[1] \in C
  OBVIOUS
<1>2. SubSeq(s, 1, 1) \in Seq(C) /\ Len(SubSeq(s, 1, 1)) = 1 /\ SubSeq(s, 1, 1)[1] = s[1]
  <2>1. (1 - 1) + 1 = 1 /\ 1 \in 1..1 /\ 1 <= 1
    OBVIOUS
  <2> QED BY <1>1, <2>1, Part
<1> DEFINE x == SubSeq(s, 1, 1)
           c == s[1]
           y == <<c>>
<1>3. c \in C /\ x \in Seq(C) /\ Len(x) = 1 /\ x[1] = c
  BY <1>1, <1>2
<1> HIDE DEF x, c
<1>4. y \in Seq(C) /\ Len(y) = 1 /\ y[1] = c
  BY <1>3
<1> HIDE DEF y
<1>5. Len(x) = Len(y) /\ \A k \in 1..Len(x) : x[k] = y[k]
  BY <1>3, <1>4
<1>6. x = y
  BY <1>3, <1>4, <1>5, SeqEqual
<1> QED BY <1>6 DEF x, y, c

(* A line that asks for n: "read" at r, blanks, one numeral after i up to  *)
(* j, and blanks anywhere else.                                            *)
AskedAt(s, r, i, j, n) ==
  /\ i \in 1..Len(s) /\ j \in 1..Len(s) /\ i < j /\ r \in 1..(i - 1) /\ s[r] = "read"
  /\ IsNumeral(SubSeq(s, i + 1, j)) /\ Positional(SubSeq(s, i + 1, j)) = n
  /\ \A k \in 1..Len(s) : k # r /\ ~(i < k /\ k <= j) => s[k] \in Space

(* The parser's way to a read command.                                     *)
ReadText(text, n) ==
  LET gaps == {i \in DOMAIN text : text[i] \in Space}
  IN /\ text # <<>> /\ gaps # {}
     /\ SubSeq(text, 1, Min(gaps) - 1) = <<"read">>
     /\ n = Reading(Trim(SubSeq(text, Min(gaps), Len(text)))) /\ n \notin {None, 0}

(* A line calls for n if and only if it is parsed to a read command of n.  *)
LEMMA ExecuteRead ==
  ASSUME NEW s, NEW n
  PROVE  execute(s) = <<"CLIENT_READ", n>> <=> ReadText(Trim(s), n)
<1> DEFINE text == Trim(s)
           gaps == {i \in DOMAIN text : text[i] \in Space}
           split == Min(gaps)
           generation == Reading(Trim(SubSeq(text, split, Len(text))))
           cmd == tcs_command_parse(s)
           isread == SubSeq(text, 1, split - 1) = <<"read">> /\ generation \notin {None, 0}
<1>1. cmd = CASE text = <<>> -> Command("EMPTY", 0)
              [] text # <<>> /\ gaps = {} ->
                   IF text \in {<<"help">>, <<"version">>, <<"status">>}
                   THEN Command(text[1], 0) ELSE Invalid
              [] OTHER -> IF isread THEN Command("read", generation) ELSE Invalid
  BY DEF tcs_command_parse
<1>2. ReadText(Trim(s), n) <=> text # <<>> /\ gaps # {} /\ isread /\ n = generation
  BY DEF ReadText
<1> HIDE DEF text, gaps, split, generation, isread
<1>3. execute(s) = CASE cmd.kind = "status" -> <<"CLIENT_STATUS">>
                     [] cmd.kind = "read" -> <<"CLIENT_READ", cmd.generation>>
                     [] OTHER -> <<>>
  BY DEF execute
<1> HIDE DEF cmd
<1>4. CASE text # <<>> /\ gaps # {} /\ isread
  <2>1. cmd.kind = "read" /\ cmd.generation = generation
    BY <1>1, <1>4 DEF Command
  <2>2. execute(s) = <<"CLIENT_READ", generation>>
    BY <1>3, <2>1
  <2>3. <<"CLIENT_READ", generation>> = <<"CLIENT_READ", n>> <=> n = generation
    OBVIOUS
  <2> QED BY <1>2, <1>4, <2>2, <2>3
<1>5. CASE ~(text # <<>> /\ gaps # {} /\ isread)
  <2>1. cmd.kind # "read"
    <3>1. CASE text = <<>>
      BY <1>1, <3>1 DEF Command
    <3>2. CASE text # <<>> /\ gaps = {}
      <4>1. cmd = IF text \in {<<"help">>, <<"version">>, <<"status">>}
                  THEN Command(text[1], 0) ELSE Invalid
        BY <1>1, <3>2
      <4>2. text \in {<<"help">>, <<"version">>, <<"status">>} =>
              text[1] \in {"help", "version", "status"}
        OBVIOUS
      <4> QED BY <4>1, <4>2 DEF Command, Invalid
    <3>3. CASE text # <<>> /\ gaps # {} /\ ~isread
      <4>1. cmd = Invalid
        BY <1>1, <3>3
      <4> QED BY <4>1 DEF Command, Invalid
    <3> QED BY <1>5, <3>1, <3>2, <3>3
  <2>2. execute(s) = <<"CLIENT_STATUS">> \/ execute(s) = <<>>
    BY <1>3, <2>1
  <2>3. <<"CLIENT_READ", n>> # <<"CLIENT_STATUS">> /\ <<"CLIENT_READ", n>> # <<>>
    OBVIOUS
  <2> QED BY <1>2, <1>5, <2>2, <2>3
<1> QED BY <1>4, <1>5

(* A line that asks for a number the code can hold is read.                *)
LEMMA AskedIsRead ==
  ASSUME NEW s \in Seq(Char), NEW r, NEW i, NEW j, NEW n \in 1..UMAX, AskedAt(s, r, i, j, n)
  PROVE  ReadText(Trim(s), n)
<1> DEFINE N == Len(s)
           text == SubSeq(s, r, j)
           L == (j - r) + 1
           gaps == {k \in DOMAIN text : text[k] \in Space}
<1>1. /\ N \in Nat /\ i \in 1..N /\ j \in 1..N /\ r \in 1..N /\ r < i /\ i < j
      /\ s[r] = "read"
      /\ \A k \in 1..N : k # r /\ ~(i < k /\ k <= j) => s[k] \in Space
  BY DEF AskedAt
<1>2. /\ "read" \notin Space
      /\ \A d \in Digit : d \notin Space
  BY DEF Space, Digit, Range, Numerals
<1>3. /\ SubSeq(s, i + 1, j) \in Seq(Char)
      /\ Len(SubSeq(s, i + 1, j)) = j - i
      /\ \A k \in 1..(j - i) : SubSeq(s, i + 1, j)[k] = s[i + k]
  <2>1. i + 1 \in 1..N /\ i + 1 <= j /\ (j - (i + 1)) + 1 = j - i
        /\ \A k \in 1..(j - i) : ((i + 1) - 1) + k = i + k
    BY <1>1
  <2> QED BY <1>1, <2>1, Part
<1>4. \A k \in 1..(j - i) : s[i + k] \in Digit
  <2>1. DOMAIN SubSeq(s, i + 1, j) = 1..(j - i)
    BY <1>1, <1>3
  <2> QED BY <1>3, <2>1 DEF AskedAt, IsNumeral
<1> HIDE DEF N
<1>5. Span(s, r, j)
  <2>1. s[j] \in Digit
    <3>1. j - i \in 1..(j - i) /\ i + (j - i) = j
      BY <1>1
    <3> QED BY <1>4, <3>1
  <2> QED BY <1>1, <1>2, <2>1 DEF Span, N
<1>6. Trim(s) = text
  BY <1>5, TrimSpan
<1>7. /\ text \in Seq(Char) /\ text # <<>> /\ Len(text) = L
      /\ \A k \in 1..L : text[k] = s[(r - 1) + k]
  <2>1. r \in 1..Len(s) /\ j \in 1..Len(s) /\ r <= j
    BY <1>1 DEF N
  <2> QED BY <2>1, Part
<1>8. L \in Nat /\ L >= 3
  BY <1>1
<1> HIDE DEF text, L
<1>9. text[1] = "read" /\ text[2] \in Space
  <2>1. 1 \in 1..L /\ 2 \in 1..L /\ (r - 1) + 1 = r /\ (r - 1) + 2 = r + 1
    BY <1>1, <1>8
  <2>2. s[r + 1] \in Space
    BY <1>1
  <2> QED BY <1>1, <1>7, <2>1, <2>2
<1>10. Min(gaps) = 2 /\ gaps # {}
  <2>1. DOMAIN text = 1..L
    BY <1>7
  <2>2. gaps \in SUBSET (1..L) /\ 2 \in gaps /\ 1 \notin gaps
    BY <1>2, <1>8, <1>9, <2>1
  <2> HIDE DEF gaps
  <2>3. Min(gaps) \in gaps /\ \A x \in gaps : Min(gaps) <= x
    BY <1>8, <2>2, Extremes
  <2>4. Min(gaps) \in 1..L /\ Min(gaps) <= 2 /\ Min(gaps) # 1
    BY <2>2, <2>3
  <2> QED BY <1>8, <2>2, <2>4
<1>11. SubSeq(text, 1, 1) = <<"read">>
  <2>1. Len(text) >= 1
    BY <1>7, <1>8
  <2>2. SubSeq(text, 1, 1) = <<text[1]>>
    BY <1>7, <2>1, First
  <2> QED BY <1>9, <2>2
<1> DEFINE u == SubSeq(text, 2, L)
<1>12. /\ u \in Seq(Char) /\ Len(u) = L - 1
       /\ \A k \in 1..(L - 1) : u[k] = s[r + k]
  <2>1. 2 \in 1..L /\ L \in 1..L /\ 2 <= L /\ (L - 2) + 1 = L - 1
    BY <1>8
  <2>2. /\ u \in Seq(Char) /\ Len(u) = L - 1
        /\ \A k \in 1..(L - 1) : u[k] = text[(2 - 1) + k]
    BY <1>7, <2>1, Part
  <2>3. ASSUME NEW k \in 1..(L - 1) PROVE text[(2 - 1) + k] = s[r + k]
    <3>1. (2 - 1) + k \in 1..L /\ (r - 1) + ((2 - 1) + k) = r + k
      BY <1>1, <1>8
    <3> QED BY <1>7, <3>1
  <2> HIDE DEF u
  <2> QED BY <2>2, <2>3
<1> HIDE DEF u
<1> DEFINE a == (i + 1) - r
           b == j - r
<1>13. a \in 1..(L - 1) /\ b = L - 1 /\ b \in 1..(L - 1) /\ a <= b /\ r + a = i + 1 /\ r + b = j
  BY <1>1 DEF L
<1>14. Span(u, a, b)
  <2>1. s[i + 1] \in Digit /\ s[j] \in Digit
    <3>1. 1 \in 1..(j - i) /\ j - i \in 1..(j - i) /\ i + (j - i) = j
      BY <1>1
    <3> QED BY <1>4, <3>1
  <2>2. u[a] \notin Space /\ u[b] \notin Space
    BY <1>2, <1>12, <1>13, <2>1
  <2>3. ASSUME NEW k \in 1..(L - 1), k < a \/ b < k PROVE u[k] \in Space
    <3>1. r + k \in 1..N /\ r + k # r /\ ~(i < r + k /\ r + k <= j)
      BY <1>1, <1>13, <2>3
    <3> QED BY <1>1, <1>12, <3>1
  <2> HIDE DEF a, b
  <2> QED BY <1>12, <1>13, <2>2, <2>3 DEF Span
<1>15. Trim(u) = SubSeq(u, a, b)
  BY <1>12, <1>14, TrimSpan
<1>16. SubSeq(u, a, b) = SubSeq(s, i + 1, j)
  <2> DEFINE x == SubSeq(u, a, b)
             y == SubSeq(s, i + 1, j)
  <2>1. /\ x \in Seq(Char) /\ Len(x) = (b - a) + 1
        /\ \A k \in 1..((b - a) + 1) : x[k] = u[(a - 1) + k]
    <3> HIDE DEF a, b
    <3> QED BY <1>12, <1>13, Part
  <2>2. (b - a) + 1 = j - i
    BY <1>1
  <2>3. ASSUME NEW k \in 1..(j - i) PROVE u[(a - 1) + k] = s[i + k]
    <3>1. (a - 1) + k \in 1..(L - 1) /\ r + ((a - 1) + k) = i + k
      BY <1>1, <1>13
    <3> QED BY <1>12, <3>1
  <2> HIDE DEF x, y, a, b
  <2>4. y \in Seq(Char) /\ Len(y) = j - i /\ \A k \in 1..(j - i) : y[k] = s[i + k]
    BY <1>3 DEF y
  <2>5. Len(x) = Len(y) /\ \A k \in 1..Len(x) : x[k] = y[k]
    BY <2>1, <2>2, <2>3, <2>4
  <2>6. x = y
    BY <2>1, <2>4, <2>5, SeqEqual
  <2> QED BY <2>6 DEF x, y
<1>17. Reading(Trim(u)) = n
  <2> DEFINE y == SubSeq(s, i + 1, j)
  <2>1. IsNumeral(y) /\ Positional(y) = n /\ y \in Seq(Char)
    BY <1>3 DEF AskedAt
  <2> HIDE DEF y
  <2>2. y \in Seq(Digit)
    BY <2>1, NumeralDigits
  <2>3. Reading(y) = IF Positional(y) <= UMAX THEN Positional(y) ELSE None
    BY <2>2, ReadingValue
  <2>4. n <= UMAX
    OBVIOUS
  <2> QED BY <1>15, <1>16, <2>1, <2>3, <2>4 DEF y
<1>18. n \notin {None, 0} /\ 2 - 1 = 1
  BY DEF None
<1>19. ReadText(text, n)
  <2>1. SubSeq(text, 1, Min(gaps) - 1) = <<"read">>
    BY <1>10, <1>11, <1>18
  <2>2. n = Reading(Trim(SubSeq(text, Min(gaps), Len(text))))
    BY <1>7, <1>10, <1>17 DEF u
  <2> QED BY <1>7, <1>10, <1>18, <2>1, <2>2 DEF ReadText
<1> QED BY <1>6, <1>19

(* A line that is read asks for the number, which the code can hold.       *)
LEMMA ReadIsAsked ==
  ASSUME NEW s \in Seq(Char), NEW n, ReadText(Trim(s), n)
  PROVE  n \in 1..UMAX /\ \E r, i, j : AskedAt(s, r, i, j, n)
<1> DEFINE N == Len(s)
<1>1. Trim(s) # <<>>
  BY DEF ReadText
<1>2. PICK a, b \in 1..Len(s) : Span(s, a, b)
  BY <1>1, TrimCases
<1>3. /\ N \in Nat /\ a \in 1..N /\ b \in 1..N /\ a <= b
      /\ s[b] \notin Space
      /\ \A k \in 1..N : k < a \/ b < k => s[k] \in Space
  BY <1>2 DEF Span
<1> DEFINE text == SubSeq(s, a, b)
           L == (b - a) + 1
           gaps == {k \in DOMAIN text : text[k] \in Space}
<1>4. Trim(s) = text
  BY <1>2, TrimSpan
<1>5. /\ text \in Seq(Char) /\ text # <<>> /\ Len(text) = L
      /\ \A k \in 1..L : text[k] = s[(a - 1) + k]
  BY <1>3, Part
<1>6. L \in Nat /\ L >= 1
  BY <1>3
<1>7. /\ gaps # {} /\ SubSeq(text, 1, Min(gaps) - 1) = <<"read">>
      /\ n = Reading(Trim(SubSeq(text, Min(gaps), Len(text)))) /\ n \notin {None, 0}
  BY <1>4 DEF ReadText
<1> HIDE DEF N, text, L
<1>8. DOMAIN text = 1..L
  BY <1>5
<1>9. /\ Min(gaps) \in 1..L /\ text[Min(gaps)] \in Space
  <2>1. gaps \in SUBSET (1..L)
    BY <1>8
  <2>2. Min(gaps) \in gaps
    <3> HIDE DEF gaps
    <3> QED BY <1>6, <1>7, <2>1, Extremes
  <2> QED BY <1>8, <2>2
<1> DEFINE split == Min(gaps)
<1>10. split \in 1..L /\ text[split] \in Space /\ SubSeq(text, 1, split - 1) = <<"read">>
       /\ n = Reading(Trim(SubSeq(text, split, L)))
  BY <1>5, <1>7, <1>9
<1> HIDE DEF gaps, split
<1>11. split = 2 /\ text[1] = "read"
  <2>1. Len(<<"read">>) = 1 /\ <<"read">>[1] = "read" /\ <<"read">> # <<>>
    OBVIOUS
  <2>2. CASE split = 1
    <3>1. 1 - 1 = 0 /\ SubSeq(text, 1, 0) = <<>>
      BY <1>5
    <3> QED BY <1>10, <2>1, <2>2, <3>1
  <2>3. CASE split # 1
    <3>1. split - 1 \in 1..L /\ 1 \in 1..L /\ 1 <= split - 1 /\ ((split - 1) - 1) + 1 = split - 1
      BY <1>6, <1>10, <2>3
    <3>2. /\ Len(SubSeq(text, 1, split - 1)) = split - 1
          /\ \A k \in 1..(split - 1) : SubSeq(text, 1, split - 1)[k] = text[(1 - 1) + k]
      BY <1>5, <3>1, Part
    <3>3. split - 1 = 1
      BY <1>10, <2>1, <3>2
    <3>4. 1 \in 1..(split - 1) /\ (1 - 1) + 1 = 1
      BY <3>3
    <3>5. text[1] = "read"
      BY <1>10, <2>1, <3>2, <3>4
    <3> QED BY <1>10, <3>3, <3>5
  <2> QED BY <2>2, <2>3
<1>12. L >= 2 /\ text[2] \in Space /\ n = Reading(Trim(SubSeq(text, 2, L)))
  BY <1>6, <1>10, <1>11
<1> DEFINE u == SubSeq(text, 2, L)
<1>13. /\ u \in Seq(Char) /\ Len(u) = L - 1
       /\ \A k \in 1..(L - 1) : u[k] = s[a + k]
  <2>1. 2 \in 1..L /\ L \in 1..L /\ 2 <= L /\ (L - 2) + 1 = L - 1
    BY <1>6, <1>12
  <2>2. /\ u \in Seq(Char) /\ Len(u) = L - 1
        /\ \A k \in 1..(L - 1) : u[k] = text[(2 - 1) + k]
    BY <1>5, <2>1, Part
  <2>3. ASSUME NEW k \in 1..(L - 1) PROVE text[(2 - 1) + k] = s[a + k]
    <3>1. (2 - 1) + k \in 1..L /\ (a - 1) + ((2 - 1) + k) = a + k
      BY <1>3, <1>6
    <3> QED BY <1>5, <3>1
  <2> HIDE DEF u
  <2> QED BY <2>2, <2>3
<1>14. n = Reading(Trim(u))
  BY <1>12
<1> HIDE DEF u
<1>15. L - 1 \in 1..(L - 1) /\ 1 \in 1..(L - 1) /\ a + (L - 1) = b
  BY <1>3, <1>6, <1>12 DEF L
<1>16. u[L - 1] \notin Space /\ u[1] \in Space
  <2>1. 2 \in 1..L /\ (a - 1) + 2 = a + 1
    BY <1>3, <1>6, <1>12
  <2>2. s[a + 1] \in Space
    BY <1>5, <1>12, <2>1
  <2> QED BY <1>3, <1>13, <1>15, <2>2
<1>17. PICK p, q \in 1..Len(u) : Span(u, p, q)
  <2>1. ~(\A k \in 1..Len(u) : u[k] \in Space)
    BY <1>13, <1>15, <1>16
  <2> QED BY <1>13, <2>1, TrimCases
<1>18. p \in 1..(L - 1) /\ q = L - 1 /\ p # 1 /\ p <= q
       /\ \A k \in 1..(L - 1) : k < p => u[k] \in Space
  <2>1. /\ p \in 1..(L - 1) /\ q \in 1..(L - 1) /\ p <= q /\ u[p] \notin Space
        /\ \A k \in 1..(L - 1) : k < p \/ q < k => u[k] \in Space
    BY <1>13, <1>17 DEF Span
  <2>2. ~(q < L - 1)
    BY <1>15, <1>16, <2>1
  <2>3. q = L - 1
    BY <1>6, <2>1, <2>2
  <2> QED BY <1>16, <2>1, <2>3
<1> DEFINE i == (a + p) - 1
           y == SubSeq(s, i + 1, b)
           x == SubSeq(u, p, q)
<1>19. Trim(u) = x
  BY <1>13, <1>17, TrimSpan
<1>20. /\ i \in 1..N /\ a \in 1..(i - 1) /\ i < b /\ i + 1 \in 1..N /\ i + 1 <= b
       /\ (b - (i + 1)) + 1 = (q - p) + 1 /\ (q - p) + 1 >= 1 /\ (q - p) + 1 \in Nat
  BY <1>3, <1>6, <1>12, <1>15, <1>18
<1>21. x = y /\ x \in Seq(Char) /\ Len(x) = (q - p) + 1
  <2>1. /\ x \in Seq(Char) /\ Len(x) = (q - p) + 1
        /\ \A k \in 1..((q - p) + 1) : x[k] = u[(p - 1) + k]
    <3>1. u \in Seq(Char) /\ p <= q
      BY <1>13, <1>18
    <3>2. p \in 1..Len(u) /\ q \in 1..Len(u)
      OBVIOUS
    <3> QED BY ONLY <3>1, <3>2, Part DEF x
  <2>2. /\ y \in Seq(Char) /\ Len(y) = (q - p) + 1
        /\ \A k \in 1..((q - p) + 1) : y[k] = s[((i + 1) - 1) + k]
    <3> HIDE DEF i
    <3>1. i + 1 \in 1..Len(s) /\ b \in 1..Len(s) /\ i + 1 <= b
      BY <1>3, <1>20 DEF N
    <3> QED BY <1>20, <3>1, Part
  <2>3. ASSUME NEW k \in 1..((q - p) + 1) PROVE u[(p - 1) + k] = s[((i + 1) - 1) + k]
    <3>1. (p - 1) + k \in 1..(L - 1) /\ a + ((p - 1) + k) = ((i + 1) - 1) + k
      BY <1>3, <1>6, <1>18
    <3> QED BY <1>13, <3>1
  <2> HIDE DEF x, y, i
  <2>4. Len(x) = Len(y) /\ \A k \in 1..Len(x) : x[k] = y[k]
    BY <2>1, <2>2, <2>3
  <2>5. x = y
    BY <2>1, <2>2, <2>4, SeqEqual
  <2> QED BY <2>1, <2>5
<1> HIDE DEF x, y, i
<1>22. x # <<>> /\ DOMAIN x = 1..Len(x)
  BY <1>20, <1>21
<1>23. n = Reading(x) /\ n # None /\ n # 0
  BY <1>7, <1>14, <1>19
<1>24. IsNumeral(x)
  <2>1. ASSUME NEW k \in 1..Len(x), x[k] \notin Digit PROVE FALSE
    BY <1>21, <1>23, <2>1, ReadingRefused
  <2> QED BY <1>22, <2>1 DEF IsNumeral
<1>25. n = Positional(x) /\ n \in 1..UMAX
  <2>1. x \in Seq(Digit)
    BY <1>21, <1>24, NumeralDigits
  <2>2. /\ Positional(x) \in Nat
        /\ Reading(x) = IF Positional(x) <= UMAX THEN Positional(x) ELSE None
    BY <2>1, ReadingValue
  <2>3. UMAX \in Nat
    BY InputAssumption
  <2>4. n = Positional(x) /\ Positional(x) <= UMAX
    BY <1>23, <2>2
  <2> QED BY <1>23, <2>2, <2>3, <2>4
<1>26. s[a] = "read"
  <2>1. 1 \in 1..L /\ (a - 1) + 1 = a
    BY <1>3, <1>6
  <2> QED BY <1>5, <1>11, <2>1
<1>27. ASSUME NEW k \in 1..N, k # a, ~(i < k /\ k <= b) PROVE s[k] \in Space
  <2>1. CASE k < a \/ b < k
    BY <1>3, <2>1
  <2>2. CASE ~(k < a \/ b < k)
    <3>1. k - a \in 1..(L - 1) /\ k - a < p /\ a + (k - a) = k
      BY <1>3, <1>6, <1>15, <1>18, <1>27, <2>2 DEF i
    <3> QED BY <1>13, <1>18, <3>1
  <2> QED BY <2>1, <2>2
<1>28. AskedAt(s, a, i, b, n)
  <2>1. IsNumeral(SubSeq(s, i + 1, b)) /\ Positional(SubSeq(s, i + 1, b)) = n
    BY <1>21, <1>24, <1>25 DEF y
  <2> QED BY <1>3, <1>20, <1>26, <1>27, <2>1 DEF AskedAt, N
<1> QED BY <1>25, <1>28
=============================================================================
