------------------------- MODULE HttpFramingProofs -------------------------
(***************************************************************************)
(* For every set of streams, every buffer size and every way TCP may cut a *)
(* stream: a message that is handed on is exactly its declared content,    *)
(* and one that conforms is never given up.                                *)
(*                                                                         *)
(* The invariant relates what the machine holds to a position p in the     *)
(* stream: p tokens have left the buffer; the header block being read      *)
(* began at s, the line being read, with its continuations, at l.          *)
(***************************************************************************)
EXTENDS HttpFraming, WellFoundedInduction, SequenceTheorems, TLAPS

Pos == Len(msg) - Len(stream) - Len(chunk)

(* Buffer ck and unread stream st are what follows position p of m. *)
Window(m, p, ck, st) ==
  /\ m \in Seq(STRING) /\ ck \in Seq(STRING) /\ st \in Seq(STRING)
  /\ p \in Nat /\ p + Len(ck) + Len(st) = Len(m)
  /\ \A i \in 1 .. Len(ck) : ck[i] = m[p + i]
  /\ \A i \in 1 .. Len(st) : st[i] = m[p + Len(ck) + i]

(* Only blocks of 100 Continue lie before s. *)
Block(m, p, s) ==
  /\ s \in 1 .. p + 1
  /\ StartsBlock(m, s)
  /\ \A t \in 1 .. s - 1 : StartsBlock(m, t) => m[t] = "S100"

(* field holds the first Content-Length between a and b. *)
FieldAt(m, i) == StartsLine(m, i) /\ m[i] \in DOMAIN LengthOf
FirstField(m, a, b, field) ==
  IF field = <<>>
  THEN \A i \in a .. b : ~FieldAt(m, i)
  ELSE \E i \in a .. b : /\ FieldAt(m, i)
                         /\ field = <<LengthOf[m[i]]>>
                         /\ \A j \in a .. i - 1 : ~FieldAt(m, j)

(* The lines before l have been parsed; ln is what there is of the one at l. *)
Lines(m, p, s, l, ln, first, field) ==
  /\ l \in s .. p + 1
  /\ StartsLine(m, l)
  /\ ln \in Seq(STRING)
  /\ ln # <<>> => /\ l <= p
                  /\ Head(ln) = m[l]
                  /\ \A j \in l + 1 .. p : StartsLine(m, j) => m[j] = "SP"
  /\ first = <<>> <=> l = s
  /\ first # <<>> => Head(first) = m[s]
  /\ FirstField(m, s + 1, l - 1, field)

NoBlank(m, a, b) == \A i \in a .. b : i \notin BlankLines(m)

(* Where in the line at l each state of the machine is. *)
InHeaderLine(m, p, s, l, ln) ==
  /\ NoBlank(m, s, p)
  /\ IF ln = <<>>
     THEN l = p + 1
     ELSE \/ ~StartsLine(m, p + 1) /\ m[p] # "CR"
          \/ p + 1 <= Len(m) /\ m[p + 1] = "SP"
InPendingCR(m, p, s, l, ln) ==
  /\ NoBlank(m, s, p - 1)
  /\ l <= p /\ m[p] = "CR"
  /\ IF ln = <<>> THEN l = p ELSE ~StartsLine(m, p)
InPendingHeaderLine(m, p, s, ln) ==
  /\ NoBlank(m, s, p)
  /\ ln # <<>> /\ p \in LineEnds(m)
InSwitchToBody(m, p, s, l, ln) ==
  /\ NoBlank(m, s, p - 1)
  /\ ln = <<>> /\ l <= p /\ p \in BlankLines(m)
  /\ \A j \in l .. p : m[j] \in {"CR", "LF"}

InBlock(state, m, p, s, l, ln) ==
  \/ state = "HeaderLine" /\ InHeaderLine(m, p, s, l, ln)
  \/ state = "PendingCR" /\ InPendingCR(m, p, s, l, ln)
  \/ state = "PendingHeaderLine" /\ InPendingHeaderLine(m, p, s, ln)
  \/ state = "SwitchToBody" /\ InSwitchToBody(m, p, s, l, ln)

InHeader(state, m, p, ln, first, field) ==
  \E s \in 1 .. p + 1 :
    /\ Block(m, p, s)
    /\ IF state = "Start"
       THEN p = s - 1
       ELSE \E l \in s .. p + 1 : /\ Lines(m, p, s, l, ln, first, field)
                                  /\ InBlock(state, m, p, s, l, ln)

(* bd is what follows position h of m. *)
Part(bd, m, h) == bd \in Seq(STRING) /\ \A i \in 1 .. Len(bd) : bd[i] = m[h + i]

(* A remainder below zero: more came than was declared. *)
InBody(m, p, ck, field, rm, bd) ==
  /\ HeaderEnds(m) # {} /\ HeaderEnd(m) \in 1 .. Len(m)
  /\ p = HeaderEnd(m) + Len(bd) /\ Part(bd, m, HeaderEnd(m))
  /\ rm \in Int
  /\ IF field = <<>>
     THEN ~HasLength(m) /\ rm = -1
     ELSE /\ HasLength(m) /\ field = <<DeclaredLength(m)>>
          /\ DeclaredLength(m) \in Int
          /\ rm >= 0 => rm = DeclaredLength(m) - Len(bd) - Len(ck)
          /\ rm < 0 => DeclaredLength(m) < Len(Content(m))

LoopInv ==
  /\ pc \in {"read", "machine", "check", "failed", "delivered"}
  /\ pc # "machine" => chunk = <<>> /\ connstate # "SwitchToBody"
  /\ pc \in {"read", "failed"} => remain # 0
  /\ pc = "delivered" => remain = 0
  /\ pc = "failed" => stream = <<>>

HeaderInv ==
  connstate # "Body" =>
    remain = -1 /\ body = <<>> /\ InHeader(connstate, msg, Pos, line, firstLine, lengthField)
BodyInv == connstate = "Body" => InBody(msg, Pos, chunk, lengthField, remain, body)

IInv == Window(msg, Pos, chunk, stream) /\ LoopInv /\ HeaderInv /\ BodyInv

-----------------------------------------------------------------------------
(***************************************************************************)
(* The window.                                                             *)
(***************************************************************************)
LEMMA WindowSkip ==
    ASSUME NEW m, NEW p, NEW ck, NEW st, Window(m, p, ck, st), ck # <<>>
    PROVE  /\ Window(m, p + 1, Tail(ck), st)
           /\ Head(ck) = m[p + 1] /\ p + 1 \in 1 .. Len(m) /\ Len(Tail(ck)) = Len(ck) - 1
<1>1. /\ m \in Seq(STRING) /\ ck \in Seq(STRING) /\ st \in Seq(STRING)
      /\ p \in Nat /\ p + Len(ck) + Len(st) = Len(m)
      /\ \A i \in 1 .. Len(ck) : ck[i] = m[p + i]
      /\ \A i \in 1 .. Len(st) : st[i] = m[p + Len(ck) + i]
    BY DEF Window
<1>2. Len(ck) \in Nat /\ Len(st) \in Nat /\ Len(ck) # 0  BY <1>1
<1>3. /\ Tail(ck) \in Seq(STRING) /\ Len(Tail(ck)) = Len(ck) - 1
      /\ \A i \in 1 .. Len(Tail(ck)) : Tail(ck)[i] = ck[i + 1]
      /\ Head(ck) = ck[1]
    BY <1>1, <1>2
<1>4. \A i \in 1 .. Len(Tail(ck)) : Tail(ck)[i] = m[p + 1 + i]
    <2> SUFFICES ASSUME NEW i \in 1 .. Len(Tail(ck)) PROVE Tail(ck)[i] = m[p + 1 + i]
        OBVIOUS
    <2>1. i + 1 \in 1 .. Len(ck)  BY <1>2, <1>3
    <2>2. ck[i + 1] = m[p + (i + 1)]  BY <1>1, <2>1
    <2>3. p + (i + 1) = p + 1 + i  BY <1>1
    <2> QED  BY <1>3, <2>2, <2>3
<1>5. \A i \in 1 .. Len(st) : st[i] = m[p + 1 + Len(Tail(ck)) + i]
    <2> SUFFICES ASSUME NEW i \in 1 .. Len(st) PROVE st[i] = m[p + 1 + Len(Tail(ck)) + i]
        OBVIOUS
    <2>1. p + 1 + Len(Tail(ck)) + i = p + Len(ck) + i  BY <1>1, <1>2, <1>3
    <2> QED  BY <1>1, <2>1
<1>6. p + 1 \in 1 .. Len(m) /\ p + 1 \in Nat /\ p + 1 + Len(Tail(ck)) + Len(st) = Len(m)
    BY <1>1, <1>2, <1>3
<1>7. Head(ck) = m[p + 1]  BY <1>1, <1>2, <1>3
<1> QED  BY <1>1, <1>3, <1>4, <1>5, <1>6, <1>7 DEF Window

LEMMA WindowRead ==
    ASSUME NEW m, NEW p, NEW st, Window(m, p, <<>>, st), NEW n \in 1 .. Len(st)
    PROVE  /\ Window(m, p, SubSeq(st, 1, n), SubSeq(st, n + 1, Len(st)))
           /\ Len(SubSeq(st, 1, n)) = n
           /\ Len(SubSeq(st, n + 1, Len(st))) = Len(st) - n
<1> DEFINE a == SubSeq(st, 1, n)
           b == SubSeq(st, n + 1, Len(st))
<1>1. /\ m \in Seq(STRING) /\ st \in Seq(STRING) /\ p \in Nat /\ p + Len(st) = Len(m)
      /\ \A i \in 1 .. Len(st) : st[i] = m[p + i]
    <2>1. Len(<<>>) = 0  OBVIOUS
    <2>2. Window(m, p, <<>>, st)  OBVIOUS
    <2>3. p \in Nat /\ Len(st) \in Nat  BY <2>2 DEF Window
    <2>4. \A i : p + 0 + i = p + i  BY <2>3
    <2> QED  BY <2>1, <2>2, <2>3, <2>4 DEF Window
<1>2. Len(st) \in Nat  BY <1>1
<1>3. /\ a \in Seq(STRING) /\ Len(a) = n /\ \A i \in 1 .. n : a[i] = st[i]
    BY <1>1, <1>2
<1>4. /\ b \in Seq(STRING) /\ Len(b) = Len(st) - n
      /\ \A i \in 1 .. Len(b) : b[i] = st[n + i]
    BY <1>1, <1>2
<1> HIDE DEF a, b
<1>5. \A i \in 1 .. Len(a) : a[i] = m[p + i]  BY <1>1, <1>2, <1>3
<1>6. \A i \in 1 .. Len(b) : b[i] = m[p + Len(a) + i]
    <2> SUFFICES ASSUME NEW i \in 1 .. Len(b) PROVE b[i] = m[p + Len(a) + i]  OBVIOUS
    <2>1. n + i \in 1 .. Len(st)  BY <1>2, <1>4
    <2>2. p + (n + i) = p + Len(a) + i  BY <1>1, <1>3
    <2> QED  BY <1>1, <1>4, <2>1, <2>2
<1>7. Window(m, p, a, b)
    <2>1. n \in Nat /\ p \in Nat /\ Len(st) \in Nat  BY <1>1, <1>2
    <2>2. p + n + (Len(st) - n) = Len(m)  BY <1>1, <2>1
    <2>3. p + Len(a) + Len(b) = Len(m)  BY <1>3, <1>4, <2>2
    <2> QED  BY <1>1, <1>3, <1>4, <1>5, <1>6, <2>3 DEF Window
<1> QED  BY <1>3, <1>4, <1>7 DEF a, b

LEMMA WindowParse ==
    ASSUME NEW m, NEW p, NEW ck, NEW st, Window(m, p, ck, st)
    PROVE  Window(m, p + Len(ck), <<>>, st) /\ p + Len(ck) <= Len(m)
<1>1. /\ m \in Seq(STRING) /\ ck \in Seq(STRING) /\ st \in Seq(STRING)
      /\ p \in Nat /\ p + Len(ck) + Len(st) = Len(m)
      /\ \A i \in 1 .. Len(ck) : ck[i] = m[p + i]
      /\ \A i \in 1 .. Len(st) : st[i] = m[p + Len(ck) + i]
    BY DEF Window
<1>2. Len(ck) \in Nat /\ Len(st) \in Nat  BY <1>1
<1>3. p + Len(ck) \in Nat /\ p + Len(ck) + 0 + Len(st) = Len(m) /\ p + Len(ck) <= Len(m)
    BY <1>1, <1>2
<1>4. \A i \in 1 .. Len(st) : st[i] = m[p + Len(ck) + 0 + i]
    <2> SUFFICES ASSUME NEW i \in 1 .. Len(st) PROVE st[i] = m[p + Len(ck) + 0 + i]  OBVIOUS
    <2>1. p + Len(ck) + 0 + i = p + Len(ck) + i  BY <1>1, <1>2
    <2> QED  BY <1>1, <2>1
<1>5. <<>> \in Seq(STRING) /\ Len(<<>>) = 0  OBVIOUS
<1>6. \A i \in 1 .. 0 : <<>>[i] = m[p + Len(ck) + i]  OBVIOUS
<1> QED  BY <1>1, <1>3, <1>4, <1>5, <1>6 DEF Window

(***************************************************************************)
(* The least element of a set.                                             *)
(***************************************************************************)
LEMMA NatMinimum ==
    ASSUME NEW T, T \subseteq Nat, T # {}
    PROVE  \E n \in T : \A j \in T : n <= j
<1> DEFINE R == OpToRel(<, Nat)
<1>1. PICK n \in T : \A j \in T : ~(<<j, n>> \in R)
    BY NatLessThanWellFounded, WFMin
<1>2. \A x, y \in Nat : <<x, y>> \in R <=> x < y
    BY DEF OpToRel
<1> HIDE DEF R
<1>3. ASSUME NEW j \in T PROVE n <= j
    <2>1. n \in Nat /\ j \in Nat /\ ~(j < n)  BY <1>1, <1>2
    <2> QED  BY <2>1
<1> QED  BY <1>3

LEMMA LeastIs ==
    ASSUME NEW S \in SUBSET Int, NEW i \in S, \A j \in S : i <= j
    PROVE  Least(S) = i
<1>1. Least(S) \in S /\ \A j \in S : Least(S) <= j  BY Zenon DEF Least
<1>2. Least(S) <= i /\ i <= Least(S)  BY <1>1
<1>3. Least(S) \in Int /\ i \in Int  BY <1>1
<1> QED  BY <1>2, <1>3

-----------------------------------------------------------------------------
(***************************************************************************)
(* One token further within a line.                                        *)
(***************************************************************************)
LEMMA LinesOn ==
    ASSUME NEW m, NEW p \in Nat, NEW s \in Nat \ {0}, NEW l, NEW ln, NEW first, NEW field,
           Lines(m, p, s, l, ln, first, field),
           ln # <<>> => (StartsLine(m, p + 1) => m[p + 1] = "SP")
    PROVE  Lines(m, p + 1, s, l, ln, first, field) /\ l \in s .. p + 1 + 1
<1>1. l \in s .. p + 1 + 1  BY DEF Lines
<1>2. ASSUME ln # <<>>, NEW j \in l + 1 .. p + 1, StartsLine(m, j)
      PROVE  m[j] = "SP"
    <2>1. l \in Int /\ (j \in l + 1 .. p \/ j = p + 1)  BY <1>1
    <2> QED  BY <1>2, <2>1 DEF Lines
<1>3. l <= p => l <= p + 1  BY <1>1
<1> QED  BY <1>1, <1>2, <1>3 DEF Lines

LEMMA LinesAppend ==
    ASSUME NEW m \in Seq(STRING), NEW p \in Nat, NEW s \in Nat \ {0}, NEW l, NEW ln,
           NEW first, NEW field,
           p + 1 \in 1 .. Len(m),
           Lines(m, p, s, l, ln, first, field),
           ln = <<>> => l = p + 1,
           ln # <<>> => (StartsLine(m, p + 1) => m[p + 1] = "SP")
    PROVE  /\ Lines(m, p + 1, s, l, Append(ln, m[p + 1]), first, field)
           /\ l \in s .. p + 1 + 1
           /\ Append(ln, m[p + 1]) # <<>>
<1> DEFINE new == Append(ln, m[p + 1])
<1>1. l \in s .. p + 1 + 1 /\ ln \in Seq(STRING) /\ m[p + 1] \in STRING  BY DEF Lines
<1>2. new \in Seq(STRING) /\ new # <<>>  BY <1>1
<1>3. l <= p + 1 /\ Head(new) = m[l]
    <2>1. CASE ln = <<>>
        <3>1. Head(Append(<<>>, m[p + 1])) = m[p + 1]  OBVIOUS
        <3> QED  BY <2>1, <1>1, <3>1
    <2>2. CASE ln # <<>>
        <3>1. Head(new) = Head(ln)  BY <1>1, <2>2
        <3> QED  BY <2>2, <3>1 DEF Lines
    <2> QED  BY <2>1, <2>2
<1>4. ASSUME NEW j \in l + 1 .. p + 1, StartsLine(m, j)
      PROVE  m[j] = "SP"
    <2>1. l \in Int /\ (j \in l + 1 .. p \/ j = p + 1)  BY <1>1
    <2>2. ln # <<>>  BY <1>1, <2>1
    <2> QED  BY <1>4, <2>1, <2>2 DEF Lines
<1> HIDE DEF new
<1>5. Lines(m, p + 1, s, l, new, first, field)  BY <1>1, <1>2, <1>3, <1>4 DEF Lines
<1> QED  BY <1>1, <1>2, <1>5 DEF new

(***************************************************************************)
(* MachineHeaderLine.                                                      *)
(***************************************************************************)
LEMMA HeaderLineCR ==
    ASSUME NEW m \in Seq(STRING), NEW p \in Nat, NEW s \in Nat \ {0}, NEW l, NEW ln,
           NEW first, NEW field,
           p + 1 \in 1 .. Len(m), m[p + 1] = "CR",
           Lines(m, p, s, l, ln, first, field), InHeaderLine(m, p, s, l, ln)
    PROVE  /\ Lines(m, p + 1, s, l, ln, first, field) /\ l \in s .. p + 1 + 1
           /\ InPendingCR(m, p + 1, s, l, ln)
<1>1. ln # <<>> => ~StartsLine(m, p + 1)  BY DEF InHeaderLine
<1>2. Lines(m, p + 1, s, l, ln, first, field) /\ l \in s .. p + 1 + 1  BY <1>1, LinesOn
<1>3. NoBlank(m, s, p + 1 - 1)
    <2>1. p + 1 - 1 = p  OBVIOUS
    <2> QED  BY <2>1 DEF InHeaderLine
<1>4. l <= p + 1  BY <1>2 DEF InHeaderLine, Lines
<1> QED  BY <1>1, <1>2, <1>3, <1>4 DEF InHeaderLine, InPendingCR

LEMMA NoBlankOn ==
    ASSUME NEW m, NEW a \in Int, NEW b \in Int, NoBlank(m, a, b), b + 1 \notin BlankLines(m)
    PROVE  NoBlank(m, a, b + 1)
<1>1. \A i \in a .. b + 1 : i \in a .. b \/ i = b + 1  OBVIOUS
<1> QED  BY <1>1 DEF NoBlank

LEMMA HeaderLineLF ==
    ASSUME NEW m \in Seq(STRING), NEW p \in Nat, NEW s \in Nat \ {0}, NEW l, NEW ln,
           NEW first, NEW field,
           p + 1 \in 1 .. Len(m), m[p + 1] = "LF",
           Lines(m, p, s, l, ln, first, field), InHeaderLine(m, p, s, l, ln)
    PROVE  /\ Lines(m, p + 1, s, l, ln, first, field) /\ l \in s .. p + 1 + 1
           /\ ln = <<>> => InSwitchToBody(m, p + 1, s, l, ln)
           /\ ln # <<>> => InPendingHeaderLine(m, p + 1, s, ln)
<1>1. ln # <<>> => ~StartsLine(m, p + 1)  BY DEF InHeaderLine
<1>2. Lines(m, p + 1, s, l, ln, first, field) /\ l \in s .. p + 1 + 1  BY <1>1, LinesOn
<1>3. p + 1 - 1 = p  OBVIOUS
<1>4. p + 1 \in LineEnds(m)  BY DEF LineEnds
<1>5. ASSUME ln = <<>>  PROVE InSwitchToBody(m, p + 1, s, l, ln)
    <2>1. l = p + 1 /\ NoBlank(m, s, p)  BY <1>5 DEF InHeaderLine
    <2>2. p + 1 \in BlankLines(m)  BY <1>4, <2>1 DEF BlankLines, Lines
    <2>3. \A j \in l .. p + 1 : m[j] \in {"CR", "LF"}
        <3>1. \A j \in l .. p + 1 : j = p + 1  BY <2>1
        <3> QED  BY <3>1
    <2>4. l <= p + 1  BY <2>1
    <2> QED  BY <1>3, <1>5, <2>1, <2>2, <2>3, <2>4 DEF InSwitchToBody
<1>6. ASSUME ln # <<>>  PROVE InPendingHeaderLine(m, p + 1, s, ln)
    <2>1. NoBlank(m, s, p) /\ ~StartsLine(m, p + 1) /\ m[p] # "CR"
        BY <1>6 DEF InHeaderLine
    <2>2. p + 1 \notin BlankLines(m)  BY <1>3, <2>1 DEF BlankLines
    <2>3. NoBlank(m, s, p + 1)  BY <2>1, <2>2, NoBlankOn
    <2> QED  BY <1>4, <1>6, <2>3 DEF InPendingHeaderLine
<1> QED  BY <1>2, <1>5, <1>6

LEMMA HeaderLineText ==
    ASSUME NEW m \in Seq(STRING), NEW p \in Nat, NEW s \in Nat \ {0}, NEW l, NEW ln,
           NEW first, NEW field,
           p + 1 \in 1 .. Len(m), m[p + 1] \notin {"CR", "LF"},
           Lines(m, p, s, l, ln, first, field), InHeaderLine(m, p, s, l, ln)
    PROVE  /\ Lines(m, p + 1, s, l, Append(ln, m[p + 1]), first, field)
           /\ l \in s .. p + 1 + 1
           /\ InHeaderLine(m, p + 1, s, l, Append(ln, m[p + 1]))
<1>1. ln = <<>> => l = p + 1  BY DEF InHeaderLine
<1>2. ln # <<>> => (StartsLine(m, p + 1) => m[p + 1] = "SP")  BY DEF InHeaderLine
<1>3. /\ Lines(m, p + 1, s, l, Append(ln, m[p + 1]), first, field)
      /\ l \in s .. p + 1 + 1
      /\ Append(ln, m[p + 1]) # <<>>
    BY <1>1, <1>2, LinesAppend
<1>4. p + 1 \notin LineEnds(m)  BY DEF LineEnds
<1>5. ~StartsLine(m, p + 1 + 1)
    <2>1. p + 1 + 1 # 1 /\ p + 1 + 1 - 1 = p + 1  OBVIOUS
    <2> QED  BY <1>4, <2>1 DEF StartsLine
<1>6. NoBlank(m, s, p + 1)
    <2>1. p + 1 \notin BlankLines(m)  BY <1>4 DEF BlankLines
    <2>2. NoBlank(m, s, p)  BY DEF InHeaderLine
    <2> QED  BY <2>1, <2>2, NoBlankOn
<1> QED  BY <1>3, <1>5, <1>6 DEF InHeaderLine

(***************************************************************************)
(* MachinePendingCR.                                                       *)
(***************************************************************************)
LEMMA PendingCRThenLF ==
    ASSUME NEW m \in Seq(STRING), NEW p \in Nat, NEW s \in Nat \ {0}, NEW l, NEW ln,
           NEW first, NEW field,
           p + 1 \in 1 .. Len(m), m[p + 1] = "LF",
           Lines(m, p, s, l, ln, first, field), InPendingCR(m, p, s, l, ln)
    PROVE  /\ Lines(m, p + 1, s, l, ln, first, field) /\ l \in s .. p + 1 + 1
           /\ ln = <<>> => InSwitchToBody(m, p + 1, s, l, ln)
           /\ ln # <<>> => InPendingHeaderLine(m, p + 1, s, ln)
<1>1. /\ p + 1 - 1 = p /\ m[p] = "CR" /\ l <= p /\ l \in Int /\ p \in Int /\ l >= 1
      /\ l \in s .. p + 1
    BY DEF InPendingCR, Lines
<1>2. p \notin LineEnds(m)  BY <1>1 DEF LineEnds
<1>3. ~StartsLine(m, p + 1)  BY <1>1, <1>2 DEF StartsLine
<1>4. Lines(m, p + 1, s, l, ln, first, field) /\ l \in s .. p + 1 + 1  BY <1>3, LinesOn
<1>5. p + 1 \in LineEnds(m)  BY DEF LineEnds
<1>6. p \notin BlankLines(m)  BY <1>2 DEF BlankLines
<1>7. NoBlank(m, s, p)
    <2>1. p - 1 + 1 = p /\ p - 1 \in Int  BY <1>1
    <2>2. NoBlank(m, s, p - 1)  BY DEF InPendingCR
    <2> QED  BY <1>6, <2>1, <2>2, NoBlankOn
<1>8. ASSUME ln = <<>>  PROVE InSwitchToBody(m, p + 1, s, l, ln)
    <2>1. l = p /\ StartsLine(m, p)  BY <1>8 DEF InPendingCR, Lines
    <2>2. p + 1 > 1  BY <1>1
    <2>3. p + 1 \in BlankLines(m)  BY <1>1, <1>5, <2>1, <2>2 DEF BlankLines
    <2>4. \A j \in l .. p + 1 : m[j] \in {"CR", "LF"}
        <3>1. \A j \in l .. p + 1 : j = p \/ j = p + 1  BY <2>1
        <3> QED  BY <1>1, <3>1
    <2>5. l <= p + 1  BY <1>1
    <2> QED  BY <1>1, <1>7, <1>8, <2>3, <2>4, <2>5 DEF InSwitchToBody
<1>9. ASSUME ln # <<>>  PROVE InPendingHeaderLine(m, p + 1, s, ln)
    <2>1. ~StartsLine(m, p)  BY <1>9 DEF InPendingCR
    <2>2. p + 1 \notin BlankLines(m)  BY <1>1, <1>3, <2>1 DEF BlankLines
    <2>3. NoBlank(m, s, p + 1)  BY <1>7, <2>2, NoBlankOn
    <2> QED  BY <1>5, <1>9, <2>3 DEF InPendingHeaderLine
<1> QED  BY <1>4, <1>8, <1>9

LEMMA PendingCRAlone ==
    ASSUME NEW m \in Seq(STRING), NEW p \in Nat, NEW s \in Nat \ {0}, NEW l, NEW ln,
           NEW first, NEW field,
           p + 1 \in 1 .. Len(m), m[p + 1] # "LF",
           Lines(m, p, s, l, ln, first, field), InPendingCR(m, p, s, l, ln)
    PROVE  /\ ln = <<>> => InSwitchToBody(m, p, s, l, ln)
           /\ ln # <<>> => InPendingHeaderLine(m, p, s, ln)
<1>1. m[p] = "CR" /\ l <= p /\ l >= 1 /\ l \in Int /\ p \in 1 .. Len(m) /\ p < Len(m)
    BY DEF InPendingCR, Lines
<1>2. p \in LineEnds(m)  BY <1>1 DEF LineEnds
<1>3. ASSUME ln = <<>>  PROVE InSwitchToBody(m, p, s, l, ln)
    <2>1. l = p /\ StartsLine(m, p) /\ NoBlank(m, s, p - 1)
        BY <1>3 DEF InPendingCR, Lines
    <2>2. p \in BlankLines(m)  BY <1>2, <2>1 DEF BlankLines
    <2>3. \A j \in l .. p : m[j] \in {"CR", "LF"}
        <3>1. \A j \in l .. p : j = p  BY <2>1
        <3> QED  BY <1>1, <3>1
    <2> QED  BY <1>1, <1>3, <2>1, <2>2, <2>3 DEF InSwitchToBody
<1>4. ASSUME ln # <<>>  PROVE InPendingHeaderLine(m, p, s, ln)
    <2>1. ~StartsLine(m, p) /\ NoBlank(m, s, p - 1)  BY <1>4 DEF InPendingCR
    <2>2. p \notin BlankLines(m)  BY <1>1, <2>1 DEF BlankLines
    <2>3. p - 1 + 1 = p /\ p - 1 \in Int  BY <1>1
    <2>4. NoBlank(m, s, p)  BY <2>1, <2>2, <2>3, NoBlankOn
    <2> QED  BY <1>2, <1>4, <2>4 DEF InPendingHeaderLine
<1> QED  BY <1>3, <1>4

(***************************************************************************)
(* MachinePendingHeaderLine: a continuation, or a line to be parsed.       *)
(***************************************************************************)
LEMMA LineContinues ==
    ASSUME NEW m, NEW p \in Nat, NEW s, NEW l, NEW ln,
           p + 1 \in 1 .. Len(m), m[p + 1] = "SP", InPendingHeaderLine(m, p, s, ln)
    PROVE  InHeaderLine(m, p, s, l, ln)
BY DEF InPendingHeaderLine, InHeaderLine

LEMMA NotAField == \A m, i : m[i] \in {"CR", "LF", "SP"} => ~FieldAt(m, i)
BY LengthAssumption DEF FieldAt

(* No field in the rest of a line. *)
LEMMA FieldOn ==
    ASSUME NEW m, NEW a \in Int, NEW b \in Int, NEW c \in Int, NEW field,
           FirstField(m, a, b, field), b <= c,
           \A j \in a .. c : j > b => ~FieldAt(m, j)
    PROVE  FirstField(m, a, c, field)
<1>1. CASE field = <<>>
    <2>1. \A j \in a .. c : j \in a .. b \/ j > b  OBVIOUS
    <2> QED  BY <1>1, <2>1 DEF FirstField
<1>2. CASE field # <<>>
    <2>1. PICK i \in a .. b : /\ FieldAt(m, i)
                              /\ field = <<LengthOf[m[i]]>>
                              /\ \A j \in a .. i - 1 : ~FieldAt(m, j)
        BY <1>2 DEF FirstField
    <2>2. i \in a .. c  OBVIOUS
    <2> QED  BY <1>2, <2>1, <2>2 DEF FirstField
<1> QED  BY <1>1, <1>2

LEMMA FieldFound ==
    ASSUME NEW m, NEW a \in Int, NEW b \in Int, NEW c \in Int,
           FirstField(m, a, b, <<>>), NEW i \in a .. c, i = b + 1, FieldAt(m, i)
    PROVE  FirstField(m, a, c, <<LengthOf[m[i]]>>)
<1>1. \A j \in a .. i - 1 : ~FieldAt(m, j)  BY DEF FirstField
<1>2. <<LengthOf[m[i]]>> # <<>>  OBVIOUS
<1> QED  BY <1>1, <1>2 DEF FirstField

LEMMA LineParsed ==
    ASSUME NEW m \in Seq(STRING), NEW p \in Nat, NEW s \in Nat \ {0}, NEW l, NEW ln,
           NEW first, NEW field, NEW first2, NEW field2,
           Lines(m, p, s, l, ln, first, field), InPendingHeaderLine(m, p, s, ln),
           IF first = <<>>
           THEN first2 = ln /\ field2 = field
           ELSE /\ first2 = first
                /\ field2 = IF field = <<>> /\ Head(ln) \in DOMAIN LengthOf
                            THEN <<LengthOf[Head(ln)]>>
                            ELSE field
    PROVE  /\ Lines(m, p, s, p + 1, <<>>, first2, field2) /\ p + 1 \in s .. p + 1
           /\ InHeaderLine(m, p, s, p + 1, <<>>)
<1>1. /\ l \in s .. p + 1 /\ l <= p /\ l \in Int /\ Head(ln) = m[l] /\ StartsLine(m, l)
      /\ ln # <<>> /\ \A j \in l + 1 .. p : StartsLine(m, j) => m[j] = "SP"
      /\ first = <<>> <=> l = s
      /\ first # <<>> => Head(first) = m[s]
      /\ FirstField(m, s + 1, l - 1, field)
    BY DEF Lines, InPendingHeaderLine
<1>2. StartsLine(m, p + 1)
    <2>1. p + 1 - 1 = p  OBVIOUS
    <2> QED  BY <2>1 DEF InPendingHeaderLine, StartsLine
<1>3. first2 # <<>> /\ Head(first2) = m[s]  BY <1>1
<1>4. p + 1 # s /\ p + 1 \in s .. p + 1  BY <1>1
<1>5. \A j \in l + 1 .. p : ~FieldAt(m, j)
    <2> SUFFICES ASSUME NEW j \in l + 1 .. p, FieldAt(m, j) PROVE FALSE  OBVIOUS
    <2>1. m[j] = "SP"  BY <1>1 DEF FieldAt
    <2> QED  BY <2>1, NotAField
<1>6. FirstField(m, s + 1, p, field2)
    <2>1. CASE first = <<>>
        <3>1. \A j \in s + 1 .. p : ~FieldAt(m, j)  BY <1>1, <1>5, <2>1
        <3>2. l - 1 <= p /\ l - 1 \in Int /\ s + 1 \in Int  BY <1>1
        <3> QED  BY <1>1, <2>1, <3>1, <3>2, FieldOn
    <2>2. CASE first # <<>> /\ field = <<>> /\ m[l] \in DOMAIN LengthOf
        <3>1. /\ l \in s + 1 .. p /\ l = l - 1 + 1
              /\ l - 1 \in Int /\ s + 1 \in Int /\ p \in Int
            BY <1>1, <2>2
        <3>2. FieldAt(m, l)  BY <1>1, <2>2 DEF FieldAt
        <3>3. field2 = <<LengthOf[m[l]]>>  BY <1>1, <2>2
        <3>4. FirstField(m, s + 1, l - 1, <<>>)  BY <1>1, <2>2
        <3>5. FirstField(m, s + 1, p, <<LengthOf[m[l]]>>)
            BY <3>1, <3>2, <3>4, FieldFound
        <3> QED  BY <3>3, <3>5
    <2>3. CASE first # <<>> /\ field = <<>> /\ m[l] \notin DOMAIN LengthOf
        <3>1. ~FieldAt(m, l)  BY <2>3 DEF FieldAt
        <3>2. \A j \in s + 1 .. p : j > l - 1 => j = l \/ j \in l + 1 .. p  BY <1>1
        <3>3. l - 1 <= p /\ l - 1 \in Int /\ s + 1 \in Int  BY <1>1
        <3>4. \A j \in s + 1 .. p : j > l - 1 => ~FieldAt(m, j)  BY <1>5, <3>1, <3>2
        <3>5. FirstField(m, s + 1, p, field)  BY <1>1, <3>3, <3>4, FieldOn
        <3> QED  BY <1>1, <2>3, <3>5
    <2>4. CASE first # <<>> /\ field # <<>>
        <3>1. PICK i \in s + 1 .. l - 1 : /\ FieldAt(m, i)
                                          /\ field = <<LengthOf[m[i]]>>
                                          /\ \A j \in s + 1 .. i - 1 : ~FieldAt(m, j)
            BY <1>1, <2>4 DEF FirstField
        <3>2. i \in s + 1 .. p  BY <1>1
        <3> QED  BY <2>4, <3>1, <3>2 DEF FirstField
    <2> QED  BY <2>1, <2>2, <2>3, <2>4
<1>7. p + 1 - 1 = p /\ <<>> \in Seq(STRING)  OBVIOUS
<1>8. Lines(m, p, s, p + 1, <<>>, first2, field2)
    BY <1>2, <1>3, <1>4, <1>6, <1>7 DEF Lines
<1>9. InHeaderLine(m, p, s, p + 1, <<>>)  BY DEF InPendingHeaderLine, InHeaderLine
<1> QED  BY <1>4, <1>8, <1>9

(***************************************************************************)
(* MachineStart.                                                           *)
(***************************************************************************)
LEMMA BlockBegins ==
    ASSUME NEW m, NEW p \in Nat, NEW s, Block(m, p, s), p = s - 1
    PROVE  /\ Lines(m, p, s, s, <<>>, <<>>, <<>>) /\ s \in s .. p + 1
           /\ InHeaderLine(m, p, s, s, <<>>)
<1>1. s \in Nat \ {0} /\ s = p + 1 /\ <<>> \in Seq(STRING)  BY DEF Block
<1>2. StartsLine(m, s)  BY DEF Block, StartsBlock, StartsLine, BlankLines
<1>3. FirstField(m, s + 1, s - 1, <<>>)
    <2>1. s + 1 .. s - 1 = {}  BY <1>1
    <2> QED  BY <2>1 DEF FirstField
<1>4. NoBlank(m, s, p)
    <2>1. s .. p = {}  BY <1>1
    <2> QED  BY <2>1 DEF NoBlank
<1>5. s \in s .. p + 1  BY <1>1
<1>6. Lines(m, p, s, s, <<>>, <<>>, <<>>)  BY <1>1, <1>2, <1>3, <1>5 DEF Lines
<1> QED  BY <1>1, <1>4, <1>5, <1>6 DEF InHeaderLine

(***************************************************************************)
(* SwitchToBody: behind a 100 Continue begins another block; behind any    *)
(* other, the body, and then the length found is the one declared.         *)
(***************************************************************************)
LEMMA BlockEnds ==
    ASSUME NEW m \in Seq(STRING), NEW p \in Nat, NEW s \in Nat \ {0}, NEW l,
           Block(m, p, s), InSwitchToBody(m, p, s, l, <<>>), l \in s .. p + 1
    PROVE  /\ s <= p /\ p \in 1 .. Len(m) /\ p \in BlankLines(m)
           /\ \A t \in s + 1 .. p : ~StartsBlock(m, t)
<1>1. l <= p /\ p \in BlankLines(m) /\ NoBlank(m, s, p - 1)  BY DEF InSwitchToBody
<1>2. s <= p /\ p \in 1 .. Len(m)  BY <1>1 DEF BlankLines, LineEnds
<1>3. ASSUME NEW t \in s + 1 .. p  PROVE ~StartsBlock(m, t)
    <2>1. t # 1 /\ t - 1 \in s .. p - 1  BY <1>3
    <2> QED  BY <1>1, <2>1 DEF StartsBlock, NoBlank
<1> QED  BY <1>1, <1>2, <1>3

LEMMA NextBlock ==
    ASSUME NEW m \in Seq(STRING), NEW p \in Nat, NEW s \in Nat \ {0}, NEW l,
           NEW first, NEW field,
           Block(m, p, s), InSwitchToBody(m, p, s, l, <<>>),
           Lines(m, p, s, l, <<>>, first, field),
           first # <<>>, Head(first) = "S100"
    PROVE  Block(m, p, p + 1)
<1>1. l \in s .. p + 1 /\ m[s] = "S100"  BY DEF Lines
<1>2. /\ s <= p /\ p \in BlankLines(m)
      /\ \A t \in s + 1 .. p : ~StartsBlock(m, t)
    BY <1>1, BlockEnds
<1>3. p + 1 - 1 = p /\ p + 1 \in 1 .. p + 1  OBVIOUS
<1>4. StartsBlock(m, p + 1)  BY <1>2, <1>3 DEF StartsBlock
<1>5. ASSUME NEW t \in 1 .. p, StartsBlock(m, t)  PROVE m[t] = "S100"
    <2>1. t \in 1 .. s - 1 \/ t = s \/ t \in s + 1 .. p  OBVIOUS
    <2> QED  BY <1>1, <1>2, <1>5, <2>1 DEF Block
<1> QED  BY <1>3, <1>4, <1>5 DEF Block

LEMMA EnterBody ==
    ASSUME NEW m \in Seq(STRING), NEW p \in Nat, NEW s \in Nat \ {0}, NEW l,
           NEW first, NEW field,
           Block(m, p, s), InSwitchToBody(m, p, s, l, <<>>),
           Lines(m, p, s, l, <<>>, first, field),
           ~(first # <<>> /\ Head(first) = "S100")
    PROVE  /\ HeaderEnds(m) # {} /\ HeaderEnd(m) = p /\ p \in 1 .. Len(m)
           /\ IF field = <<>>
              THEN ~HasLength(m)
              ELSE /\ HasLength(m) /\ field = <<DeclaredLength(m)>>
                   /\ DeclaredLength(m) \in Int
<1>1. /\ l \in s .. p + 1 /\ l <= p /\ FirstField(m, s + 1, l - 1, field)
      /\ \A j \in l .. p : m[j] \in {"CR", "LF"}
      /\ p \in BlankLines(m) /\ NoBlank(m, s, p - 1)
    BY DEF Lines, InSwitchToBody
<1>2. s <= p /\ p \in 1 .. Len(m) /\ l \in Int  BY <1>1, BlockEnds
<1>3. m[s] # "S100"
    <2>1. CASE first = <<>>
        <3>1. l = s /\ s \in l .. p  BY <1>2, <2>1 DEF Lines
        <3> QED  BY <1>1, <3>1
    <2>2. CASE first # <<>>  BY <2>2 DEF Lines
    <2> QED  BY <2>1, <2>2
<1>4. HeaderStart(m) = s /\ HeaderStarts(m) # {}
    <2>1. HeaderStarts(m) \subseteq Int  BY DEF HeaderStarts
    <2>2. s \in HeaderStarts(m)  BY <1>2, <1>3 DEF HeaderStarts, Block
    <2>3. ASSUME NEW t \in HeaderStarts(m)  PROVE s <= t
        <3>1. t \in 1 .. Len(m) + 1 /\ StartsBlock(m, t) /\ (t \in DOMAIN m => m[t] # "S100")
            BY DEF HeaderStarts
        <3>2. CASE t < s
            <4>1. t \in 1 .. s - 1 /\ t \in DOMAIN m  BY <1>2, <3>1, <3>2
            <4> QED  BY <3>1, <4>1 DEF Block
        <3> QED  BY <3>1, <3>2
    <2> QED  BY <2>1, <2>2, <2>3, LeastIs DEF HeaderStart
<1>5. HeaderEnd(m) = p /\ HeaderEnds(m) # {}
    <2>1. HeaderEnds(m) \subseteq Int  BY DEF HeaderEnds, BlankLines, LineEnds
    <2>2. p \in HeaderEnds(m)  BY <1>1, <1>2, <1>4 DEF HeaderEnds
    <2>3. ASSUME NEW i \in HeaderEnds(m)  PROVE p <= i
        <3>1. i \in BlankLines(m) /\ i >= s /\ i \in Int  BY <1>4, <2>1 DEF HeaderEnds
        <3>2. CASE i < p
            <4>1. i \in s .. p - 1  BY <3>1, <3>2
            <4> QED  BY <1>1, <3>1, <4>1 DEF NoBlank
        <3> QED  BY <3>1, <3>2
    <2> QED  BY <2>1, <2>2, <2>3, LeastIs DEF HeaderEnd
<1>6. LengthFields(m) = {i \in s + 1 .. p : FieldAt(m, i)}
    BY <1>4, <1>5 DEF LengthFields, FieldAt
<1>7. FirstField(m, s + 1, p, field)
    <2>1. \A j \in s + 1 .. p : j > l - 1 => ~FieldAt(m, j)
        <3> SUFFICES ASSUME NEW j \in s + 1 .. p, j > l - 1 PROVE ~FieldAt(m, j)  OBVIOUS
        <3>1. j \in l .. p  BY <1>2
        <3>2. m[j] \in {"CR", "LF", "SP"}  BY <1>1, <3>1
        <3> QED  BY <3>2, NotAField
    <2>2. l - 1 \in Int /\ s + 1 \in Int /\ l - 1 <= p  BY <1>1, <1>2
    <2> QED  BY <1>1, <2>1, <2>2, FieldOn
<1>8. CASE field = <<>>
    <2>1. LengthFields(m) = {}  BY <1>6, <1>7, <1>8 DEF FirstField
    <2> QED  BY <1>2, <1>5, <1>8, <2>1 DEF HasLength
<1>9. CASE field # <<>>
    <2>1. PICK i \in s + 1 .. p : /\ FieldAt(m, i)
                                  /\ field = <<LengthOf[m[i]]>>
                                  /\ \A j \in s + 1 .. i - 1 : ~FieldAt(m, j)
        BY <1>7, <1>9 DEF FirstField
    <2>2. i \in LengthFields(m) /\ LengthFields(m) \subseteq Int  BY <1>6, <2>1
    <2>3. ASSUME NEW j \in LengthFields(m)  PROVE i <= j
        <3>1. j \in s + 1 .. p /\ FieldAt(m, j)  BY <1>6
        <3>2. j \notin s + 1 .. i - 1  BY <2>1, <3>1
        <3> QED  BY <3>1, <3>2
    <2>4. Least(LengthFields(m)) = i  BY <2>2, <2>3, LeastIs
    <2>5. DeclaredLength(m) = LengthOf[m[i]] /\ m[i] \in DOMAIN LengthOf
        BY <2>1, <2>4 DEF DeclaredLength, FieldAt
    <2>6. DeclaredLength(m) \in Int  BY <2>5, LengthAssumption
    <2>7. HasLength(m)  BY <1>5, <2>2 DEF HasLength
    <2> QED  BY <1>2, <1>5, <1>9, <2>1, <2>5, <2>6, <2>7
<1> QED  BY <1>8, <1>9

-----------------------------------------------------------------------------
(***************************************************************************)
(* The invariant is inductive.                                             *)
(***************************************************************************)
LEMMA InitIInv == Init => IInv
<1> SUFFICES ASSUME Init PROVE IInv  OBVIOUS
<1>1. /\ msg \in Seq(STRING) /\ stream = msg /\ chunk = <<>> /\ pc = "read"
      /\ connstate = "Start" /\ remain = -1 /\ body = <<>>
    BY MessagesAssumption DEF Init
<1>2. Pos = 0 /\ Len(msg) \in Nat
    <2>1. Len(msg) \in Nat /\ Len(<<>>) = 0  BY <1>1
    <2>2. Pos = Len(msg) - Len(msg) - 0  BY <1>1, <2>1 DEF Pos
    <2>3. Len(msg) - Len(msg) - 0 = 0  BY <2>1
    <2> QED  BY <2>1, <2>2, <2>3
<1>3. Window(msg, 0, <<>>, msg)
    <2>1. <<>> \in Seq(STRING) /\ Len(<<>>) = 0  OBVIOUS
    <2>2. \A i \in 1 .. Len(msg) : msg[i] = msg[0 + Len(<<>>) + i]
        <3>1. \A i \in 1 .. Len(msg) : 0 + 0 + i = i  BY <1>2
        <3> QED  BY <2>1, <3>1
    <2>3. \A i \in 1 .. Len(<<>>) : <<>>[i] = msg[0 + i]  BY <2>1
    <2>4. 0 \in Nat /\ 0 + Len(<<>>) + Len(msg) = Len(msg)  BY <1>2, <2>1
    <2> QED  BY <1>1, <2>1, <2>2, <2>3, <2>4 DEF Window
<1>4. Block(msg, 0, 1)  BY DEF Block, StartsBlock
<1>5. InHeader("Start", msg, 0, line, firstLine, lengthField)
    <2>1. 1 \in 1 .. 0 + 1 /\ 0 = 1 - 1  OBVIOUS
    <2> QED  BY <1>4, <2>1 DEF InHeader
<1>6. LoopInv  BY <1>1 DEF LoopInv
<1> QED  BY <1>1, <1>2, <1>3, <1>5, <1>6 DEF IInv, HeaderInv, BodyInv

LEMMA PosNat ==
    ASSUME IInv
    PROVE  Pos \in Nat /\ Window(msg, Pos, chunk, stream)
BY DEF IInv, Window

(* A step of the machine within the header. *)
LEMMA HeaderStep ==
    ASSUME IInv, pc = "machine", pc' = "machine", connstate' # "Body",
           remain = -1, remain' = -1, body = <<>>, body' = <<>>,
           Window(msg, Pos, chunk, stream)',
           InHeader(connstate, msg, Pos, line, firstLine, lengthField)'
    PROVE  IInv'
BY DEF IInv, HeaderInv, BodyInv, LoopInv

LEMMA StepMachineStart ==
    ASSUME IInv, MachineStart
    PROVE  IInv'
<1>1. PICK p \in Nat : p = Pos  BY PosNat
<1>2. /\ pc = "machine" /\ connstate = "Start" /\ chunk # <<>>
      /\ msg' = msg /\ stream' = stream /\ chunk' = chunk /\ pc' = pc /\ body' = body
      /\ connstate' = "HeaderLine" /\ remain' = remain
      /\ firstLine' = <<>> /\ line' = <<>> /\ lengthField' = <<>>
    BY DEF MachineStart, Machine, In, ClearHttpInfo, lengthVars
<1>3. Pos' = p  BY <1>1, <1>2 DEF Pos
<1>4. /\ remain = -1 /\ body = <<>>
      /\ InHeader("Start", msg, p, line, firstLine, lengthField)
    BY <1>1, <1>2 DEF IInv, HeaderInv
<1>5. PICK s \in 1 .. p + 1 : Block(msg, p, s) /\ p = s - 1  BY <1>4 DEF InHeader
<1>6. /\ Lines(msg, p, s, s, <<>>, <<>>, <<>>) /\ s \in s .. p + 1
      /\ InHeaderLine(msg, p, s, s, <<>>)
    BY <1>5, BlockBegins
<1>7. InHeader("HeaderLine", msg, p, <<>>, <<>>, <<>>)
    BY <1>5, <1>6 DEF InHeader, InBlock
<1>8. Window(msg, p, chunk, stream)  BY <1>1, PosNat
<1> QED  BY <1>2, <1>3, <1>4, <1>7, <1>8, HeaderStep

(* What a step of the machine within a block begins from. *)
LEMMA BlockState ==
    ASSUME IInv, connstate \notin {"Body", "Start"}, NEW p, p = Pos
    PROVE  /\ remain = -1 /\ body = <<>> /\ p \in Nat /\ msg \in Seq(STRING)
           /\ \E s \in Nat \ {0} : \E l \in s .. p + 1 :
                 /\ s \in 1 .. p + 1 /\ Block(msg, p, s)
                 /\ Lines(msg, p, s, l, line, firstLine, lengthField)
                 /\ InBlock(connstate, msg, p, s, l, line)
<1>1. p \in Nat /\ msg \in Seq(STRING)  BY PosNat DEF Window
<1>2. /\ remain = -1 /\ body = <<>>
      /\ InHeader(connstate, msg, p, line, firstLine, lengthField)
    BY DEF IInv, HeaderInv
<1>3. PICK s \in 1 .. p + 1 :
        Block(msg, p, s) /\ \E l \in s .. p + 1 :
            /\ Lines(msg, p, s, l, line, firstLine, lengthField)
            /\ InBlock(connstate, msg, p, s, l, line)
    BY <1>2 DEF InHeader
<1>4. s \in Nat \ {0}  OBVIOUS
<1> QED  BY <1>1, <1>2, <1>3, <1>4

(* A block goes on when a token is taken. *)
LEMMA BlockOn ==
    ASSUME NEW m, NEW p \in Nat, NEW s \in 1 .. p + 1, Block(m, p, s)
    PROVE  s \in 1 .. p + 1 + 1 /\ Block(m, p + 1, s)
BY DEF Block

(* The buffer's first token is taken, and the block goes on. *)
LEMMA SkipStep ==
    ASSUME IInv, pc = "machine", pc' = "machine", chunk # <<>>,
           connstate \notin {"Body", "Start"}, connstate' \notin {"Body", "Start"},
           msg' = msg, stream' = stream, chunk' = Tail(chunk),
           remain' = remain, body' = body,
           NEW p \in Nat, p = Pos, NEW s \in 1 .. p + 1, Block(msg, p, s),
           NEW l, l \in s .. p + 1 + 1,
           NEW ln, NEW first, NEW field,
           line' = ln, firstLine' = first, lengthField' = field,
           Lines(msg, p + 1, s, l, ln, first, field),
           NEW st, connstate' = st, InBlock(st, msg, p + 1, s, l, ln)
    PROVE  IInv'
<1>1. Window(msg, p, chunk, stream)  BY PosNat
<1>2. /\ Window(msg, p + 1, Tail(chunk), stream)
      /\ Len(Tail(chunk)) = Len(chunk) - 1
    BY <1>1, WindowSkip
<1>3. Pos' = p + 1
    <2>1. Len(msg) \in Nat /\ Len(stream) \in Nat /\ Len(chunk) \in Nat  BY <1>1 DEF Window
    <2>2. p = Len(msg) - Len(stream) - Len(chunk)  BY DEF Pos
    <2>3. Pos' = Len(msg) - Len(stream) - Len(Tail(chunk))  BY DEF Pos
    <2> QED  BY <1>2, <2>1, <2>2, <2>3
<1>4. s \in 1 .. p + 1 + 1 /\ Block(msg, p + 1, s)  BY BlockOn
<1>5. InHeader(st, msg, p + 1, ln, first, field)  BY <1>4 DEF InHeader
<1>6. InHeader(connstate, msg, Pos, line, firstLine, lengthField)'  BY <1>3, <1>5
<1>7. Window(msg, Pos, chunk, stream)'  BY <1>2, <1>3
<1>8. remain = -1 /\ body = <<>>  BY BlockState
<1> QED  BY <1>6, <1>7, <1>8, HeaderStep

LEMMA StepMachineHeaderLine ==
    ASSUME IInv, MachineHeaderLine
    PROVE  IInv'
<1>1. PICK p \in Nat : p = Pos  BY PosNat
<1>2. /\ pc = "machine" /\ connstate = "HeaderLine" /\ chunk # <<>>
      /\ msg' = msg /\ stream' = stream /\ chunk' = Tail(chunk) /\ pc' = pc /\ body' = body
      /\ remain' = remain /\ firstLine' = firstLine /\ lengthField' = lengthField
    BY DEF MachineHeaderLine, Machine, In, Skip, lengthVars
<1>3. Window(msg, p, chunk, stream)  BY <1>1, PosNat
<1>4. Head(chunk) = msg[p + 1] /\ p + 1 \in 1 .. Len(msg)  BY <1>2, <1>3, WindowSkip
<1>5. msg \in Seq(STRING)  BY <1>3 DEF Window
<1>s. PICK s \in Nat \ {0} : \E l \in s .. p + 1 :
        /\ s \in 1 .. p + 1 /\ Block(msg, p, s)
        /\ Lines(msg, p, s, l, line, firstLine, lengthField)
        /\ InBlock(connstate, msg, p, s, l, line)
    BY <1>1, <1>2, BlockState
<1>6. PICK l \in s .. p + 1 :
        /\ s \in 1 .. p + 1 /\ Block(msg, p, s)
        /\ Lines(msg, p, s, l, line, firstLine, lengthField)
        /\ InBlock(connstate, msg, p, s, l, line)
    BY <1>s
<1>7. InHeaderLine(msg, p, s, l, line)  BY <1>2, <1>6 DEF InBlock
<1>8. CASE Head(chunk) = "CR"
    <2>1. connstate' = "PendingCR" /\ line' = line  BY <1>8 DEF MachineHeaderLine
    <2>2. /\ Lines(msg, p + 1, s, l, line, firstLine, lengthField) /\ l \in s .. p + 1 + 1
          /\ InPendingCR(msg, p + 1, s, l, line)
        BY <1>4, <1>5, <1>6, <1>7, <1>8, HeaderLineCR
    <2>3. InBlock("PendingCR", msg, p + 1, s, l, line)  BY <2>2 DEF InBlock
    <2> QED  BY <1>1, <1>2, <1>6, <2>1, <2>2, <2>3, SkipStep
<1>9. CASE Head(chunk) = "LF"
    <2>1. /\ connstate' = IF line = <<>> THEN "SwitchToBody" ELSE "PendingHeaderLine"
          /\ line' = line
        BY <1>9 DEF MachineHeaderLine, EndOfLine
    <2>2. /\ Lines(msg, p + 1, s, l, line, firstLine, lengthField) /\ l \in s .. p + 1 + 1
          /\ line = <<>> => InSwitchToBody(msg, p + 1, s, l, line)
          /\ line # <<>> => InPendingHeaderLine(msg, p + 1, s, line)
        BY <1>4, <1>5, <1>6, <1>7, <1>9, HeaderLineLF
    <2>3. PICK st : st = connstate'  OBVIOUS
    <2>4. InBlock(st, msg, p + 1, s, l, line) /\ st \notin {"Body", "Start"}
        BY <2>1, <2>2, <2>3 DEF InBlock
    <2> QED  BY <1>1, <1>2, <1>6, <2>1, <2>2, <2>3, <2>4, SkipStep
<1>10. CASE Head(chunk) \notin {"CR", "LF"}
    <2>1. connstate' = "HeaderLine" /\ line' = Append(line, msg[p + 1])
        BY <1>2, <1>4, <1>10 DEF MachineHeaderLine
    <2>2. PICK ln : ln = Append(line, msg[p + 1])  OBVIOUS
    <2>3. /\ Lines(msg, p + 1, s, l, ln, firstLine, lengthField) /\ l \in s .. p + 1 + 1
          /\ InHeaderLine(msg, p + 1, s, l, ln)
        BY <1>4, <1>5, <1>6, <1>7, <1>10, <2>2, HeaderLineText
    <2>4. InBlock("HeaderLine", msg, p + 1, s, l, ln)  BY <2>3 DEF InBlock
    <2> QED  BY <1>1, <1>2, <1>6, <2>1, <2>2, <2>3, <2>4, SkipStep
<1> QED  BY <1>8, <1>9, <1>10

(* The machine changes its mind, and the buffer stays. *)
LEMMA StayStep ==
    ASSUME IInv, pc = "machine", pc' = "machine",
           connstate \notin {"Body", "Start"}, connstate' \notin {"Body", "Start"},
           msg' = msg, stream' = stream, chunk' = chunk,
           remain' = remain, body' = body,
           NEW p \in Nat, p = Pos, NEW s \in 1 .. p + 1, Block(msg, p, s),
           NEW l, l \in s .. p + 1,
           NEW ln, NEW first, NEW field,
           line' = ln, firstLine' = first, lengthField' = field,
           Lines(msg, p, s, l, ln, first, field),
           NEW st, connstate' = st, InBlock(st, msg, p, s, l, ln)
    PROVE  IInv'
<1>1. Window(msg, p, chunk, stream)  BY PosNat
<1>2. Pos' = p  BY DEF Pos
<1>3. InHeader(st, msg, p, ln, first, field)  BY DEF InHeader
<1>4. InHeader(connstate, msg, Pos, line, firstLine, lengthField)'  BY <1>2, <1>3
<1>5. Window(msg, Pos, chunk, stream)'  BY <1>1, <1>2
<1>6. remain = -1 /\ body = <<>>  BY BlockState
<1> QED  BY <1>4, <1>5, <1>6, HeaderStep

LEMMA StepMachinePendingCR ==
    ASSUME IInv, MachinePendingCR
    PROVE  IInv'
<1>1. PICK p \in Nat : p = Pos  BY PosNat
<1>2. /\ pc = "machine" /\ connstate = "PendingCR" /\ chunk # <<>>
      /\ msg' = msg /\ stream' = stream /\ pc' = pc /\ body' = body
      /\ remain' = remain /\ firstLine' = firstLine /\ lengthField' = lengthField
      /\ line' = line
      /\ connstate' = IF line = <<>> THEN "SwitchToBody" ELSE "PendingHeaderLine"
    BY DEF MachinePendingCR, Machine, In, EndOfLine, lengthVars, headerVars
<1>3. Window(msg, p, chunk, stream)  BY <1>1, PosNat
<1>4. Head(chunk) = msg[p + 1] /\ p + 1 \in 1 .. Len(msg)  BY <1>2, <1>3, WindowSkip
<1>5. msg \in Seq(STRING)  BY <1>3 DEF Window
<1>s. PICK s \in Nat \ {0} : \E l \in s .. p + 1 :
        /\ s \in 1 .. p + 1 /\ Block(msg, p, s)
        /\ Lines(msg, p, s, l, line, firstLine, lengthField)
        /\ InBlock(connstate, msg, p, s, l, line)
    BY <1>1, <1>2, BlockState
<1>6. PICK l \in s .. p + 1 :
        /\ s \in 1 .. p + 1 /\ Block(msg, p, s)
        /\ Lines(msg, p, s, l, line, firstLine, lengthField)
        /\ InBlock(connstate, msg, p, s, l, line)
    BY <1>s
<1>7. InPendingCR(msg, p, s, l, line)  BY <1>2, <1>6 DEF InBlock
<1>8. PICK st : st = connstate'  OBVIOUS
<1>9. CASE Head(chunk) = "LF"
    <2>1. chunk' = Tail(chunk)  BY <1>9 DEF MachinePendingCR, Skip
    <2>2. /\ Lines(msg, p + 1, s, l, line, firstLine, lengthField) /\ l \in s .. p + 1 + 1
          /\ line = <<>> => InSwitchToBody(msg, p + 1, s, l, line)
          /\ line # <<>> => InPendingHeaderLine(msg, p + 1, s, line)
        BY <1>4, <1>5, <1>6, <1>7, <1>9, PendingCRThenLF
    <2>3. InBlock(st, msg, p + 1, s, l, line) /\ st \notin {"Body", "Start"}
        BY <1>2, <1>8, <2>2 DEF InBlock
    <2> QED  BY <1>1, <1>2, <1>6, <1>8, <2>1, <2>2, <2>3, SkipStep
<1>10. CASE Head(chunk) # "LF"
    <2>1. chunk' = chunk  BY <1>10 DEF MachinePendingCR
    <2>2. /\ line = <<>> => InSwitchToBody(msg, p, s, l, line)
          /\ line # <<>> => InPendingHeaderLine(msg, p, s, line)
        BY <1>4, <1>5, <1>6, <1>7, <1>10, PendingCRAlone
    <2>3. InBlock(st, msg, p, s, l, line) /\ st \notin {"Body", "Start"}
        BY <1>2, <1>8, <2>2 DEF InBlock
    <2> QED  BY <1>1, <1>2, <1>6, <1>8, <2>1, <2>3, StayStep
<1> QED  BY <1>9, <1>10

LEMMA StepMachinePendingHeaderLine ==
    ASSUME IInv, MachinePendingHeaderLine
    PROVE  IInv'
<1>1. PICK p \in Nat : p = Pos  BY PosNat
<1>2. /\ pc = "machine" /\ connstate = "PendingHeaderLine" /\ chunk # <<>>
      /\ msg' = msg /\ stream' = stream /\ chunk' = chunk /\ pc' = pc /\ body' = body
      /\ remain' = remain /\ connstate' = "HeaderLine"
    BY DEF MachinePendingHeaderLine, Machine, In, lengthVars
<1>3. Window(msg, p, chunk, stream)  BY <1>1, PosNat
<1>4. Head(chunk) = msg[p + 1] /\ p + 1 \in 1 .. Len(msg)  BY <1>2, <1>3, WindowSkip
<1>5. msg \in Seq(STRING)  BY <1>3 DEF Window
<1>s. PICK s \in Nat \ {0} : \E l \in s .. p + 1 :
        /\ s \in 1 .. p + 1 /\ Block(msg, p, s)
        /\ Lines(msg, p, s, l, line, firstLine, lengthField)
        /\ InBlock(connstate, msg, p, s, l, line)
    BY <1>1, <1>2, BlockState
<1>6. PICK l \in s .. p + 1 :
        /\ s \in 1 .. p + 1 /\ Block(msg, p, s)
        /\ Lines(msg, p, s, l, line, firstLine, lengthField)
        /\ InBlock(connstate, msg, p, s, l, line)
    BY <1>s
<1>7. InPendingHeaderLine(msg, p, s, line)  BY <1>2, <1>6 DEF InBlock
<1>8. CASE Head(chunk) = "SP"
    <2>1. line' = line /\ firstLine' = firstLine /\ lengthField' = lengthField
        BY <1>8 DEF MachinePendingHeaderLine, headerVars
    <2>2. InHeaderLine(msg, p, s, l, line)  BY <1>4, <1>7, <1>8, LineContinues
    <2>3. InBlock("HeaderLine", msg, p, s, l, line)  BY <2>2 DEF InBlock
    <2> QED  BY <1>1, <1>2, <1>6, <2>1, <2>3, StayStep
<1>9. CASE Head(chunk) # "SP"
    <2>1. PICK first, field : first = firstLine' /\ field = lengthField'  OBVIOUS
    <2>2. /\ line' = <<>>
          /\ IF firstLine = <<>>
             THEN first = line /\ field = lengthField
             ELSE /\ first = firstLine
                  /\ field = IF lengthField = <<>> /\ Head(line) \in DOMAIN LengthOf
                             THEN <<LengthOf[Head(line)]>>
                             ELSE lengthField
        BY <1>9, <2>1 DEF MachinePendingHeaderLine, ParseHeaderLine
    <2>3. /\ Lines(msg, p, s, p + 1, <<>>, first, field) /\ p + 1 \in s .. p + 1
          /\ InHeaderLine(msg, p, s, p + 1, <<>>)
        BY <1>5, <1>6, <1>7, <2>2, LineParsed
    <2>4. InBlock("HeaderLine", msg, p, s, p + 1, <<>>)  BY <2>3 DEF InBlock
    <2> QED  BY <1>1, <1>2, <1>6, <2>1, <2>2, <2>3, <2>4, StayStep
<1> QED  BY <1>8, <1>9

(***************************************************************************)
(* SwitchToBody, with buffer left or without: it begins another block, or  *)
(* the body, of which the buffer's rest is the first.                      *)
(***************************************************************************)
LEMMA StepSwitch ==
    ASSUME IInv, connstate = "SwitchToBody", SwitchToBody,
           UNCHANGED <<msg, stream, chunk, body>>,
           pc = "machine", pc' = "machine" \/ (pc' = "check" /\ chunk = <<>>)
    PROVE  IInv'
<1>1. PICK p \in Nat : p = Pos  BY PosNat
<1>2. Window(msg, p, chunk, stream) /\ msg \in Seq(STRING) /\ chunk \in Seq(STRING)
    BY <1>1, PosNat DEF Window
<1>3. /\ Pos' = p /\ msg' = msg /\ stream' = stream /\ chunk' = chunk /\ body' = body
      /\ line' = line /\ firstLine' = firstLine /\ lengthField' = lengthField
    BY <1>1 DEF Pos, SwitchToBody, headerVars
<1>4. Window(msg, Pos, chunk, stream)'  BY <1>2, <1>3
<1>s. PICK s \in Nat \ {0} : \E l \in s .. p + 1 :
        /\ s \in 1 .. p + 1 /\ Block(msg, p, s)
        /\ Lines(msg, p, s, l, line, firstLine, lengthField)
        /\ InBlock(connstate, msg, p, s, l, line)
    BY <1>1, BlockState
<1>5. PICK l \in s .. p + 1 :
        /\ s \in 1 .. p + 1 /\ Block(msg, p, s)
        /\ Lines(msg, p, s, l, line, firstLine, lengthField)
        /\ InBlock(connstate, msg, p, s, l, line)
    BY <1>s
<1>6. InSwitchToBody(msg, p, s, l, line) /\ line = <<>>
    BY <1>5 DEF InBlock, InSwitchToBody
<1>7. remain = -1 /\ body = <<>>  BY <1>1, BlockState
<1>8. CASE IsContinue
    <2>1. connstate' = "Start" /\ remain' = remain  BY <1>8 DEF SwitchToBody, lengthVars
    <2>2. Block(msg, p, p + 1)  BY <1>2, <1>5, <1>6, <1>8, NextBlock DEF IsContinue
    <2>3. p + 1 \in 1 .. p + 1 /\ p = p + 1 - 1  OBVIOUS
    <2>4. InHeader("Start", msg, p, line, firstLine, lengthField)
        BY <2>2, <2>3 DEF InHeader
    <2>5. InHeader(connstate, msg, Pos, line, firstLine, lengthField)'
        BY <1>3, <2>1, <2>4
    <2>6. HeaderInv' /\ BodyInv'  BY <1>3, <1>7, <2>1, <2>5 DEF HeaderInv, BodyInv
    <2>7. LoopInv'  BY <1>3, <2>1 DEF LoopInv
    <2> QED  BY <1>4, <2>6, <2>7 DEF IInv
<1>9. CASE ~IsContinue
    <2>1. /\ connstate' = "Body"
          /\ IF lengthField = <<>>
             THEN remain' = remain
             ELSE remain' = IF lengthField[1] >= 0
                            THEN lengthField[1] - Len(chunk)
                            ELSE lengthField[1]
        BY <1>9 DEF SwitchToBody, lengthVars
    <2>2. /\ HeaderEnds(msg) # {} /\ HeaderEnd(msg) = p /\ p \in 1 .. Len(msg)
          /\ IF lengthField = <<>>
             THEN ~HasLength(msg)
             ELSE /\ HasLength(msg) /\ lengthField = <<DeclaredLength(msg)>>
                  /\ DeclaredLength(msg) \in Int
        BY <1>2, <1>5, <1>6, <1>9, EnterBody DEF IsContinue
    <2>3. p = p + Len(<<>>) /\ Part(<<>>, msg, p)
        <3>1. Len(<<>>) = 0 /\ <<>> \in Seq(STRING)  OBVIOUS
        <3> QED  BY <3>1 DEF Part
    <2>4. PICK r : r = remain'  OBVIOUS
    <2>5. InBody(msg, p, chunk, lengthField, r, <<>>)
        <3>1. CASE lengthField = <<>>
            <4>1. r = -1 /\ r \in Int  BY <1>7, <2>1, <2>4, <3>1
            <4> QED  BY <2>2, <2>3, <3>1, <4>1 DEF InBody
        <3>2. CASE lengthField # <<>>
            <4>1. PICK d \in Int : d = DeclaredLength(msg)  BY <2>2, <3>2
            <4>2. r = IF d >= 0 THEN d - Len(chunk) ELSE d
                <5>1. lengthField[1] = d  BY <2>2, <3>2, <4>1
                <5> QED  BY <2>1, <2>4, <3>2, <5>1
            <4>3. Len(Content(msg)) = Len(msg) - p
                <5>1. HeaderEnd(msg) + 1 = p + 1  BY <2>2
                <5>2. Len(SubSeq(msg, p + 1, Len(msg))) = Len(msg) - p
                    BY <1>2, <2>2, SubSeqProperties
                <5> QED  BY <5>1, <5>2 DEF Content
            <4>4. Len(chunk) <= Len(msg) - p /\ Len(chunk) \in Nat /\ Len(msg) - p \in Nat
                BY <1>2, <2>2 DEF Window
            <4>5. r \in Int  BY <4>2, <4>4
            <4>6. r >= 0 => r = d - Len(<<>>) - Len(chunk)
                <5>1. Len(<<>>) = 0  OBVIOUS
                <5> QED  BY <4>2, <4>4, <5>1
            <4>7. r < 0 => d < Len(Content(msg))  BY <4>2, <4>3, <4>4
            <4> QED  BY <2>2, <2>3, <3>2, <4>1, <4>5, <4>6, <4>7 DEF InBody
        <3> QED  BY <3>1, <3>2
    <2>6. InBody(msg, Pos, chunk, lengthField, remain, body)'
        BY <1>3, <1>7, <2>4, <2>5
    <2>7. HeaderInv' /\ BodyInv'  BY <2>1, <2>6 DEF HeaderInv, BodyInv
    <2>8. LoopInv'  BY <1>3, <2>1 DEF LoopInv
    <2> QED  BY <1>4, <2>7, <2>8 DEF IInv
<1> QED  BY <1>8, <1>9

LEMMA StepMachineSwitchToBody ==
    ASSUME IInv, MachineSwitchToBody
    PROVE  IInv'
BY StepSwitch DEF MachineSwitchToBody, Machine, In

(***************************************************************************)
(* The read loop.                                                          *)
(***************************************************************************)

(* A step that leaves buffer, stream and header alone. *)
LEMMA LoopStep ==
    ASSUME IInv, LoopInv',
           UNCHANGED <<msg, stream, chunk, connstate, line, firstLine, lengthField,
                       remain, body>>
    PROVE  IInv'
<1>1. Pos' = Pos  BY DEF Pos
<1>2. Window(msg, Pos, chunk, stream)'  BY <1>1 DEF IInv
<1>3. HeaderInv'  BY <1>1 DEF IInv, HeaderInv
<1>4. BodyInv'  BY <1>1 DEF IInv, BodyInv
<1> QED  BY <1>2, <1>3, <1>4 DEF IInv

LEMMA StepReadFails ==
    ASSUME IInv, ReadFails
    PROVE  IInv'
<1>1. LoopInv'  BY DEF IInv, LoopInv, ReadFails, lengthVars
<1> QED  BY <1>1, LoopStep DEF ReadFails, headerVars, lengthVars

LEMMA StepCheck ==
    ASSUME IInv, Check
    PROVE  IInv'
<1>1. LoopInv'  BY DEF IInv, LoopInv, Check, lengthVars
<1> QED  BY <1>1, LoopStep DEF Check, headerVars, lengthVars

LEMMA StepEndOfChunk ==
    ASSUME IInv, EndOfChunk
    PROVE  IInv'
<1>1. CASE connstate = "SwitchToBody"
    BY <1>1, StepSwitch DEF EndOfChunk
<1>2. CASE connstate # "SwitchToBody"
    <2>1. LoopInv'  BY <1>2 DEF IInv, LoopInv, EndOfChunk
    <2> QED  BY <1>2, <2>1, LoopStep DEF EndOfChunk, headerVars, lengthVars
<1> QED  BY <1>1, <1>2

(* With the body a read is never more than remains, and what remains shrinks *)
(* by as much as the buffer holds.                                           *)
LEMMA StepRead ==
    ASSUME IInv, NEW n \in 1 .. Len(stream), Read(n)
    PROVE  IInv'
<1>1. PICK p \in Nat : p = Pos  BY PosNat
<1>2. /\ pc = "read" /\ pc' = "machine" /\ chunk = <<>> /\ connstate # "SwitchToBody"
      /\ msg' = msg /\ connstate' = connstate /\ body' = body
      /\ line' = line /\ firstLine' = firstLine /\ lengthField' = lengthField
      /\ chunk' = SubSeq(stream, 1, n)
      /\ stream' = SubSeq(stream, n + 1, Len(stream))
      /\ remain >= 0 => n <= remain
      /\ remain' = IF remain >= 0 THEN remain - n ELSE remain
    BY DEF IInv, LoopInv, Read, headerVars
<1>3. Window(msg, p, <<>>, stream)  BY <1>1, <1>2, PosNat
<1>4. /\ Window(msg, p, chunk', stream')
      /\ Len(chunk') = n /\ Len(stream') = Len(stream) - n
    BY <1>2, <1>3, WindowRead
<1>5. Len(msg) \in Nat /\ Len(stream) \in Nat /\ n \in Nat /\ p + Len(stream) = Len(msg)
    <2>1. Len(<<>>) = 0 /\ n \in Nat  OBVIOUS
    <2>2. Len(msg) \in Nat /\ Len(stream) \in Nat  BY <1>3 DEF Window
    <2>3. p + 0 + Len(stream) = Len(msg)  BY <1>3, <2>1 DEF Window
    <2> QED  BY <2>1, <2>2, <2>3
<1>6. Pos' = p
    <2>1. Pos' = Len(msg) - (Len(stream) - n) - n  BY <1>2, <1>4 DEF Pos
    <2> QED  BY <1>5, <2>1
<1>7. Window(msg, Pos, chunk, stream)'  BY <1>2, <1>4, <1>6
<1>8. LoopInv'  BY <1>2 DEF LoopInv
<1>9. HeaderInv'
    <2>1. CASE connstate = "Body"  BY <1>2, <2>1 DEF HeaderInv
    <2>2. CASE connstate # "Body"
        <3>1. /\ remain = -1 /\ body = <<>>
              /\ InHeader(connstate, msg, p, line, firstLine, lengthField)
            BY <1>1, <2>2 DEF IInv, HeaderInv
        <3>2. remain' = -1  BY <1>2, <3>1
        <3> QED  BY <1>2, <1>6, <3>1, <3>2 DEF HeaderInv
    <2> QED  BY <2>1, <2>2
<1>10. BodyInv'
    <2> SUFFICES ASSUME connstate = "Body" PROVE InBody(msg, Pos, chunk, lengthField, remain, body)'
        BY <1>2 DEF BodyInv
    <2>1. InBody(msg, p, <<>>, lengthField, remain, body)  BY <1>1, <1>2 DEF IInv, BodyInv
    <2>2. PICK r, ck : r = remain' /\ ck = chunk'  OBVIOUS
    <2>3. remain \in Int /\ Len(<<>>) = 0 /\ Len(ck) = n  BY <1>4, <2>1, <2>2 DEF InBody
    <2>4. /\ r \in Int /\ (r < 0 => remain < 0 /\ r = remain)
          /\ (r >= 0 => remain >= 0 /\ r = remain - n)
        BY <1>2, <1>5, <2>2, <2>3
    <2>5. InBody(msg, p, ck, lengthField, r, body)
        <3>1. CASE lengthField = <<>>
            <4>1. remain = -1  BY <2>1, <3>1 DEF InBody
            <4>2. r = -1  BY <2>4, <4>1
            <4> QED  BY <2>1, <2>4, <3>1, <4>2 DEF InBody
        <3>2. CASE lengthField # <<>>
            <4>1. /\ DeclaredLength(msg) \in Int /\ Part(body, msg, HeaderEnd(msg))
                  /\ remain >= 0 => remain = DeclaredLength(msg) - Len(body) - Len(<<>>)
                  /\ remain < 0 => DeclaredLength(msg) < Len(Content(msg))
                BY <2>1, <3>2 DEF InBody
            <4>2. Len(body) \in Nat  BY <4>1 DEF Part
            <4>3. r >= 0 => r = DeclaredLength(msg) - Len(body) - Len(ck)
                BY <1>5, <2>3, <2>4, <4>1, <4>2
            <4>4. r < 0 => DeclaredLength(msg) < Len(Content(msg))  BY <2>4, <4>1
            <4> QED  BY <2>1, <2>4, <3>2, <4>3, <4>4 DEF InBody
        <3> QED  BY <3>1, <3>2
    <2> QED  BY <1>2, <1>6, <2>2, <2>5
<1> QED  BY <1>7, <1>8, <1>9, <1>10 DEF IInv

LEMMA BodyGrows ==
    ASSUME NEW m, NEW h \in Nat, NEW bd, NEW ck, NEW st, NEW p \in Nat,
           Window(m, p, ck, st), Part(bd, m, h), p = h + Len(bd)
    PROVE  Part(bd \o ck, m, h) /\ Len(bd \o ck) = Len(bd) + Len(ck)
<1>1. /\ bd \in Seq(STRING) /\ \A i \in 1 .. Len(bd) : bd[i] = m[h + i]
      /\ ck \in Seq(STRING) /\ \A i \in 1 .. Len(ck) : ck[i] = m[p + i]
    BY DEF Part, Window
<1>2. PICK a \in Nat, b \in Nat : a = Len(bd) /\ b = Len(ck)  BY <1>1
<1> DEFINE new == bd \o ck
<1>3. /\ new \in Seq(STRING) /\ Len(new) = a + b
      /\ \A i \in 1 .. a + b : new[i] = IF i <= a THEN bd[i] ELSE ck[i - a]
    BY <1>1, <1>2, ConcatProperties
<1> HIDE DEF new
<1>4. ASSUME NEW i \in 1 .. a + b  PROVE new[i] = m[h + i]
    <2>1. CASE i <= a
        <3>1. i \in 1 .. Len(bd)  BY <1>2, <2>1
        <3> QED  BY <1>1, <1>3, <2>1, <3>1
    <2>2. CASE ~(i <= a)
        <3>1. i - a \in 1 .. Len(ck)  BY <1>2, <2>2
        <3>2. p = h + a  BY <1>2
        <3>3. p + (i - a) = h + i  BY <3>2
        <3>4. ck[i - a] = m[p + (i - a)]  BY <1>1, <3>1
        <3>5. new[i] = ck[i - a]  BY <1>3, <2>2
        <3> QED  BY <3>3, <3>4, <3>5
    <2> QED  BY <2>1, <2>2
<1>5. Len(new) = Len(bd) + Len(ck) /\ \A i \in 1 .. Len(new) : new[i] = m[h + i]
    BY <1>2, <1>3, <1>4
<1> QED  BY <1>3, <1>5 DEF Part, new

LEMMA StepParse ==
    ASSUME IInv, Parse
    PROVE  IInv'
<1>1. PICK p \in Nat : p = Pos  BY PosNat
<1>2. /\ pc' = "check" /\ connstate = "Body" /\ connstate' = "Body"
      /\ msg' = msg /\ stream' = stream /\ chunk' = <<>> /\ body' = body \o chunk
      /\ lengthField' = lengthField /\ remain' = remain
    BY DEF Parse, In, headerVars, lengthVars
<1>3. /\ Window(msg, p, chunk, stream) /\ msg \in Seq(STRING) /\ chunk \in Seq(STRING)
      /\ stream \in Seq(STRING) /\ p + Len(chunk) + Len(stream) = Len(msg)
    BY <1>1, PosNat DEF Window
<1>4. /\ Window(msg, p + Len(chunk), <<>>, stream) /\ p + Len(chunk) <= Len(msg)
    BY <1>3, WindowParse
<1>5. Len(msg) \in Nat /\ Len(chunk) \in Nat /\ Len(stream) \in Nat  BY <1>3
<1>6. Pos' = p + Len(chunk)
    <2>1. Pos' = Len(msg) - Len(stream) - Len(<<>>) /\ Len(<<>>) = 0  BY <1>2 DEF Pos
    <2> QED  BY <1>3, <1>5, <2>1
<1>7. Window(msg, Pos, chunk, stream)'  BY <1>2, <1>4, <1>6
<1>8. InBody(msg, p, chunk, lengthField, remain, body)  BY <1>1, <1>2 DEF IInv, BodyInv
<1>9. InBody(msg, p + Len(chunk), <<>>, lengthField, remain, body \o chunk)
    <2>1. PICK h \in 1 .. Len(msg) : h = HeaderEnd(msg)  BY <1>8 DEF InBody
    <2>2. p = h + Len(body) /\ Part(body, msg, h)  BY <1>8, <2>1 DEF InBody
    <2>3. /\ Part(body \o chunk, msg, h)
          /\ Len(body \o chunk) = Len(body) + Len(chunk)
        BY <1>3, <2>2, BodyGrows
    <2>4. Len(body) \in Nat  BY <2>2 DEF Part
    <2>5. p + Len(chunk) = h + Len(body \o chunk)  BY <1>5, <2>2, <2>3, <2>4
    <2>6. PICK bd : bd = body \o chunk  OBVIOUS
    <2>7. CASE lengthField = <<>>
        BY <1>8, <2>1, <2>3, <2>5, <2>6, <2>7 DEF InBody
    <2>8. CASE lengthField # <<>>
        <3>1. /\ DeclaredLength(msg) \in Int /\ remain \in Int
              /\ remain >= 0 => remain = DeclaredLength(msg) - Len(body) - Len(chunk)
              /\ remain < 0 => DeclaredLength(msg) < Len(Content(msg))
            BY <1>8, <2>8 DEF InBody
        <3>2. remain >= 0 => remain = DeclaredLength(msg) - Len(bd) - Len(<<>>)
            <4>1. Len(<<>>) = 0  OBVIOUS
            <4> QED  BY <1>5, <2>3, <2>4, <2>6, <3>1, <4>1
        <3> QED  BY <1>8, <2>1, <2>3, <2>5, <2>6, <2>8, <3>1, <3>2 DEF InBody
    <2> QED  BY <2>7, <2>8
<1>10. BodyInv'  BY <1>2, <1>6, <1>9 DEF BodyInv
<1>11. HeaderInv'  BY <1>2 DEF HeaderInv
<1>12. LoopInv'  BY <1>2 DEF LoopInv
<1> QED  BY <1>7, <1>10, <1>11, <1>12 DEF IInv

(* Wherever the loop of waitForCall or waitForResponse is, what it holds   *)
(* (buffer, line, first line, content length, what remains of it) is what  *)
(* the stream says up to the position it has come to.                      *)
THEOREM Invariance == Spec => []IInv
<1>1. IInv /\ [Next]_vars => IInv'
    <2> SUFFICES ASSUME IInv, [Next]_vars PROVE IInv'  OBVIOUS
    <2>1. ASSUME NEW n \in 1 .. Len(stream), Read(n)  PROVE IInv'  BY <2>1, StepRead
    <2>2. CASE UNCHANGED vars
        <3>1. UNCHANGED <<msg, stream, chunk, connstate, line, firstLine, lengthField,
                          remain, body, pc>>
            BY <2>2 DEF vars, loopVars, headerVars, lengthVars
        <3>2. LoopInv'  BY <3>1 DEF IInv, LoopInv
        <3> QED  BY <3>1, <3>2, LoopStep
    <2> QED  BY <2>1, <2>2, StepReadFails, StepMachineStart, StepMachinePendingCR,
                StepMachineHeaderLine, StepMachinePendingHeaderLine,
                StepMachineSwitchToBody, StepParse, StepEndOfChunk, StepCheck
             DEF Next
<1> QED  BY InitIInv, <1>1, PTL DEF Spec

(***************************************************************************)
(* However TCP cuts a stream, a message that is handed on is what the      *)
(* header declares of what follows it (Protocol::readRaw,                  *)
(* connectionMachine, the loops of waitForCall and waitForResponse).       *)
(***************************************************************************)
LEMMA ExactIfDelivered == IInv => DeliveredExact
<1> SUFFICES ASSUME IInv, pc = "delivered"
             PROVE  /\ HasLength(msg)
                    /\ body = SubSeq(Content(msg), 1, DeclaredLength(msg))
                    /\ Len(body) = DeclaredLength(msg)
    BY DEF DeliveredExact
<1>1. remain = 0 /\ chunk = <<>>  BY DEF IInv, LoopInv
<1>2. connstate = "Body"  BY <1>1 DEF IInv, HeaderInv
<1>3. PICK p \in Nat : p = Pos  BY PosNat
<1>4. PICK m : m = msg  OBVIOUS
<1>5. Window(m, p, <<>>, stream) /\ m \in Seq(STRING) /\ p <= Len(m)
    <2>1. Window(m, p, <<>>, stream)  BY <1>1, <1>3, <1>4, PosNat
    <2>2. stream \in Seq(STRING) /\ m \in Seq(STRING) /\ Len(<<>>) = 0
        BY <2>1 DEF Window
    <2>3. Len(stream) \in Nat /\ Len(m) \in Nat  BY <2>2
    <2>4. p + 0 + Len(stream) = Len(m)  BY <2>1, <2>2 DEF Window
    <2> QED  BY <2>1, <2>2, <2>3, <2>4
<1>6. InBody(m, p, <<>>, lengthField, 0, body)
    BY <1>1, <1>2, <1>3, <1>4 DEF IInv, BodyInv
<1>7. lengthField # <<>>  BY <1>6 DEF InBody
<1>8. PICK h \in 1 .. Len(m), d \in Int, bd \in Seq(STRING) :
        h = HeaderEnd(m) /\ d = DeclaredLength(m) /\ bd = body
    <2>1. HeaderEnd(m) \in 1 .. Len(m) /\ DeclaredLength(m) \in Int /\ body \in Seq(STRING)
        BY <1>6, <1>7 DEF InBody, Part
    <2> QED  BY <2>1
<1>9. /\ HasLength(m) /\ p = h + Len(bd) /\ Part(bd, m, h)
      /\ 0 = d - Len(bd) - Len(<<>>)
    <2>1. /\ HasLength(m) /\ p = HeaderEnd(m) + Len(body)
          /\ Part(body, m, HeaderEnd(m))
          /\ 0 >= 0 => 0 = DeclaredLength(m) - Len(body) - Len(<<>>)
        BY <1>6, <1>7 DEF InBody
    <2>2. p = h + Len(bd) /\ Part(bd, m, h)  BY <1>8, <2>1
    <2>3. 0 >= 0 => 0 = d - Len(bd) - Len(<<>>)  BY <1>8, <2>1
    <2>4. 0 >= 0  OBVIOUS
    <2> QED  BY <2>1, <2>2, <2>3, <2>4
<1>10. Len(bd) \in Nat /\ d = Len(bd) /\ Len(m) \in Nat
    <2>1. Len(bd) \in Nat /\ Len(m) \in Nat /\ Len(<<>>) = 0  BY <1>5
    <2> QED  BY <1>9, <2>1
<1>11. bd = SubSeq(SubSeq(m, h + 1, Len(m)), 1, d)
    <2> DEFINE c == SubSeq(m, h + 1, Len(m))
               part == SubSeq(c, 1, d)
    <2>1. \A i \in h + 1 .. Len(m) : m[i] \in STRING  BY <1>5
    <2>2. h + 1 \in Int /\ Len(m) \in Int /\ p \in Int  BY <1>10
    <2>3. /\ c \in Seq(STRING) /\ Len(c) = Len(m) - h
          /\ \A i \in 1 .. Len(m) - h : c[i] = m[h + i]
        <3>1. /\ c \in Seq(STRING)
              /\ Len(c) = IF h + 1 <= Len(m) THEN Len(m) - (h + 1) + 1 ELSE 0
              /\ \A i \in 1 .. Len(m) - (h + 1) + 1 : c[i] = m[h + 1 + i - 1]
            BY <2>1, <2>2, SubSeqProperties
        <3>2. /\ Len(m) - (h + 1) + 1 = Len(m) - h
              /\ \A i \in Int : h + 1 + i - 1 = h + i
            BY <1>10
        <3>3. Len(c) = Len(m) - h  BY <1>10, <3>1
        <3>4. \A i \in 1 .. Len(m) - h : c[i] = m[h + i]
            <4>1. \A i \in 1 .. Len(m) - h : c[i] = m[h + 1 + i - 1]  BY <3>1, <3>2
            <4> QED  BY <3>2, <4>1
        <3> QED  BY <3>1, <3>3, <3>4
    <2>4. \A i \in 1 .. d : bd[i] = m[h + i]  BY <1>9, <1>10 DEF Part
    <2> HIDE DEF c
    <2>5. d \in Nat /\ d <= Len(m) - h  BY <1>5, <1>9, <1>10
    <2>6. \A i \in 1 .. d : c[i] \in STRING  BY <2>3, <2>5
    <2>7. /\ part \in Seq(STRING) /\ Len(part) = d
          /\ \A i \in 1 .. d : part[i] = c[i]
        <3>1. /\ part \in Seq(STRING)
              /\ Len(part) = IF 1 <= d THEN d - 1 + 1 ELSE 0
              /\ \A i \in 1 .. d - 1 + 1 : part[i] = c[1 + i - 1]
            BY <2>5, <2>6, SubSeqProperties
        <3>2. d - 1 + 1 = d /\ \A i \in Int : 1 + i - 1 = i  BY <2>5
        <3>3. Len(part) = d  BY <2>5, <3>1
        <3> QED  BY <3>1, <3>2, <3>3
    <2> HIDE DEF part
    <2>8. \A i \in 1 .. d : part[i] = bd[i]
        <3>1. \A i \in 1 .. d : i \in 1 .. Len(m) - h  BY <1>10, <2>5
        <3> QED  BY <2>3, <2>4, <2>7, <3>1
    <2>9. bd = part  BY <1>10, <2>7, <2>8, SeqEqual
    <2> QED  BY <2>9 DEF part, c
<1>12. Content(m) = SubSeq(m, h + 1, Len(m))  BY <1>8 DEF Content
<1> QED  BY <1>4, <1>8, <1>9, <1>10, <1>11, <1>12

(* However TCP cuts the stream, what connectionMachine hands on as the     *)
(* content is exactly the content that the header has declared.            *)
THEOREM Delivery == Spec => []DeliveredExact
BY Invariance, ExactIfDelivered, PTL

(***************************************************************************)
(* However TCP cuts a stream, the loop gives up no message that conforms:  *)
(* at its end the whole of its header and content have been understood.    *)
(***************************************************************************)
LEMMA FailedDoesNotConform == IInv => ConformingDelivered
<1> SUFFICES ASSUME IInv, pc = "failed", Conforming(msg) PROVE FALSE
    BY DEF ConformingDelivered
<1>1. remain # 0 /\ chunk = <<>> /\ stream = <<>> /\ connstate # "SwitchToBody"
    BY DEF IInv, LoopInv
<1>m. PICK m : m = msg  OBVIOUS
<1>p. PICK p \in Nat : p = Pos  BY PosNat
<1>2. m = msg /\ p = Pos  BY <1>m, <1>p
<1>3. m \in Seq(STRING) /\ p = Len(m)
    <2>1. Window(m, p, <<>>, <<>>)  BY <1>1, <1>2, PosNat
    <2>2. Len(<<>>) = 0 /\ m \in Seq(STRING) /\ p + Len(<<>>) + Len(<<>>) = Len(m)
        BY <2>1 DEF Window
    <2> QED  BY <2>2
<1>4. HasLength(m) /\ DeclaredLength(m) = Len(Content(m))  BY <1>2 DEF Conforming
<1>5. CASE connstate = "Body"
    <2>1. InBody(m, p, <<>>, lengthField, remain, body)
        BY <1>1, <1>2, <1>5 DEF IInv, BodyInv
    <2>2. lengthField # <<>>  BY <1>4, <2>1 DEF InBody
    <2>3. PICK h \in 1 .. Len(m), d \in Int, r \in Int, bd \in Seq(STRING) :
            h = HeaderEnd(m) /\ d = DeclaredLength(m) /\ r = remain /\ bd = body
        BY <2>1, <2>2 DEF InBody, Part
    <2>4. /\ p = h + Len(bd)
          /\ r >= 0 => r = d - Len(bd) - Len(<<>>)
          /\ r < 0 => d < Len(Content(m))
        BY <2>1, <2>2, <2>3 DEF InBody
    <2>5. Len(Content(m)) = Len(m) - h
        <3>1. \A i \in h + 1 .. Len(m) : m[i] \in STRING  BY <1>3
        <3>2. h + 1 \in Int /\ Len(m) \in Int  BY <1>3
        <3>3. Len(SubSeq(m, h + 1, Len(m)))
                = IF h + 1 <= Len(m) THEN Len(m) - (h + 1) + 1 ELSE 0
            BY <3>1, <3>2, SubSeqProperties
        <3>4. Len(SubSeq(m, h + 1, Len(m))) = Len(m) - h  BY <3>2, <3>3
        <3> QED  BY <2>3, <3>4 DEF Content
    <2>6. Len(bd) \in Nat /\ Len(m) \in Nat /\ Len(<<>>) = 0  BY <1>3
    <2>7. d = Len(m) - h /\ r # 0  BY <1>1, <1>4, <2>3, <2>5
    <2>8. ~(r < 0)  BY <2>4, <2>5, <2>6, <2>7
    <2>9. r = d - Len(bd) - 0  BY <2>4, <2>6, <2>8
    <2>10. PICK b \in Nat, n \in Nat : b = Len(bd) /\ n = Len(m)  BY <2>6
    <2>a. n = h + b  BY <1>3, <2>4, <2>10
    <2>b. r = d - b - 0 /\ d = n - h  BY <2>7, <2>9, <2>10
    <2>11. n = h + b /\ r = (n - h) - b /\ h \in Int  BY <2>a, <2>b
    <2>12. r = 0  BY <2>11
    <2> QED  BY <2>7, <2>12
<1>6. CASE connstate # "Body"
    <2>1. InHeader(connstate, m, p, line, firstLine, lengthField)
        BY <1>2, <1>6 DEF IInv, HeaderInv
    <2>2. PICK s \in 1 .. p + 1 : Block(m, p, s) /\ NoBlank(m, s, p)
        <3>1. PICK s \in 1 .. p + 1 :
                /\ Block(m, p, s)
                /\ IF connstate = "Start"
                   THEN p = s - 1
                   ELSE \E l \in s .. p + 1 :
                          /\ Lines(m, p, s, l, line, firstLine, lengthField)
                          /\ InBlock(connstate, m, p, s, l, line)
            BY <2>1 DEF InHeader
        <3>2. CASE connstate = "Start"
            <4>1. s .. p = {}  BY <3>1, <3>2
            <4> QED  BY <3>1, <4>1 DEF NoBlank
        <3>3. CASE connstate = "PendingCR"
            <4>1. NoBlank(m, s, p - 1) /\ m[p] = "CR"
                BY <3>1, <3>3 DEF InBlock, InPendingCR
            <4>2. p \notin BlankLines(m)  BY <1>3, <4>1 DEF BlankLines, LineEnds
            <4>3. p - 1 + 1 = p /\ p - 1 \in Int  OBVIOUS
            <4>4. NoBlank(m, s, p)  BY <4>1, <4>2, <4>3, NoBlankOn
            <4> QED  BY <3>1, <4>4
        <3>4. CASE connstate \notin {"Start", "PendingCR"}
            <4>1. NoBlank(m, s, p)
                BY <1>1, <3>1, <3>4 DEF InBlock, InHeaderLine, InPendingHeaderLine
            <4> QED  BY <3>1, <4>1
        <3> QED  BY <3>2, <3>3, <3>4
    <2>3. PICK i : i \in HeaderEnds(m)  BY <1>4 DEF HasLength
    <2>4. /\ i \in BlankLines(m) /\ i \in 1 .. Len(m)
          /\ HeaderStarts(m) # {} /\ i >= HeaderStart(m)
        BY <1>3, <2>3 DEF HeaderEnds, BlankLines, LineEnds
    <2>5. HeaderStart(m) \in HeaderStarts(m)
        <3>1. HeaderStarts(m) \subseteq Nat  BY <1>3 DEF HeaderStarts
        <3>2. PICK t \in HeaderStarts(m) : \A j \in HeaderStarts(m) : t <= j
            BY <2>4, <3>1, NatMinimum
        <3>3. HeaderStarts(m) \subseteq Int  BY <3>1
        <3> QED  BY <3>2, <3>3, LeastIs DEF HeaderStart
    <2>6. PICK t \in 1 .. Len(m) + 1 :
            /\ t = HeaderStart(m) /\ StartsBlock(m, t) /\ (t \in DOMAIN m => m[t] # "S100")
        BY <2>5 DEF HeaderStarts
    <2>7. i < s  BY <1>3, <2>2, <2>4 DEF NoBlank
    <2>8. t \in 1 .. s - 1 /\ t \in DOMAIN m  BY <1>3, <2>4, <2>6, <2>7
    <2> QED  BY <2>2, <2>6, <2>8 DEF Block
<1> QED  BY <1>5, <1>6

(* A message that conforms is never refused by connectionMachine, nor      *)
(* given up as incomplete, wherever the stream is cut.                     *)
THEOREM Conformance == Spec => []ConformingDelivered
BY Invariance, FailedDoesNotConform, PTL
=============================================================================
