----------------------------- MODULE XmlRpcXml -----------------------------
(***************************************************************************)
(* XML, not as characters but as the tokens that expat reads from them: an *)
(* opening or closing tag or a piece of text; and the values made of such  *)
(* text.                                                                   *)
(*                                                                         *)
(* On the wire an atom of a text is literal or an entity; literal atoms of *)
(* Markup ("<", "&lt;", a tag) are no text to expat: some of them are what *)
(* Unquoted says, the others no XML at all.  A numeral is one atom.        *)
(***************************************************************************)
EXTENDS XmlRpcValues

CONSTANTS
    Markup,     \* the atoms in which xmlEscape replaces something
    Unquoted,   \* expat: atom of Markup -> the tokens it is, written as it is
    Numeral,    \* libc: decimal numeral (an atom) -> the number it denotes
    IntWidth,   \* bits of an int
    LongWidth,  \* bits of a long
    PrintF,     \* libc: double -> numeral that "%f" makes of it
    PrintG,     \* libc: double -> numeral that "%g" makes of it
    Atof        \* libc: numeral -> double

ASSUME IntWidthAssumption == IntWidth \in Nat /\ IntWidth > 0
ASSUME LongWidthAssumption == LongWidth \in Nat /\ LongWidth >= IntWidth
ASSUME UnquotedAssumption == DOMAIN Unquoted \subseteq Markup

(***************************************************************************)
(* Values from text.                                                       *)
(***************************************************************************)
BooleanOf(t) == Boolean(t \in {<<a>> : a \in {"true", "TRUE", "1", "on", "ON"}})

\* strtol and atof skip white space and read the numeral behind it, or 0.
NumeralIn(t) ==
    LET s == SelectSeq(t, LAMBDA a : a # "ws") IN IF s = <<>> THEN "0" ELSE Head(s)

\* strtol returns a long, the nearest if the number does not fit.
strtol(t) ==
    LET a == NumeralIn(t)
        n == IF a \in DOMAIN Numeral THEN Numeral[a] ELSE 0
        half == 2 ^ (LongWidth - 1)
    IN  CASE n >= half -> half - 1
          [] n < -half -> -half
          [] OTHER -> n

\* The member is an int: the high bits are lost.
IntegerOf(t) ==
    LET half == 2 ^ (IntWidth - 1) IN Integer(((strtol(t) + half) % (2 * half)) - half)

DoubleOf(t) ==
    LET a == NumeralIn(t) IN Double(IF a \in DOMAIN Atof THEN Atof[a] ELSE Atof["0"])

(***************************************************************************)
(* The tokens.                                                             *)
(***************************************************************************)
Literal(t) == [i \in DOMAIN t |-> <<"literal", t[i]>>]

xmlEscape_Nothing(t) == Literal(t)   \* mutant: nothing is replaced

xmlEscape(t) == [i \in DOMAIN t |-> IF t[i] \in Markup THEN <<"entity", t[i]>>
                                                       ELSE <<"literal", t[i]>>]

Chars(wire) == IF wire = <<>> THEN <<>> ELSE <<[chars |-> wire]>>
Element(tag, body) == <<[open |-> tag]>> \o body \o <<[close |-> tag]>>

\* Two pieces of text that meet are one.
Join(s, t) ==
    IF s # <<>> /\ t # <<>> /\ "chars" \in DOMAIN Last(s) \cap DOMAIN Head(t)
    THEN Front(s) \o Chars(Last(s).chars \o Head(t).chars) \o Tail(t)
    ELSE s \o t

\* A text that is written as it is.
Raw(t) ==
    FoldLeft(Join, <<>>, [i \in DOMAIN t |->
        IF t[i] \in DOMAIN Unquoted THEN Unquoted[t[i]] ELSE Chars(Literal(<<t[i]>>))])
=============================================================================
