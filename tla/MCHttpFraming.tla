--------------------------- MODULE MCHttpFraming ---------------------------
(* HttpFraming on every way of cutting up some twenty streams: conforming  *)
(* ones in each line-end style, folded fields, 100 Continue once and twice,*)
(* repeated and missing lengths, no content, too little and too much of    *)
(* it, headers without an end and without a line.                          *)
EXTENDS HttpFraming

MCLengthOf == [LEN0 |-> 0, LEN1 |-> 1, LEN2 |-> 2, LEN3 |-> 3, LENNEG |-> -2]

Crlf == <<"CR", "LF">>
Field(text) == <<text>> \o Crlf
Request == Field("REQ")
Plain(length, content) == Request \o Field(length) \o Crlf \o content

ConformingMessages == {
  Plain("LEN2", <<"a", "b">>),
  Plain("LEN3", <<"LF", "LF", "a">>),
  Plain("LEN0", <<>>),
  <<"REQ", "LF", "HDR", "LF", "LEN2", "LF", "LF", "a", "b">>,
  <<"REQ", "CR", "LEN1", "CR", "CR", "a">>,
  Request \o <<"HDR">> \o Crlf \o <<"SP">> \o Field("LEN1") \o Field("LEN2")
          \o Crlf \o <<"a", "b">>,
  Request \o Field("LEN2") \o Field("LEN1") \o Crlf \o <<"a", "b">>,
  Field("S100") \o Crlf \o Field("S200") \o Field("LEN2") \o Crlf \o <<"a", "b">>,
  Field("S100") \o Crlf \o Field("S100") \o Crlf \o Plain("LEN1", <<"a">>),
  Field("S100") \o Field("LEN1") \o Crlf \o Field("S200") \o Field("LEN2")
          \o Crlf \o <<"a", "b">>}

OtherMessages == {
  Plain("HDR", <<"a", "b">>),                       \* no length
  Plain("LEN1", <<"a", "CR", "LF">>),               \* a line end too much
  Plain("LEN1", <<"a">>) \o Plain("LEN1", <<"b">>), \* two messages
  Plain("LEN3", <<"a", "b">>),                      \* cut off
  Plain("LENNEG", <<"a">>),
  Crlf \o Plain("LEN1", <<"a">>),                   \* an empty first line
  <<"LF", "LF", "a">>,
  Field("S100") \o Crlf,                            \* nothing after it
  Request \o <<"LEN0", "CR", "LF", "CR">>,          \* cut off within the blank line
  <<>>}

MCMessages == ConformingMessages \cup OtherMessages

(* Every message of the first list is one the code should deliver. *)
ASSUME ConformingAssumption == \A m \in ConformingMessages : Conforming(m)
ASSUME OtherAssumption == \A m \in OtherMessages : ~Conforming(m)
=============================================================================
