--------------------------------- MODULE Text ---------------------------------
(***************************************************************************)
(* Subjects: sequences of bytes over a small alphabet that has what the    *)
(* matchers tell apart: word and non-word ASCII, the newline, and one      *)
(* code point of two bytes, whose bytes may also stand alone (malformed    *)
(* UTF-8).  Positions are byte offsets from 0.                             *)
(***************************************************************************)
EXTENDS Integers, Sequences, FiniteSets, SequencesExt, FiniteSetsExt

Newline == "\n"
Letters == {"a", "b"}
Ascii == Letters \cup {Newline, "-"}
Lead == "C3"
Cont == "A9"
Bytes == Ascii \cup {Lead, Cont}

Accented == "e'"
CodePoints == Ascii \cup {Accented}
WordCodePoints == Letters \cup {Accented}

Encode(c) == IF c = Accented THEN <<Lead, Cont>> ELSE <<c>>

ByteAt(text, pos) == text[pos + 1]
HasByte(text, pos, class) == pos < Len(text) /\ ByteAt(text, pos) \in class

\* decode_codepoint_strict: the code point that starts at pos, none when malformed.
Decoded(text, pos) ==
  {c \in CodePoints : IsPrefix(Encode(c), SubSeq(text, pos + 1, Len(text)))}

\* The code point that ends at pos: decoded from its aligned start, it must reach pos.
DecodedBefore(text, pos) ==
  {c \in CodePoints : IsSuffix(Encode(c), SubSeq(text, 1, pos))}

\* A match never starts inside a code point, the region's start aside.
Aligned(text, pos, start) == pos = start \/ ~HasByte(text, pos, {Cont})

\* codepoint_advance: the character boundary after end, past the text for its end.
NextBoundary(text, end) ==
  IF end >= Len(text) THEN Len(text) + 1
  ELSE Min({p \in end + 1 .. Len(text) : ~HasByte(text, p, {Cont})})

word_before(text, pos) == DecodedBefore(text, pos) \cap WordCodePoints # {}
word_after(text, pos) == Decoded(text, pos) \cap WordCodePoints # {}

AfterNewline(text, pos) == pos > 0 /\ ByteAt(text, pos - 1) = Newline

assertion_holds(kind, text, pos) ==
  LET before == word_before(text, pos)
      after == word_after(text, pos)
  IN CASE kind = "text_start" -> pos = 0
       [] kind = "text_end" -> pos = Len(text)
       [] kind = "text_end_or_final_newline" ->
            pos = Len(text) \/ (pos + 1 = Len(text) /\ ByteAt(text, pos) = Newline)
       [] kind = "line_start" -> pos = 0 \/ AfterNewline(text, pos)
       [] kind = "line_end" -> pos = Len(text) \/ ByteAt(text, pos) = Newline
       [] kind = "word_boundary" -> before # after
       [] kind = "not_word_boundary" -> before = after
       [] kind = "word_start" -> ~before /\ after
       [] kind = "word_end" -> before /\ ~after

=============================================================================
