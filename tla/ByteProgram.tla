------------------------------ MODULE ByteProgram ------------------------------
(***************************************************************************)
(* What the lazy DFAs run on: a compiled program whose code-point classes  *)
(* are spelled out in bytes, the classes of bytes it does not tell apart,  *)
(* and what one byte beside a position says of the assertions there.  Text *)
(* mode: word boundaries ask about code points, which one byte outside     *)
(* ASCII does not settle.                                                  *)
(***************************************************************************)
EXTENDS Program

WordKinds == {"word_boundary", "not_word_boundary", "word_start", "word_end"}
LineStarts == {"text_start", "line_start"}

\* A table with an entry more.
WithEntry(table, key, value) ==
  [k \in DOMAIN table \cup {key} |-> IF k = key THEN value ELSE table[k]]

Has(code, op) == \E pc \in DOMAIN code : code[pc].op = op
looks(code) == Has(code, "assert_position")

-----------------------------------------------------------------------------
(* build_byte_program.                                                     *)

Goto(target) == [op |-> "jump", primary |-> target]
EdgeTo(class, target) == << [op |-> "klass", class |-> class], Goto(target) >>

\* A code-point class as the edges of its UTF-8 trie from counter at on; an accepted code
\* point leaves to after.
emit_utf8_trie(class, at, after) ==
  LET ascii == class \cap Ascii
      tail(here) == EdgeTo({Lead}, here + 2) \o EdgeTo({Cont}, after)
  IN IF class = {} THEN << [op |-> "klass", class |-> {}] >>
     ELSE IF class = ascii THEN EdgeTo(ascii, after)
     ELSE IF ascii = {} THEN tail(at)
     ELSE << [op |-> "split", primary |-> at + 1, secondary |-> at + 3] >>
            \o EdgeTo(ascii, after) \o tail(at + 3)

\* The three slots behind a code-point class are absorbed in its trie.
Absorbed(code, pc) == \E k \in 1 .. 3 : pc - k >= 1 /\ code[pc - k].op = "klass_cp"

EmittedSize(code, pc) ==
  IF Absorbed(code, pc) THEN 0
  ELSE IF code[pc].op = "klass_cp" THEN Len(emit_utf8_trie(code[pc].class, 1, 1)) ELSE 1

\* Old counter -> new counter.
Remapped(code) ==
  LET at[pc \in 1 .. Len(code) + 1] ==
        IF pc = 1 THEN 1 ELSE at[pc - 1] + EmittedSize(code, pc - 1)
  IN at

build_byte_program(code) ==
  LET map == Remapped(code)
      Emitted(pc) ==
        LET in == code[pc]
        IN IF Absorbed(code, pc) THEN <<>>
           ELSE CASE in.op = "klass_cp" -> emit_utf8_trie(in.class, map[pc], map[pc + 4])
                  [] in.op = "jump" -> << Goto(map[in.primary]) >>
                  [] in.op = "split" -> << [in EXCEPT !.primary = map[in.primary],
                                                      !.secondary = map[in.secondary]] >>
                  [] OTHER -> << in >>
  IN FlattenSeq([pc \in DOMAIN code |-> Emitted(pc)])

-----------------------------------------------------------------------------
(* The byte alphabet and the contexts.                                     *)

\* Mutant: classes that forget what assertions tell apart.
alphabet_blind(code, byte) ==
  {b \in Bytes : \A pc \in DOMAIN code :
     code[pc].op \in Consuming => (b \in code[pc].class <=> byte \in code[pc].class)}

\* The bytes that satisfy the same instructions and, where positions are asserted, are alike
\* in being a newline, a word byte and outside ASCII.
alphabet(code, byte) ==
  {b \in Bytes :
     /\ \A pc \in DOMAIN code :
          code[pc].op \in Consuming => (b \in code[pc].class <=> byte \in code[pc].class)
     /\ looks(code) => \A kind \in {{Newline}, Letters, Bytes \ Ascii} : b \in kind <=> byte \in kind}

\* byte_ctx::of
Context(byte) ==
  CASE byte = Newline -> "newline"
    [] byte \in Letters -> "word"
    [] byte \in Bytes \ Ascii -> "nonascii"
    [] OTHER -> "other"

\* One byte of the class tells for all.
class_ctx(class) == Context(CHOOSE byte \in class : TRUE)

\* What is known left and right of a position of a text: ctx_at, key_at and right_ctx_at.
left_ctx(code, text, pos) ==
  IF pos = 0 THEN "start" ELSE class_ctx(alphabet(code, ByteAt(text, pos - 1)))
right_ctx(code, text, pos) ==
  IF pos = Len(text) THEN "end"
  ELSE IF pos + 1 = Len(text) /\ ByteAt(text, pos) = Newline THEN "final_newline"
  ELSE class_ctx(alphabet(code, ByteAt(text, pos)))

\* Mutant: the ends of the text taken for bytes that do not tell.
undecidable_at_ends(kind, before, after) ==
  /\ kind \in WordKinds
  /\ \E side \in {before, after} : side \notin {"word", "newline", "other"}

\* A side outside ASCII that the other does not settle.
undecidable_word(kind, before, after) ==
  CASE kind \in {"word_boundary", "not_word_boundary"} -> "nonascii" \in {before, after}
    [] kind = "word_start" ->
         before # "word" /\ (after = "nonascii" \/ (before = "nonascii" /\ after = "word"))
    [] kind = "word_end" ->
         after # "word" /\ (before = "nonascii" \/ (after = "nonascii" /\ before = "word"))
    [] OTHER -> FALSE

\* An assertion between what is known of the left and of the right of a position: contexts,
\* or the start, the end, or a newline that ends the text.
Holds(kind, left, right) ==
  CASE kind = "text_start" -> left = "start"
    [] kind = "line_start" -> left \in {"start", "newline"}
    [] kind = "text_end" -> right = "end"
    [] kind = "text_end_or_final_newline" -> right \in {"end", "final_newline"}
    [] kind = "line_end" -> right \in {"end", "newline", "final_newline"}
    [] kind = "word_boundary" -> (left = "word") # (right = "word")
    [] kind = "not_word_boundary" -> (left = "word") = (right = "word")
    [] kind = "word_start" -> left # "word" /\ right = "word"
    [] kind = "word_end" -> left = "word" /\ right # "word"

=============================================================================
