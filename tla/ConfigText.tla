------------------------------ MODULE ConfigText ------------------------------
(* The text of a value in config.toml: how a text or a list of key sequences is *)
(* written on its line, and how the readers take it from there (config.cpp). A *)
(* text is the sequence of its characters; only those that one of the readers  *)
(* or writers treats in a way of its own have a name.                          *)
LOCAL INSTANCE Naturals
LOCAL INSTANCE SequencesExt
LOCAL INSTANCE FiniteSetsExt

Quote   == "\""
Escape  == "\\"
Blanks  == {" ", "\t", "\r", "\n"}

Trim(text) ==
  LET inked == {i \in DOMAIN text : text[i] \notin Blanks}
  IN  IF inked = {} THEN <<>> ELSE SubSeq(text, Min(inked), Max(inked))

\* Between two quotes a # or a comma is a character like any other, and an
\* escaped quote ends nothing: what a reader knows where it stands.
Outside == [quoted |-> FALSE, escaped |-> FALSE]
After(at, c) ==
  IF at.escaped THEN [at EXCEPT !.escaped = FALSE]
  ELSE [quoted  |-> IF c = Quote THEN ~at.quoted ELSE at.quoted,
        escaped |-> at.quoted /\ c = Escape]

\* Where the reader stands before each character of the text, and after the last.
Standing(text) ==
  FoldLeft(LAMBDA seen, c : Append(seen, After(Last(seen), c)), <<Outside>>, text)

\* The places of a character where it has its meaning.
Marks(text, mark) ==
  LET at == Standing(text)
  IN  {i \in DOMAIN text : text[i] = mark /\ ~at[i].quoted}

StripComment(line) ==
  LET marks == Marks(line, "#")
  IN  IF marks = {} THEN line ELSE SubSeq(line, 1, Min(marks) - 1)

Escaped(c) ==
  CASE c \in {Escape, Quote} -> <<Escape, c>>
    [] c = "\n" -> <<Escape, "n">>
    [] c = "\r" -> <<Escape, "r">>
    [] c = "\t" -> <<Escape, "t">>
    [] OTHER    -> <<c>>

Quoted(text) ==
  <<Quote>> \o FlattenSeq([i \in DOMAIN text |-> Escaped(text[i])]) \o <<Quote>>

Meant(c) ==
  CASE c = "n" -> "\n" [] c = "r" -> "\r" [] c = "t" -> "\t" [] OTHER -> c

Decoded(body) ==
  LET read(out, c) ==
        IF out.escaped THEN [text |-> Append(out.text, Meant(c)), escaped |-> FALSE]
        ELSE IF c = Escape THEN [out EXCEPT !.escaped = TRUE]
        ELSE [out EXCEPT !.text = Append(@, c)]
      out == FoldLeft(read, [text |-> <<>>, escaped |-> FALSE], body)
  IN  IF out.escaped THEN Append(out.text, Escape) ELSE out.text

\* A text that is not between quotes stands for itself.
Unquoted(raw) ==
  LET text == Trim(raw)
  IN  IF Len(text) < 2 \/ text[1] # Quote \/ Last(text) # Quote THEN text
      ELSE Decoded(SubSeq(text, 2, Len(text) - 1))

\* The keys of a binding: one text, or a list of them between brackets.
QuotedList(keys) ==
  IF Len(keys) = 1 THEN Quoted(keys[1])
  ELSE <<"[">> \o FlattenSeq([i \in DOMAIN keys |->
                    (IF i = 1 THEN <<>> ELSE <<",", " ">>) \o Quoted(keys[i])])
         \o <<"]">>

Cut(body) ==
  LET ends == SetToSortSeq(Marks(body, ",") \cup {Len(body) + 1}, <)
  IN  [i \in DOMAIN ends |->
         SubSeq(body, IF i = 1 THEN 1 ELSE ends[i - 1] + 1, ends[i] - 1)]

NonEmpty(texts) == SelectSeq(texts, LAMBDA t : t # <<>>)

\* Nothing when a quote is left open.
BindingList(raw) ==
  LET text == Trim(raw)
      body == SubSeq(text, 2, Len(text) - 1)
      left == Last(Standing(body))
  IN  IF text = <<>> THEN <<>>
      ELSE IF text[1] # "[" \/ Last(text) # "]" THEN NonEmpty(<<Unquoted(text)>>)
      ELSE IF left.quoted \/ left.escaped THEN <<>>
      ELSE NonEmpty([i \in DOMAIN Cut(body) |-> Unquoted(Cut(body)[i])])

\* What parseDocument() hands to the readers of a value.
Value(line) == Trim(StripComment(line))

\* A text, and a list of texts that are not empty, are read as they were
\* written, whatever characters they have.
TextsSurvive(texts) == \A t \in texts : Unquoted(Value(Quoted(t))) = t
KeysSurvive(lists) ==
  \A keys \in lists : BindingList(Value(QuotedList(keys))) = keys
=============================================================================
