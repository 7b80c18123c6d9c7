----------------------------- MODULE TextTokens -----------------------------
(***************************************************************************)
(* The tokenizer, src/tokenize/tokenize.go: from a text to its terms and   *)
(* their positions. A rune is one of its class: CJK, a cased letter, one   *)
(* of two bytes, a digit, a mark (part of a word, but neither letter nor   *)
(* ASCII digit), what a broken encoding leaves, or a separator.            *)
(***************************************************************************)
EXTENDS Integers, FiniteSetsExt, SequencesExt

CONSTANTS
  MaxNumberLen, MaxTermBytes, Base64Min, RepeatMin,   \* the admission constants
  MaxText                                             \* bound: runes in a text

VARIABLE text

CJK == {"han", "kana"}
Letter == {"a", "A", "e2"}
Digit == {"1", "2"}
Rune == CJK \cup Letter \cup Digit \cup {"mark", "broken", " "}
Wordy == Letter \cup Digit \cup {"mark"}

ToLower(r) == IF r = "A" THEN "a" ELSE r
RuneBytes(r) == IF r \in {"e2", "mark"} THEN 2 ELSE 1

-----------------------------------------------------------------------------
(* Admission.                                                              *)

CountOf(term, runes) == Cardinality({i \in DOMAIN term : term[i] \in runes})
TermBytes(term) == FoldLeft(LAMBDA n, r : n + RuneBytes(r), 0, term)

\* The longest run of one rune.
MaxRun(term) ==
  Max({n \in 0 .. Len(term) : \E i \in 0 .. Len(term) - n :
         \A j \in i + 1 .. i + n : term[j] = term[i + 1]})

admit(term) ==
  LET digits  == CountOf(term, Digit)
      letters == CountOf(term, Letter)
      base64  == Len(term) >= Base64Min /\ digits > 0 /\ letters > 0 /\ digits + letters = Len(term)
  IN IF digits = Len(term) THEN IF Len(term) > MaxNumberLen THEN "drop-long-number" ELSE "number"
     ELSE IF TermBytes(term) > MaxTermBytes THEN "drop-too-long"
     ELSE IF MaxRun(term) >= RepeatMin THEN "drop-repeat"
     ELSE IF base64 THEN "drop-base64" ELSE "word"

AdmittedAs(class) == class \in {"word", "number", "cjk-bigram", "cjk-unigram"}

-----------------------------------------------------------------------------
(* The loop of Text: t is its local state.                                 *)

TextStart == [pos |-> 0, term |-> <<>>, cjk |-> <<>>, binRun |-> FALSE, out |-> <<>>, classes |-> <<>>]

\* One token: counted under its class, emitted if admitted; the position advances
\* either way.
Token(t, term, class) ==
  [t EXCEPT !.pos = @ + 1, !.classes = Append(@, class),
            !.out = IF AdmittedAs(class) THEN Append(@, [term |-> term, pos |-> t.pos]) ELSE @]

flushCJK(t) ==
  LET n == Len(t.cjk)
      grams == IF n = 1 THEN <<t.cjk>> ELSE [i \in 1 .. n - 1 |-> <<t.cjk[i], t.cjk[i + 1]>>]
      class == IF n = 1 THEN "cjk-unigram" ELSE "cjk-bigram"
      flushed == FoldLeft(LAMBDA u, gram : Token(u, gram, class), t, grams)
  IN IF n = 0 THEN t ELSE [flushed EXCEPT !.cjk = <<>>]

flushTerm(t) ==
  IF t.term = <<>> THEN t ELSE [Token(t, t.term, admit(t.term)) EXCEPT !.term = <<>>]

\* Mutant: a word does not end the CJK run in front of it.
TextStepUnflushed(t, r) ==
  CASE r \in CJK -> [flushTerm(t) EXCEPT !.cjk = Append(@, r), !.binRun = FALSE]
    [] r = "broken" ->
         LET f == flushCJK(flushTerm(t))
         IN IF f.binRun THEN f ELSE [Token(f, <<>>, "drop-binary") EXCEPT !.binRun = TRUE]
    [] r \in Wordy -> [t EXCEPT !.term = Append(@, ToLower(r)), !.binRun = FALSE]
    [] r = " " -> [flushCJK(flushTerm(t)) EXCEPT !.binRun = FALSE]

TextStep(t, r) ==
  CASE r \in CJK -> [flushTerm(t) EXCEPT !.cjk = Append(@, r), !.binRun = FALSE]
    [] r = "broken" ->
         LET f == flushCJK(flushTerm(t))
         IN IF f.binRun THEN f ELSE [Token(f, <<>>, "drop-binary") EXCEPT !.binRun = TRUE]
    [] r \in Wordy -> [flushCJK(t) EXCEPT !.term = Append(@, ToLower(r)), !.binRun = FALSE]
    [] r = " " -> [flushCJK(flushTerm(t)) EXCEPT !.binRun = FALSE]

Text(runes) == flushCJK(flushTerm(FoldLeft(TextStep, TextStart, runes)))

-----------------------------------------------------------------------------
(* The reference: a text is its maximal runs of one script; each run has   *)
(* its tokens, and a token's position is the number of tokens before it.   *)

Script(r) == CASE r \in CJK -> "cjk" [] r \in Wordy -> "word" [] OTHER -> r

Runs(runes) ==
  LET Starts == {i \in DOMAIN runes : i = 1 \/ Script(runes[i - 1]) # Script(runes[i])}
      End(i) == Min({j \in i .. Len(runes) : j = Len(runes) \/ Script(runes[j + 1]) # Script(runes[i])})
      from   == SetToSortSeq(Starts, <)
  IN [k \in DOMAIN from |-> SubSeq(runes, from[k], End(from[k]))]

TokensOf(run) ==
  CASE Script(run[1]) = "cjk" /\ Len(run) = 1 -> <<[term |-> run, class |-> "cjk-unigram"]>>
    [] Script(run[1]) = "cjk" /\ Len(run) > 1 ->
         [i \in 1 .. Len(run) - 1 |-> [term |-> SubSeq(run, i, i + 1), class |-> "cjk-bigram"]]
    [] Script(run[1]) = "word" ->
         LET term == [i \in DOMAIN run |-> ToLower(run[i])] IN <<[term |-> term, class |-> admit(term)]>>
    [] run[1] = "broken" -> <<[term |-> <<>>, class |-> "drop-binary"]>>
    [] run[1] = " " -> <<>>

Tokens(runes) == FlattenSeq([k \in DOMAIN Runs(runes) |-> TokensOf(Runs(runes)[k])])

-----------------------------------------------------------------------------
InitText == text = <<>>
AddRune == \E r \in Rune : Len(text) < MaxText /\ text' = Append(text, r)

\* Text emits exactly the admitted tokens of the text's maximal runs, each at the
\* number of tokens before it, dropped ones included: a phrase keeps its gaps whatever
\* scripts, junk and separators stand in it.
TokensAreRuns ==
  LET t == Text(text)
      tokens == Tokens(text)
      kept == SelectSeq([i \in DOMAIN tokens |-> [term |-> tokens[i].term, pos |-> i - 1, class |-> tokens[i].class]],
                        LAMBDA token : AdmittedAs(token.class))
  IN /\ t.classes = [i \in DOMAIN tokens |-> tokens[i].class]
     /\ t.out = [i \in DOMAIN kept |-> [term |-> kept[i].term, pos |-> kept[i].pos]]
=============================================================================
