------------------------------ MODULE Tokenizer ------------------------------
(***************************************************************************)
(* Tokenizer::next (parse/tokenizer.rs): from the bytes that remain, the   *)
(* next token and the bytes that remain after it.                          *)
(***************************************************************************)
EXTENDS Integers, Sequences

LeftParen  == 40
RightParen == 41
Blanks     == {32, 9, 10, 13}

\* The table STOP: 1 for a bracket, 2 for whitespace, 0 for all else.
Stop(b) == IF b \in {LeftParen, RightParen} THEN 1 ELSE IF b \in Blanks THEN 2 ELSE 0

Skip(s, k) == SubSeq(s, k + 1, Len(s))

\* position(..).unwrap_or(len): how many bytes come before one of the classes.
Position(s, classes) ==
  LET hits == {i \in 1 .. Len(s) : Stop(s[i]) \in classes}
  IN  IF hits = {} THEN Len(s) ELSE (CHOOSE i \in hits : \A j \in hits : i <= j) - 1

Found(token, text, remaining) ==
  [token |-> token, text |-> text, remaining |-> remaining]

\* What is found at the first byte of rest: text and next are for an atom.
FoundAt(rest, text, next) ==
  IF rest = <<>> THEN Found("end", <<>>, <<>>)
  ELSE IF rest[1] = LeftParen THEN Found("left", <<>>, Tail(rest))
  ELSE IF rest[1] = RightParen THEN Found("right", <<>>, Tail(rest))
  ELSE Found("atom", text, next)

\* Mistake: an atom is cut after its first byte when a bracket follows.
NextTokenCuts(s) ==
  LET rest == Skip(s, Position(s, {0, 1}))
      end  == IF Position(rest, {1}) < Len(rest) THEN 1 ELSE Position(rest, {1, 2})
  IN  FoundAt(rest, SubSeq(rest, 1, end), Skip(rest, end))

\* Mistake: the two halves of the cut behind an atom are swapped.
NextTokenSwaps(s) ==
  LET rest == Skip(s, Position(s, {0, 1}))
      end  == Position(rest, {1, 2})
  IN  FoundAt(rest, Skip(rest, end), SubSeq(rest, 1, end))

NextToken(s) ==
  LET rest == Skip(s, Position(s, {0, 1}))
      end  == Position(rest, {1, 2})
  IN  FoundAt(rest, SubSeq(rest, 1, end), Skip(rest, end))
=============================================================================
