------------------------------ MODULE RoundTrip ------------------------------
(***************************************************************************)
(* repr(parse(source)): a source is parsed and the tree it gives is        *)
(* written, as SExp.__repr__ does on a fresh tree.                         *)
(***************************************************************************)
EXTENDS Parser, FiniteSetsExt

VARIABLES stage,                \* "read", "write" or "written"
          stack, cursor, out    \* of the serializer

tripVars == <<parseVars, stage, stack, cursor, out>>

Ser == INSTANCE Serializer

TripInit == ParseInit /\ stage = "read" /\ stack = <<>> /\ cursor = Null /\ out = <<>>

Read == stage = "read" /\ ParseNext /\ UNCHANGED <<stage, stack, cursor, out>>

BeginWrite ==
  /\ stage = "read" /\ outcome = "tree"
  /\ Ser!Begin(top[1])
  /\ stage' = "write"
  /\ UNCHANGED parseVars

\* The tree of an empty source is written as nothing at all.
WriteBare ==
  /\ stage = "read" /\ outcome = "bare"
  /\ stage' = "written"
  /\ UNCHANGED <<parseVars, stack, cursor, out>>

Write == stage = "write" /\ Ser!WriteStep /\ UNCHANGED <<parseVars, stage>>

EndWrite ==
  /\ stage = "write" /\ Ser!Done
  /\ stage' = "written"
  /\ UNCHANGED <<parseVars, stack, cursor, out>>

TripNext == Read \/ BeginWrite \/ WriteBare \/ Write \/ EndWrite

(***************************************************************************)
(* The thread that parses holds the GIL and waits for nobody: it goes on   *)
(* as long as there is a step to take.                                     *)
(***************************************************************************)
TripSpec == TripInit /\ [][TripNext]_tripVars /\ WF_tripVars(TripNext)
-----------------------------------------------------------------------------
(***************************************************************************)
(* What a source s means, by counting brackets.  Depth(s, i) is the number *)
(* of lists open before byte i.                                            *)
(***************************************************************************)
Count(s, b, i) == Cardinality({j \in 1 .. i : s[j] = b})

Depth(s, i) == Count(s, LeftParen, i - 1) - Count(s, RightParen, i - 1)

InAtom(s, i) == Stop(s[i]) = 0

\* The bytes at which a form begins, and those of a right bracket.
FormStarts(s) ==
  {i \in 1 .. Len(s) : \/ s[i] = LeftParen
                       \/ InAtom(s, i) /\ (i > 1 => ~ InAtom(s, i - 1))}

TokenStarts(s) == FormStarts(s) \union {i \in 1 .. Len(s) : s[i] = RightParen}

(***************************************************************************)
(* UTF-8 by what it encodes, and not by ranges of bytes: a leading byte b  *)
(* announces Announced(b) bytes, the code point is put together from their *)
(* payloads, and it is a Unicode scalar value that needs that many bytes.  *)
(***************************************************************************)
Announced(b) == IF b < 128 THEN 1
                ELSE IF b < 192 THEN 0
                ELSE IF b < 224 THEN 2
                ELSE IF b < 240 THEN 3
                ELSE IF b < 248 THEN 4 ELSE 0

Carries(b) == 128 <= b /\ b < 192

\* The code point of the w bytes that begin at i.
CodePoint(s, i, w) ==
  IF w = 1 THEN s[i]
  ELSE IF w = 2 THEN (s[i] - 192) * 64 + (s[i + 1] - 128)
  ELSE IF w = 3 THEN (s[i] - 224) * 4096 + (s[i + 1] - 128) * 64 + (s[i + 2] - 128)
  ELSE (s[i] - 240) * 262144 + (s[i + 1] - 128) * 4096
         + (s[i + 2] - 128) * 64 + (s[i + 3] - 128)

\* c is a scalar value, no surrogate, and takes w bytes, no fewer.
Takes(c, w) ==
  IF w = 1 THEN 0 <= c /\ c < 128
  ELSE IF w = 2 THEN 128 <= c /\ c < 2048
  ELSE IF w = 3 THEN (2048 <= c /\ c < 55296) \/ (57344 <= c /\ c < 65536)
  ELSE 65536 <= c /\ c <= 1114111

CharAt(s, i) ==
  LET w == Announced(s[i])
  IN  /\ w > 0
      /\ i + w - 1 <= Len(s)
      /\ \A k \in i + 1 .. i + w - 1 : Carries(s[k])
      /\ Takes(CodePoint(s, i, w), w)

\* Each byte belongs to a character.
IsText(s) ==
  \A i \in 1 .. Len(s) :
    \E j \in 1 .. i : i < j + Announced(s[j]) /\ CharAt(s, j)

Meaning ==
  IF ~ IsText(input) THEN "InvalidUtf8"
  ELSE IF \E i \in DOMAIN input : Depth(input, i + 1) < 0 THEN "StrayClosingParenthesis"
  ELSE IF Depth(input, Len(input) + 1) > 0 THEN "UnclosedParenthesis"
  ELSE LET forms == {i \in FormStarts(input) : Depth(input, i) = 0}
       IN  CASE Cardinality(forms) = 0 -> "bare"
             [] Cardinality(forms) = 1 -> "tree"
             [] OTHER -> "MultipleTopLevelForms"

AtomAt(s, i) ==
  LET ends == {j \in i .. Len(s) : \A k \in i .. j : InAtom(s, k)}
  IN  SubSeq(s, i, i + Cardinality(ends) - 1)

Symbol(s, i) == IF InAtom(s, i) THEN Ser!Word(AtomAt(s, i))
                ELSE Ser!Mark(IF s[i] = LeftParen THEN "(" ELSE ")")

(***************************************************************************)
(* The canonical form of a source: its tokens with one space between any   *)
(* two, but none after a left bracket and none before a right one.         *)
(***************************************************************************)
Spaced(s, i) ==
  LET before == {j \in TokenStarts(s) : j < i}
  IN  before # {} /\ s[Max(before)] # LeftParen /\ s[i] # RightParen

CanonicalTo(s) ==
  LET c[i \in 0 .. Len(s)] ==
        IF i = 0 THEN <<>>
        ELSE c[i - 1] \o (IF i \notin TokenStarts(s) THEN <<>>
                          ELSE IF Spaced(s, i) THEN <<Ser!Mark(" "), Symbol(s, i)>>
                          ELSE <<Symbol(s, i)>>)
  IN  c

Canonical == CanonicalTo(input)[Len(input)]

(***************************************************************************)
(* Each source gets the outcome it means: bytes are refused exactly when   *)
(* they encode no text; when a text is wrong in several ways a stray       *)
(* bracket counts before an open list, and both before a second form; a    *)
(* tree comes out when there is exactly one form.                          *)
(***************************************************************************)
OutcomeMeant == outcome \notin {"given", "parsing"} => outcome = Meaning

\* What is written of an atom is its as_str.
Spelled ==
  [k \in DOMAIN out |-> IF "word" \in DOMAIN out[k] THEN Ser!Word(AsStr(out[k].word))
                                                    ELSE out[k]]

(***************************************************************************)
(* Writing what was read gives the canonical form of the source: no form   *)
(* is lost, none changes its place, and atoms keep every byte whether they *)
(* fit the buffer of Atom or not.                                          *)
(***************************************************************************)
SourceRestored == stage = "written" => Spelled = Canonical

(***************************************************************************)
(* Reading and writing end, for every source.                              *)
(***************************************************************************)
TripEnds == <>(stage = "written" \/ outcome \in Errors)
=============================================================================
