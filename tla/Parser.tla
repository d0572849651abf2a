------------------------------- MODULE Parser -------------------------------
(***************************************************************************)
(* parse_bytes and parse (parse/parser.rs): bytes are checked to be UTF-8, *)
(* cut into tokens, and made into a node table, one token at a time, with  *)
(* a stack of the lists that are still open.                               *)
(*                                                                         *)
(* The slab is new, so that the keys it gives out are 0, 1, 2, ...; the    *)
(* kind of an atom is an Atom.                                             *)
(***************************************************************************)
EXTENDS Nodes, Tokenizer, Atom

CONSTANTS Sources,     \* the inputs, as sequences of bytes
          MaxLen       \* bound on their length

(***************************************************************************)
(* A form takes at least one byte of the input, so that there are keys for *)
(* all of them.                                                            *)
(***************************************************************************)
ASSUME ParserAssumption ==
  /\ MaxLen \in Nat
  /\ Slots = 0 .. MaxLen
  /\ \A s \in Sources :
       /\ s \in Seq(0 .. 255) /\ Len(s) <= MaxLen
       /\ \A i, j \in 1 .. Len(s) : New(SubSeq(s, i, j)) \in Values

VARIABLES input,       \* the source
          remaining,   \* what the tokenizer has not consumed
          nodes,       \* the slab of nodes
          open,        \* open_lists
          top,         \* top_level
          outcome      \* "given", "parsing", "tree", "bare", or the error

parseVars == <<input, remaining, nodes, open, top, outcome>>

Errors == {"InvalidUtf8", "StrayClosingParenthesis",
           "UnclosedParenthesis", "MultipleTopLevelForms"}

Empty == [n \in Slots |-> Vacant]

(***************************************************************************)
(* std::str::from_utf8: every leading byte is followed by as many          *)
(* continuation bytes as it asks for, and none stands elsewhere.  After    *)
(* some leading bytes the second is restricted, which excludes overlong    *)
(* forms, surrogates and what lies above the last code point.  A str       *)
(* always has this form, so parse(str) is parse_bytes of its bytes.        *)
(***************************************************************************)
Continues(b) == b \in 128 .. 191

Width(b) == IF b < 128 THEN 1
            ELSE IF b \in 194 .. 223 THEN 2
            ELSE IF b \in 224 .. 239 THEN 3
            ELSE IF b \in 240 .. 244 THEN 4 ELSE 0

\* The bytes that may follow the leading byte b.
Second(b) == IF b = 224 THEN 160 .. 191
             ELSE IF b = 237 THEN 128 .. 159
             ELSE IF b = 240 THEN 144 .. 191
             ELSE IF b = 244 THEN 128 .. 143 ELSE 128 .. 191

IsUtf8(s) ==
  \A i \in 1 .. Len(s) :
    IF Continues(s[i])
      THEN \E j \in 1 .. i - 1 : i - j < Width(s[j]) /\ \A k \in j + 1 .. i : Continues(s[k])
      ELSE /\ Width(s[i]) > 0
           /\ i + Width(s[i]) - 1 <= Len(s)
           /\ \A k \in i + 1 .. i + Width(s[i]) - 1 : Continues(s[k])
           /\ Width(s[i]) > 1 => s[i + 1] \in Second(s[i])

ParseInit ==
  /\ input \in Sources
  /\ remaining = input
  /\ nodes = Empty
  /\ open = <<>>
  /\ top = <<>>
  /\ outcome = "given"

Decode ==
  /\ outcome = "given"
  /\ outcome' = IF IsUtf8(input) THEN "parsing" ELSE "InvalidUtf8"
  /\ UNCHANGED <<input, remaining, nodes, open, top>>

(***************************************************************************)
(* link_child: the fresh node c becomes the last child of p.               *)
(***************************************************************************)
\* Mistake: the former last child is not told of its new sibling.
LinkChildOneWay(N, p, c) ==
  LET l  == N[p].last
      N1 == [N EXCEPT ![c].parent = p]
      N2 == IF l # Null THEN [N1 EXCEPT ![c].prev = l] ELSE [N1 EXCEPT ![p].first = c]
  IN  [N2 EXCEPT ![p].last = c, ![p].count = @ + 1]

LinkChild(N, p, c) ==
  LET l  == N[p].last
      N1 == [N EXCEPT ![c].parent = p]
      N2 == IF l # Null THEN [N1 EXCEPT ![l].next = c, ![c].prev = l]
                        ELSE [N1 EXCEPT ![p].first = c]
  IN  [N2 EXCEPT ![p].last = c, ![p].count = @ + 1]

NextKey == Cardinality(Live(nodes))

Innermost == open[Len(open)]

(***************************************************************************)
(* A token opens a form of kind k: a new node, below the innermost open    *)
(* list or at the top.                                                     *)
(***************************************************************************)
AddForm(k) ==
  LET n == NextKey
      N == Allocate(nodes, n, k)
  IN  IF open = <<>>
        THEN nodes' = N /\ top' = Append(top, n)
        ELSE nodes' = LinkChild(N, Innermost, n) /\ UNCHANGED top

Advance(token) ==
  /\ outcome = "parsing"
  /\ NextToken(remaining).token = token
  /\ remaining' = NextToken(remaining).remaining
  /\ UNCHANGED input

OpenList ==
  /\ Advance("left")
  /\ AddForm(List)
  /\ open' = Append(open, NextKey)
  /\ UNCHANGED outcome

\* Mistake: an atom is not linked.
AddAtomLoose ==
  /\ Advance("atom")
  /\ nodes' = Allocate(nodes, NextKey, New(NextToken(remaining).text))
  /\ top' = IF open = <<>> THEN Append(top, NextKey) ELSE top
  /\ UNCHANGED <<open, outcome>>

AddAtom ==
  /\ Advance("atom")
  /\ AddForm(New(NextToken(remaining).text))
  /\ UNCHANGED <<open, outcome>>

CloseList ==
  /\ Advance("right")
  /\ IF open = <<>>
       THEN outcome' = "StrayClosingParenthesis" /\ UNCHANGED open
       ELSE open' = SubSeq(open, 1, Len(open) - 1) /\ UNCHANGED outcome
  /\ UNCHANGED <<nodes, top>>

\* Mistake: the forms are counted before the open lists are.
FinishCountsFirst ==
  /\ Advance("end")
  /\ outcome' = IF Len(top) > 1 THEN "MultipleTopLevelForms"
                ELSE IF open # <<>> THEN "UnclosedParenthesis"
                ELSE IF top = <<>> THEN "bare" ELSE "tree"
  /\ IF top = <<>>
       THEN nodes' = Allocate(Empty, 0, List) /\ top' = <<0>>
       ELSE UNCHANGED <<nodes, top>>
  /\ UNCHANGED open

\* Mistake: at the end of the input the next token is asked for again while a
\* list is open.
FinishWhenClosed ==
  /\ Advance("end")
  /\ open = <<>>
  /\ outcome' = IF Len(top) > 1 THEN "MultipleTopLevelForms"
                ELSE IF top = <<>> THEN "bare" ELSE "tree"
  /\ IF outcome' = "bare"
       THEN nodes' = Allocate(Empty, 0, List) /\ top' = <<0>>
       ELSE UNCHANGED <<nodes, top>>
  /\ UNCHANGED open

(***************************************************************************)
(* The end of the input.  The tree of an empty one is Tree::new_bare, with *)
(* a slab of its own.                                                      *)
(***************************************************************************)
Finish ==
  /\ Advance("end")
  /\ outcome' = IF open # <<>> THEN "UnclosedParenthesis"
                ELSE IF Len(top) > 1 THEN "MultipleTopLevelForms"
                ELSE IF top = <<>> THEN "bare" ELSE "tree"
  /\ IF outcome' = "bare"
       THEN nodes' = Allocate(Empty, 0, List) /\ top' = <<0>>
       ELSE UNCHANGED <<nodes, top>>
  /\ UNCHANGED open

ParseNext == Decode \/ OpenList \/ AddAtom \/ CloseList \/ Finish

ParseSpec == ParseInit /\ [][ParseNext]_parseVars
-----------------------------------------------------------------------------
ParseTypeOK ==
  /\ input \in Seq(0 .. 255)
  /\ Len(remaining) <= Len(input)
  /\ remaining = Skip(input, Len(input) - Len(remaining))
  /\ nodes \in Table
  /\ open \in Seq(Slots)
  /\ top \in Seq(Slots)
  /\ outcome \in {"given", "parsing", "tree", "bare"} \union Errors

(***************************************************************************)
(* The table is well-formed after every token, the partial ones of inputs  *)
(* that turn out wrong included: mutation.rs and the handles take over     *)
(* what the parser linked with code of its own.                            *)
(***************************************************************************)
ParserLinks == WellFormed(nodes)

(***************************************************************************)
(* A tree that is handed out has a root that lives and has no parent, and  *)
(* it is the only node without one: nothing is left unattached.            *)
(***************************************************************************)
OneRoot ==
  outcome \in {"tree", "bare"} =>
    Len(top) = 1 /\ {n \in Live(nodes) : nodes[n].parent = Null} = {top[1]}

(***************************************************************************)
(* Input is cut between characters only: slicing a str elsewhere would     *)
(* panic, and Atom::as_str takes the bytes of an atom for UTF-8 unchecked. *)
(***************************************************************************)
CutsWhole ==
  outcome \notin {"given", "InvalidUtf8"} =>
    /\ IsUtf8(remaining)
    /\ \A n \in Live(nodes) : nodes[n].kind # List => IsUtf8(AsStr(nodes[n].kind))
=============================================================================
