---------------------------- MODULE MCRoundTrip ----------------------------
(***************************************************************************)
(* The sources: all of up to MaxChars characters, which are two brackets,  *)
(* a blank, and two letters, one of them of two bytes; all of up to        *)
(* MaxBytes bytes, which need not be UTF-8; what lies on either side of    *)
(* the limits of UTF-8, in a list; and lists of two forms, up to three     *)
(* lists deep.                                                             *)
(***************************************************************************)
EXTENDS RoundTrip, SequencesExt

CONSTANTS MaxChars, MaxBytes

Characters == {<<40>>, <<41>>, <<32>>, <<97>>, <<195, 169>>}

UpTo(S, k) == UNION {[1 .. n -> S] : n \in 0 .. k}

Flat(s) == <<40>> \o FlattenSeq(s) \o <<41>>

Forms == {<<97>>, Flat(<<>>), Flat(<<<<97>>, <<32>>, <<195, 169>>>>),
          Flat(<<Flat(<<>>), <<97>>>>)}

\* The least and the greatest code points of each width, the neighbours of the
\* surrogates, and the bytes just outside of these.
Edges ==
  {<<127>>, <<193, 191>>, <<194, 128>>, <<223, 191>>,
   <<224, 159, 191>>, <<224, 160, 128>>, <<237, 159, 191>>, <<237, 160, 128>>,
   <<237, 191, 191>>, <<238, 128, 128>>, <<239, 191, 191>>,
   <<240, 143, 191, 191>>, <<240, 144, 128, 128>>,
   <<244, 143, 191, 191>>, <<244, 144, 128, 128>>, <<245, 128, 128, 128>>}

SomeSources ==
  {FlattenSeq(s) : s \in UpTo(Characters, MaxChars)}
    \union UpTo({40, 41, 32, 97, 195, 169}, MaxBytes)
    \union {Flat(<<e>>) : e \in Edges}
    \union {Flat(<<f, <<32>>, g>>) : f, g \in Forms}

SomeKeys == 0 .. MaxLen
=============================================================================
