-------------------------- MODULE ExprParser_proofs --------------------------
(***************************************************************************)
(* The expression parser stays within its tokens and its nodes, for every  *)
(* set of inputs: no call reads on behind the token that ends the          *)
(* expression, and the index of parse_expand, which is taken back after    *)
(* every node that has found its operator, is always that of a node or the *)
(* one behind the last.  And a NULL is read as a node only where brackets  *)
(* are empty.                                                              *)
(***************************************************************************)
EXTENDS ExprParser, SequenceTheorems, TLAPS

-----------------------------------------------------------------------------
(* Sequences of whatever: a node holds nodes, so there is no set of them.  *)

Listed(s) == s \in Seq(Range(s))

LEMMA ListedIn ==
  ASSUME NEW S, NEW s \in Seq(S)
  PROVE  Listed(s) /\ Len(s) \in Nat
<1>1. Len(s) \in Nat /\ DOMAIN s = 1 .. Len(s) /\ s = [j \in 1 .. Len(s) |-> s[j]]
  BY LenProperties
<1>2. \A j \in 1 .. Len(s) : s[j] \in Range(s)
  BY <1>1 DEF Range
<1>3. s \in [1 .. Len(s) -> Range(s)]
  BY <1>1, <1>2
<1> QED
  BY <1>1, <1>3, SeqDef DEF Listed

LEMMA ListedFacts ==
  ASSUME NEW s, Listed(s)
  PROVE  /\ Len(s) \in Nat /\ DOMAIN s = 1 .. Len(s)
         /\ s # <<>> => Len(s) > 0
<1>1. s \in Seq(Range(s))
  BY DEF Listed
<1> QED
  BY <1>1, LenProperties, EmptySeq

LEMMA ListedAppend ==
  ASSUME NEW s, Listed(s), NEW e
  PROVE  /\ Listed(Append(s, e)) /\ Len(Append(s, e)) = Len(s) + 1
         /\ Append(s, e)[Len(s) + 1] = e
         /\ \A j \in 1 .. Len(s) : Append(s, e)[j] = s[j]
<1> DEFINE S == Range(s) \cup {e}
<1>1. s \in Seq(Range(s)) /\ Len(s) \in Nat /\ \A j \in 1 .. Len(s) : s[j] \in Range(s)
  BY LenProperties, ElementOfSeq DEF Listed
<1>2. s \in Seq(S)
  BY <1>1, SeqDef, LenProperties
<1> HIDE DEF S
<1>3. e \in S
  BY DEF S
<1>4. /\ Append(s, e) \in Seq(S) /\ Len(Append(s, e)) = Len(s) + 1
      /\ Append(s, e)[Len(s) + 1] = e
      /\ \A j \in 1 .. Len(s) : Append(s, e)[j] = s[j]
  BY <1>2, <1>3, AppendProperties
<1> QED
  BY <1>4, ListedIn

Put(s, j, e) == [s EXCEPT ![j] = e]

LEMMA ListedExcept ==
  ASSUME NEW s, Listed(s), NEW j, NEW e
  PROVE  /\ Listed(Put(s, j, e)) /\ Len(Put(s, j, e)) = Len(s)
         /\ \A m \in 1 .. Len(s) : Put(s, j, e)[m] = IF m = j THEN e ELSE s[m]
<1> DEFINE t == Put(s, j, e)
<1>1. s \in Seq(Range(s)) /\ Len(s) \in Nat /\ DOMAIN s = 1 .. Len(s)
      /\ s = [m \in 1 .. Len(s) |-> s[m]]
  BY LenProperties DEF Listed
<1>2. t = [m \in 1 .. Len(s) |-> IF m = j THEN e ELSE s[m]]
  BY <1>1 DEF Put
<1>3. \A m \in 1 .. Len(s) : t[m] = IF m = j THEN e ELSE s[m]
  BY <1>2
<1>4. DOMAIN t = 1 .. Len(s) /\ t = [m \in 1 .. Len(s) |-> t[m]]
  BY <1>2
<1> HIDE DEF t
<1>5. \A m \in 1 .. Len(s) : t[m] \in Range(t)
  BY <1>4 DEF Range
<1>6. t \in [1 .. Len(s) -> Range(t)]
  BY <1>4, <1>5
<1>7. t \in Seq(Range(t))
  BY <1>1, <1>6, SeqDef
<1>8. Len(t) = Len(s)
  BY <1>1, <1>4, <1>7, LenProperties
<1> QED
  BY <1>3, <1>7, <1>8 DEF t, Listed

LEMMA ListedSubSeq ==
  ASSUME NEW s, Listed(s), NEW m \in Int, NEW n \in Int, 1 <= m, m <= n + 1, n <= Len(s)
  PROVE  /\ Listed(SubSeq(s, m, n)) /\ Len(SubSeq(s, m, n)) = n - m + 1
         /\ \A j \in 1 .. n - m + 1 : SubSeq(s, m, n)[j] = s[m + j - 1]
<1>1. s \in Seq(Range(s)) /\ Len(s) \in Nat /\ \A j \in 1 .. Len(s) : s[j] \in Range(s)
  BY LenProperties, ElementOfSeq DEF Listed
<1>2. \A j \in m .. n : s[j] \in Range(s)
  BY <1>1
<1>3. /\ SubSeq(s, m, n) \in Seq(Range(s))
      /\ Len(SubSeq(s, m, n)) = IF m <= n THEN n - m + 1 ELSE 0
      /\ \A j \in 1 .. n - m + 1 : SubSeq(s, m, n)[j] = s[m + j - 1]
  BY <1>1, <1>2, SubSeqProperties
<1>4. Listed(SubSeq(s, m, n))
  BY <1>3, ListedIn, Zenon
<1>5. (IF m <= n THEN n - m + 1 ELSE 0) = n - m + 1
  OBVIOUS
<1> QED
  BY <1>3, <1>4, <1>5, Zenon

(* A node is taken out of a list. *)
LEMMA ListedRemove ==
  ASSUME NEW s, Listed(s), NEW n \in 1 .. Len(s)
  PROVE  Listed(RemoveAt(s, n)) /\ Len(RemoveAt(s, n)) = Len(s) - 1
<1> DEFINE a == SubSeq(s, 1, n - 1)
           b == SubSeq(s, n + 1, Len(s))
<1>1. Len(s) \in Nat
  BY ListedFacts
<1>2. Listed(a) /\ Len(a) = n - 1
  BY <1>1, ListedSubSeq
<1>3. Listed(b) /\ Len(b) = Len(s) - n
  BY <1>1, ListedSubSeq
<1>4. RemoveAt(s, n) = a \o b
  BY DEF RemoveAt
<1> HIDE DEF a, b
<1> DEFINE S == Range(a) \cup Range(b)
<1>5. a \in Seq(Range(a)) /\ b \in Seq(Range(b))
  BY <1>2, <1>3 DEF Listed
<1>6. a \in Seq(S) /\ b \in Seq(S)
  <2>1. \A j \in 1 .. Len(a) : a[j] \in S
    BY <1>5, ElementOfSeq
  <2>2. \A j \in 1 .. Len(b) : b[j] \in S
    BY <1>5, ElementOfSeq
  <2> QED
    BY <1>5, <2>1, <2>2, SeqDef, LenProperties
<1> HIDE DEF S
<1>7. a \o b \in Seq(S) /\ Len(a \o b) = Len(a) + Len(b)
  BY <1>6, ConcatProperties
<1>8. Listed(a \o b)
  BY <1>7, ListedIn, Zenon
<1>9. Len(a \o b) = Len(s) - 1
  BY <1>1, <1>2, <1>3, <1>7
<1> QED
  BY <1>4, <1>8, <1>9, Zenon

-----------------------------------------------------------------------------
(* The inductive invariant.                                                *)

\* A call is a record, its nodes a list, and its index within them.
Shape(c) == /\ c = [kind |-> c.kind, at |-> c.at, nodes |-> c.nodes, i |-> c.i, before |-> c.before]
            /\ c.kind \in Kinds /\ Listed(c.nodes)
            /\ c.i \in 0 .. Len(c.nodes) + 1
            /\ c.kind \in Sequences => c.i = 0

\* The tokens end where the expression must.
Ended  == toks \in Seq(Token) /\ pos \in 1 .. Len(toks) /\ toks[Len(toks)] = ";"

\* Only the innermost call may be in parse_expand, and that has read up to a token
\* that ends its kind of expression, which the caller will skip.
Waiting  == \A n \in 1 .. Len(calls) - 1 : calls[n].i = 0
ReadUpTo == Top.i > 0 => Peek \in Stop(Top.kind)

PInv == /\ Ended /\ outcome \in {"run", "done", "error", "fault"}
        /\ Listed(calls) /\ calls # <<>>
        /\ \A n \in 1 .. Len(calls) : Shape(calls[n])
        /\ Waiting /\ ReadUpTo

LEMMA Facts ==
  ASSUME PInv
  PROVE  /\ Len(calls) \in Nat /\ Len(calls) > 0 /\ Top = calls[Len(calls)] /\ Shape(Top)
         /\ Len(toks) \in Nat /\ DOMAIN toks = 1 .. Len(toks) /\ pos \in Nat
         /\ Len(Nodes) \in Nat /\ DOMAIN Nodes = 1 .. Len(Nodes)
         /\ Listed(Nodes) /\ Top.kind \in Kinds /\ Top.i \in Nat
<1>1. Len(calls) \in Nat /\ Len(calls) > 0 /\ Top = calls[Len(calls)]
  BY ListedFacts DEF PInv, Top, Last
<1>2. Shape(Top)
  BY <1>1 DEF PInv
<1>3. Len(toks) \in Nat /\ DOMAIN toks = 1 .. Len(toks) /\ pos \in Nat
  <2>1. toks \in Seq(Token) /\ pos \in 1 .. Len(toks)
    BY DEF PInv, Ended
  <2>2. Len(toks) \in Nat /\ DOMAIN toks = 1 .. Len(toks)
    BY <2>1, LenProperties, Zenon
  <2> QED
    BY <2>1, <2>2
<1>4. Listed(Nodes) /\ Top.kind \in Kinds
  BY <1>2 DEF Shape, Nodes
<1>5. Len(Nodes) \in Nat /\ DOMAIN Nodes = 1 .. Len(Nodes)
  BY <1>4, ListedFacts
<1>6. Top.i \in Nat
  BY <1>2, <1>5 DEF Shape, Nodes
<1> QED
  BY <1>1, <1>2, <1>3, <1>4, <1>5, <1>6

(* What becomes of a call *)
LEMMA NewShape ==
  ASSUME NEW kind \in Kinds, NEW at
  PROVE  Shape(Call(kind, at)) /\ Call(kind, at).i = 0 /\ Call(kind, at).kind = kind
<1> DEFINE c == Call(kind, at)
<1>1. /\ c = [kind |-> c.kind, at |-> c.at, nodes |-> c.nodes, i |-> c.i, before |-> c.before]
      /\ c.kind = kind /\ c.i = 0 /\ c.nodes = <<>>
  BY DEF Call
<1> HIDE DEF c
<1>2. Listed(c.nodes) /\ Len(c.nodes) = 0
  <2>1. <<>> \in Seq({}) /\ Len(<<>>) = 0
    OBVIOUS
  <2> QED
    BY <1>1, <2>1, ListedIn
<1>3. Shape(c)
  BY <1>1, <1>2 DEF Shape
<1> QED
  BY <1>1, <1>3 DEF c

LEMMA WithShape ==
  ASSUME NEW c, Shape(c), NEW n
  PROVE  Shape(With(c, n)) /\ With(c, n).i = c.i /\ With(c, n).kind = c.kind
<1> DEFINE d == With(c, n)
<1>1. c = [kind |-> c.kind, at |-> c.at, nodes |-> c.nodes, i |-> c.i, before |-> c.before]
  BY DEF Shape
<1>2. /\ d = [kind |-> d.kind, at |-> d.at, nodes |-> d.nodes, i |-> d.i, before |-> d.before]
      /\ d.kind = c.kind /\ d.i = c.i /\ d.nodes = Append(c.nodes, n)
  BY <1>1 DEF With
<1> HIDE DEF d
<1>3. /\ c.kind \in Kinds /\ Listed(c.nodes) /\ c.i \in 0 .. Len(c.nodes) + 1
      /\ c.kind \in Sequences => c.i = 0
  BY DEF Shape
<1>4. Listed(d.nodes) /\ Len(d.nodes) = Len(c.nodes) + 1 /\ Len(c.nodes) \in Nat
  BY <1>2, <1>3, ListedAppend, ListedFacts
<1>5. d.i \in 0 .. Len(d.nodes) + 1
  BY <1>2, <1>3, <1>4
<1>6. Shape(d)
  BY <1>2, <1>3, <1>4, <1>5 DEF Shape
<1> QED
  BY <1>2, <1>6 DEF d

LEMMA BeforeShape ==
  ASSUME NEW c, Shape(c), NEW b
  PROVE  /\ Shape([c EXCEPT !.before = b]) /\ [c EXCEPT !.before = b].kind = c.kind
         /\ [c EXCEPT !.before = b].i = c.i
<1>1. c = [kind |-> c.kind, at |-> c.at, nodes |-> c.nodes, i |-> c.i, before |-> c.before]
  BY DEF Shape
<1>2. [c EXCEPT !.before = b] = [kind |-> c.kind, at |-> c.at, nodes |-> c.nodes, i |-> c.i, before |-> b]
  BY <1>1
<1>3. ASSUME NEW d, d = [kind |-> c.kind, at |-> c.at, nodes |-> c.nodes, i |-> c.i, before |-> b]
      PROVE  Shape(d) /\ d.kind = c.kind /\ d.i = c.i
  BY <1>3 DEF Shape
<1> QED
  BY <1>2, <1>3

LEMMA IndexShape ==
  ASSUME NEW c, Shape(c), c.kind \notin Sequences, NEW i \in 0 .. Len(c.nodes) + 1
  PROVE  Shape([c EXCEPT !.i = i]) /\ [c EXCEPT !.i = i].kind = c.kind
<1>1. c = [kind |-> c.kind, at |-> c.at, nodes |-> c.nodes, i |-> c.i, before |-> c.before]
  BY DEF Shape
<1>2. [c EXCEPT !.i = i] = [kind |-> c.kind, at |-> c.at, nodes |-> c.nodes, i |-> i, before |-> c.before]
  BY <1>1
<1>3. ASSUME NEW d, d = [kind |-> c.kind, at |-> c.at, nodes |-> c.nodes, i |-> i, before |-> c.before]
      PROVE  Shape(d) /\ d.kind = c.kind
  BY <1>3 DEF Shape
<1> QED
  BY <1>2, <1>3

(* A pass over the nodes begins. *)
LEMMA PassShape ==
  ASSUME NEW c, Shape(c), c.kind \notin Sequences, NEW b
  PROVE  Shape([c EXCEPT !.i = 1, !.before = b]) /\ [c EXCEPT !.i = 1, !.before = b].kind = c.kind
<1> DEFINE d == [c EXCEPT !.i = 1]
<1>1. c = [kind |-> c.kind, at |-> c.at, nodes |-> c.nodes, i |-> c.i, before |-> c.before]
      /\ Len(c.nodes) \in Nat
  BY ListedFacts DEF Shape
<1>2. [c EXCEPT !.i = 1, !.before = b] = [d EXCEPT !.before = b]
  BY <1>1
<1>3. Shape(d) /\ d.kind = c.kind
  <2>1. 1 \in 0 .. Len(c.nodes) + 1
    BY <1>1
  <2> QED
    BY <2>1, IndexShape, Zenon
<1> HIDE DEF d
<1>4. Shape([d EXCEPT !.before = b]) /\ [d EXCEPT !.before = b].kind = c.kind
  BY <1>3, BeforeShape
<1> QED
  BY <1>2, <1>4

LEMMA NodesShape ==
  ASSUME NEW c, Shape(c), NEW s, Listed(s), c.i \in 0 .. Len(s) + 1
  PROVE  /\ Shape([c EXCEPT !.nodes = s]) /\ [c EXCEPT !.nodes = s].kind = c.kind
         /\ [c EXCEPT !.nodes = s].i = c.i
<1>1. c = [kind |-> c.kind, at |-> c.at, nodes |-> c.nodes, i |-> c.i, before |-> c.before]
  BY DEF Shape
<1>2. [c EXCEPT !.nodes = s] = [kind |-> c.kind, at |-> c.at, nodes |-> s, i |-> c.i, before |-> c.before]
  BY <1>1
<1>3. ASSUME NEW d, d = [kind |-> c.kind, at |-> c.at, nodes |-> s, i |-> c.i, before |-> c.before]
      PROVE  Shape(d) /\ d.kind = c.kind /\ d.i = c.i
  BY <1>3 DEF Shape
<1> QED
  BY <1>2, <1>3

-----------------------------------------------------------------------------
(* What each kind of step has to show.                                     *)

(* The calls after the innermost has changed *)
LEMMA TopSet ==
  ASSUME PInv, NEW c, Shape(c)
  PROVE  /\ Listed(SetTop(c)) /\ Len(SetTop(c)) = Len(calls) /\ SetTop(c)[Len(calls)] = c
         /\ \A n \in 1 .. Len(calls) - 1 : SetTop(c)[n] = calls[n]
         /\ \A n \in 1 .. Len(calls) : Shape(SetTop(c)[n])
<1>1. Listed(calls) /\ Len(calls) \in Nat /\ Len(calls) > 0
  BY Facts DEF PInv
<1>2. /\ Listed(Put(calls, Len(calls), c)) /\ Len(Put(calls, Len(calls), c)) = Len(calls)
      /\ \A m \in 1 .. Len(calls) :
           Put(calls, Len(calls), c)[m] = IF m = Len(calls) THEN c ELSE calls[m]
  BY <1>1, ListedExcept
<1>3. \A n \in 1 .. Len(calls) - 1 : n \in 1 .. Len(calls) /\ n # Len(calls)
  BY <1>1
<1>4. Len(calls) \in 1 .. Len(calls)
  BY <1>1
<1>5. SetTop(c) = Put(calls, Len(calls), c)
  BY DEF SetTop, Put
<1> DEFINE s == SetTop(c)
<1>6. /\ Listed(s) /\ Len(s) = Len(calls)
      /\ \A m \in 1 .. Len(calls) : s[m] = IF m = Len(calls) THEN c ELSE calls[m]
  BY <1>2, <1>5, Zenon
<1>7. \A m \in 1 .. Len(calls) : Shape(calls[m])
  BY DEF PInv
<1> HIDE DEF s
<1>8. /\ Listed(s) /\ Len(s) = Len(calls) /\ s[Len(calls)] = c
      /\ \A n \in 1 .. Len(calls) - 1 : s[n] = calls[n]
      /\ \A n \in 1 .. Len(calls) : Shape(s[n])
  BY <1>3, <1>4, <1>6, <1>7, Zenon
<1> QED
  BY <1>8, Zenon DEF s

LEMMA EndP ==
  ASSUME PInv, NEW how \in {"done", "error", "fault"}, Ends(how)
  PROVE  PInv'
  BY DEF Ends, PInv, Ended, Waiting, ReadUpTo, Top, Peek, At

(* The innermost call goes on. *)
LEMMA GoP ==
  ASSUME PInv, NEW c, Shape(c), calls' = SetTop(c), toks' = toks, outcome' = outcome,
         pos' \in 1 .. Len(toks), c.i > 0 => Peek' \in Stop(c.kind)
  PROVE  PInv'
<1>1. /\ Listed(calls') /\ Len(calls') = Len(calls) /\ calls'[Len(calls)] = c
      /\ \A n \in 1 .. Len(calls) - 1 : calls'[n] = calls[n]
      /\ \A n \in 1 .. Len(calls) : Shape(calls'[n])
  BY TopSet
<1>2. Ended' /\ Waiting'
  BY <1>1 DEF PInv, Ended, Waiting
<1>3. Top' = c
  BY <1>1 DEF Top, Last
<1>4. calls' # <<>>
  BY <1>1, Facts
<1> QED
  BY <1>1, <1>2, <1>3, <1>4 DEF PInv, ReadUpTo

(* A call begins, above d in place of the innermost. *)
LEMMA BeginP ==
  ASSUME PInv, NEW d, Shape(d), d.i = 0, NEW kind \in Kinds, NEW at,
         calls' = Append(SetTop(d), Call(kind, at)), toks' = toks, outcome' = outcome,
         pos' \in 1 .. Len(toks)
  PROVE  PInv'
<1> DEFINE s == SetTop(d)
           c == Call(kind, at)
<1>1. /\ Listed(s) /\ Len(s) = Len(calls) /\ s[Len(calls)] = d
      /\ \A n \in 1 .. Len(calls) - 1 : s[n] = calls[n]
      /\ \A n \in 1 .. Len(calls) : Shape(s[n])
  BY TopSet
<1>2. Shape(c) /\ c.i = 0
  BY NewShape
<1>3. calls' = Append(s, c)
  OBVIOUS
<1> HIDE DEF s, c
<1>4. /\ Listed(calls') /\ Len(calls') = Len(calls) + 1 /\ calls'[Len(calls) + 1] = c
      /\ \A n \in 1 .. Len(calls) : calls'[n] = s[n]
  BY <1>1, <1>3, ListedAppend
<1>5. Len(calls) \in Nat /\ Len(calls) > 0
  BY Facts
<1>6. \A n \in 1 .. Len(calls') : n \in 1 .. Len(calls) \/ n = Len(calls) + 1
  BY <1>4, <1>5
<1>7. \A n \in 1 .. Len(calls') : Shape(calls'[n])
  BY <1>1, <1>2, <1>4, <1>6
<1>8. Waiting'
  <2>1. \A n \in 1 .. Len(calls') - 1 : n \in 1 .. Len(calls) - 1 \/ n = Len(calls)
    BY <1>4, <1>5
  <2>2. \A n \in 1 .. Len(calls) - 1 : n \in 1 .. Len(calls)
    BY <1>5
  <2>3. Len(calls) \in 1 .. Len(calls)
    BY <1>5
  <2> QED
    BY <1>1, <1>4, <2>1, <2>2, <2>3 DEF Waiting, PInv
<1>9. ReadUpTo'
  BY <1>2, <1>4 DEF ReadUpTo, Top, Last
<1>10. calls' # <<>>
  BY <1>4, <1>5
<1> QED
  BY <1>4, <1>7, <1>8, <1>9, <1>10 DEF PInv, Ended

(* The same with the innermost as it is *)
LEMMA SameTop ==
  ASSUME PInv
  PROVE  SetTop(Top) = calls
<1>1. Listed(calls) /\ Len(calls) \in Nat /\ Len(calls) > 0 /\ Top = calls[Len(calls)]
  BY Facts DEF PInv
<1>2. calls = [m \in 1 .. Len(calls) |-> calls[m]]
  BY <1>1, LenProperties DEF Listed
<1> QED
  BY <1>1, <1>2 DEF SetTop

(* What the innermost call leaves. *)
LEMMA BelowTop ==
  ASSUME PInv
  PROVE  /\ Listed(Front(calls)) /\ Len(Front(calls)) = Len(calls) - 1
         /\ \A m \in 1 .. Len(calls) - 1 : Front(calls)[m] = calls[m]
<1>1. Len(calls) \in Nat /\ Len(calls) > 0 /\ Listed(calls)
  BY Facts DEF PInv
<1> DEFINE k == Len(calls) - 1
<1>2. k \in Int /\ 1 \in Int /\ 1 <= 1 /\ 1 <= k + 1 /\ k <= Len(calls)
  BY <1>1
<1>3. Front(calls) = SubSeq(calls, 1, k)
  BY DEF Front
<1>4. k - 1 + 1 = k /\ \A m \in 1 .. k : 1 + m - 1 = m
  BY <1>1
<1> HIDE DEF k
<1>5. /\ Listed(SubSeq(calls, 1, k)) /\ Len(SubSeq(calls, 1, k)) = k - 1 + 1
      /\ \A m \in 1 .. k - 1 + 1 : SubSeq(calls, 1, k)[m] = calls[1 + m - 1]
  BY <1>1, <1>2, ListedSubSeq, ZenonT(40)
<1>6. /\ Listed(Front(calls)) /\ Len(Front(calls)) = k
      /\ \A m \in 1 .. k : Front(calls)[m] = calls[m]
  BY <1>3, <1>4, <1>5
<1> QED
  BY <1>6 DEF k

(* Where there is no semicolon, the tokens go on. *)
LEMMA MoreTokens ==
  ASSUME PInv
  PROVE  /\ pos \in 1 .. Len(toks) /\ Peek = toks[pos]
         /\ Peek # ";" => pos + 1 \in 1 .. Len(toks) /\ Peek2 = toks[pos + 1]
         /\ Peek # ";" /\ Peek2 # ";" => pos + 2 \in 1 .. Len(toks)
<1>1. /\ Len(toks) \in Nat /\ DOMAIN toks = 1 .. Len(toks) /\ pos \in 1 .. Len(toks)
      /\ toks[Len(toks)] = ";"
  BY Facts DEF PInv, Ended
<1>0. Len(toks) \in Nat /\ pos \in 1 .. Len(toks)
  BY <1>1
<1>2. Peek = toks[pos]
  BY <1>1 DEF Peek, At
<1>3. Peek # ";" => pos # Len(toks)
  BY <1>1, <1>2, Zenon
<1>4. Peek # ";" => pos + 1 \in 1 .. Len(toks)
  <2>1. pos # Len(toks) => pos + 1 \in 1 .. Len(toks)
    BY <1>0
  <2> QED
    BY <1>3, <2>1, Zenon
<1>5. Peek # ";" => Peek2 = toks[pos + 1]
  BY <1>1, <1>4 DEF Peek2, At
<1>6. Peek # ";" /\ Peek2 # ";" => pos + 1 # Len(toks)
  BY <1>1, <1>5
<1>7. Peek # ";" /\ Peek2 # ";" => pos + 2 \in 1 .. Len(toks)
  <2>1. pos + 1 \in 1 .. Len(toks) /\ pos + 1 # Len(toks) => pos + 2 \in 1 .. Len(toks)
    BY <1>0
  <2> QED
    BY <1>4, <1>6, <2>1, Zenon
<1> QED
  BY <1>1, <1>2, <1>4, <1>5, <1>7

(* The caller of the innermost call takes n and goes on. *)
LEMMA TakeP ==
  ASSUME PInv, Front(calls) # <<>>, NEW n, toks' = toks, outcome' = outcome,
         calls' = [Front(calls) EXCEPT ![Len(Front(calls))] = With(Last(Front(calls)), n)],
         pos' \in 1 .. Len(toks)
  PROVE  PInv'
<1> DEFINE below == Front(calls)
           caller == Last(below)
           k == Len(below)
           c == With(caller, n)
<1>1. /\ Listed(below) /\ k = Len(calls) - 1
      /\ \A m \in 1 .. Len(calls) - 1 : below[m] = calls[m]
  BY BelowTop
<1>2. Len(calls) \in Nat /\ \A m \in 1 .. Len(calls) : Shape(calls[m])
  BY Facts DEF PInv
<1>3. below # <<>> /\ calls' = Put(below, k, c) /\ caller = below[k]
  BY DEF Last, Put
<1> HIDE DEF below, caller
<1>4. k \in Nat /\ k > 0
  BY <1>1, <1>3, ListedFacts
<1>5. k \in 1 .. k /\ \A m \in 1 .. k : m \in 1 .. Len(calls) - 1 /\ m \in 1 .. Len(calls)
  BY <1>1, <1>2, <1>4
<1>6. \A m \in 1 .. k : Shape(below[m]) /\ below[m].i = 0
  BY <1>1, <1>2, <1>5 DEF PInv, Waiting
<1>7. Shape(caller) /\ caller.i = 0
  BY <1>3, <1>5, <1>6
<1>8. Shape(c) /\ c.i = 0
  BY <1>7, WithShape
<1> HIDE DEF c
<1>9. /\ Listed(Put(below, k, c)) /\ Len(Put(below, k, c)) = k
      /\ \A m \in 1 .. k : Put(below, k, c)[m] = IF m = k THEN c ELSE below[m]
  BY <1>1, ListedExcept DEF k
<1> HIDE DEF k
<1>10. /\ Listed(calls') /\ Len(calls') = k
       /\ \A m \in 1 .. k : calls'[m] = IF m = k THEN c ELSE below[m]
  BY <1>3, <1>9, Zenon
<1>11. \A m \in 1 .. k : Shape(calls'[m]) /\ calls'[m].i = 0
  BY <1>6, <1>8, <1>10, ZenonT(40)
<1>12. \A m \in 1 .. k - 1 : m \in 1 .. k
  BY <1>4
<1>13. Waiting'
  BY <1>10, <1>11, <1>12 DEF Waiting
<1>14. Top' = calls'[k]
  BY <1>10 DEF Top, Last
<1>15. ReadUpTo'
  BY <1>5, <1>11, <1>14 DEF ReadUpTo
<1>16. calls' # <<>>
  BY <1>4, <1>10
<1> QED
  BY <1>10, <1>11, <1>13, <1>15, <1>16 DEF PInv, Ended

(* The innermost call ends, with n. *)
LEMMA ReturnP ==
  ASSUME PInv, NEW n, Return(n), Peek # ";" \/ Top.kind \notin {"PARS", "SQBRAS"} \cup Sequences
  PROVE  PInv'
<1> DEFINE below == Front(calls)
           caller == Last(below)
<1>1. CASE below = <<>>
  BY <1>1 DEF Return, PInv, Ended, Waiting, ReadUpTo, Top, Peek, At
<1>2. CASE below # <<>> /\ Top.kind # "ARGS"
  <2>1. /\ calls' = [below EXCEPT ![Len(below)] = With(caller, n)]
        /\ pos' = (IF Top.kind \in {"STMT", "COND"} THEN pos ELSE pos + 1)
        /\ toks' = toks /\ outcome' = outcome
    BY <1>2 DEF Return
  <2>2. Top.kind \in {"STMT", "COND", "PARS", "SQBRAS"} \cup Sequences
    BY <1>2, Facts DEF Kinds, Expressions
  <2>3. pos' \in 1 .. Len(toks)
    BY MoreTokens, <2>1, <2>2
  <2> QED
    BY <1>2, <2>1, <2>3, TakeP, Zenon
<1>3. CASE below # <<>> /\ Top.kind = "ARGS"
  <2>1. \/ Ends("fault") \/ Ends("error")
        \/ /\ calls' = [below EXCEPT ![Len(below)] = With(caller, n)]
           /\ pos' = pos /\ toks' = toks /\ outcome' = outcome
    BY <1>3 DEF Return
  <2>2. ASSUME calls' = [below EXCEPT ![Len(below)] = With(caller, n)],
               pos' = pos, toks' = toks, outcome' = outcome
        PROVE  PInv'
    <3>1. pos' \in 1 .. Len(toks)
      BY <2>2, MoreTokens
    <3> QED
      BY <1>3, <2>2, <3>1, TakeP, Zenon
  <2> QED
    BY <2>1, <2>2, EndP
<1> QED
  BY <1>1, <1>2, <1>3

-----------------------------------------------------------------------------
(* The steps of parse_expr that read a token                               *)

LEMMA ZeroIndex == ~(0 > 0)
OBVIOUS

LEMMA ShiftP ==
  ASSUME PInv, Scans, Peek # ";", NEW n, Shift(n)
  PROVE  PInv'
<1> DEFINE c == With(Top, n)
<1>1. Shape(c) /\ c.i = 0
  BY Facts, WithShape DEF Scans
<1>2. calls' = SetTop(c) /\ pos' = pos + 1 /\ toks' = toks /\ outcome' = outcome
  BY DEF Shift
<1>3. pos' \in 1 .. Len(toks)
  BY <1>2, MoreTokens
<1> HIDE DEF c
<1>4. ~(c.i > 0)
  BY <1>1, ZeroIndex, Zenon
<1> QED
  BY <1>1, <1>2, <1>3, <1>4, GoP, Zenon

LEMMA ReadsFacts ==
  ASSUME NEW t, Reads(t)
  PROVE  Scans /\ Peek = t
BY DEF Reads

LEMMA TokenP ==
  ASSUME PInv, Literal \/ Variable \/ BinOp \/ Not \/ Minus
  PROVE  PInv'
<1>1. CASE Literal
  <2>1. Scans /\ Peek # ";" /\ Shift(Node("LIT", Peek, pos, <<>>))
    BY <1>1 DEF Literal, Reads, Lit
  <2> QED
    BY <2>1, ShiftP
<1>2. CASE Variable
  <2>1. Scans /\ Peek # ";" /\ Shift(Node("VAR", Peek, pos, <<>>))
    BY <1>2 DEF Variable, Reads, Id
  <2> QED
    BY <2>1, ShiftP
<1>3. CASE BinOp
  <2>1. PICK op \in Infix \ {"-"} : Reads(op) /\ Shift(Bin(op, pos))
    BY <1>3 DEF BinOp
  <2>2. Scans /\ Peek # ";"
    BY <2>1 DEF Reads, Infix
  <2> QED
    BY <2>1, <2>2, ShiftP
<1>4. CASE Not
  <2>1. Scans /\ Peek # ";" /\ Shift(Un("!", pos))
    BY <1>4 DEF Not, Reads
  <2> QED
    BY <2>1, ShiftP
<1>5. CASE Minus
  <2>1. Scans /\ Peek # ";"
    BY <1>5 DEF Minus, Reads
  <2>2. Ends("fault") \/ \E n : Shift(n)
    BY <1>5 DEF Minus
  <2> QED
    BY <2>1, <2>2, ShiftP, EndP
<1> QED
  BY <1>1, <1>2, <1>3, <1>4, <1>5

LEMMA BracketP ==
  ASSUME PInv, FuncCall \/ Group \/ Dict \/ List \/ Item
  PROVE  PInv'
<1>1. SetTop(Top) = calls /\ Shape(Top)
  BY SameTop, Facts
<1>2. ASSUME Top.i = 0, NEW kind \in Kinds, NEW skip, Begin(Call(kind, pos), calls, skip),
             pos + skip \in 1 .. Len(toks)
      PROVE  PInv'
  <2>1. /\ calls' = Append(SetTop(Top), Call(kind, pos)) /\ toks' = toks
        /\ outcome' = outcome /\ pos' \in 1 .. Len(toks)
    BY <1>1, <1>2 DEF Begin
  <2> QED
    BY <1>1, <1>2, <2>1, BeginP
<1>3. CASE FuncCall
  <2>1. Scans /\ Peek # ";" /\ Peek2 # ";" /\ Begin(Call("FUNC_CALL", pos), calls, 2)
    BY <1>3 DEF FuncCall, Reads, Id
  <2>2. pos + 2 \in 1 .. Len(toks)
    BY <2>1, MoreTokens
  <2> QED
    BY <1>2, <2>1, <2>2 DEF Scans, Kinds, Sequences
<1>4. CASE Group \/ Dict \/ List
  <2>1. PICK kind \in {"PARS", "DICT", "LIST"} : Begin(Call(kind, pos), calls, 1)
    BY <1>4 DEF Group, Dict, List
  <2>2. Scans /\ Peek # ";"
    BY <1>4 DEF Group, Dict, List, Reads
  <2>3. pos + 1 \in 1 .. Len(toks)
    BY <2>2, MoreTokens
  <2> QED
    BY <1>2, <2>1, <2>2, <2>3 DEF Scans, Kinds, Sequences, Expressions
<1>5. CASE Item
  <2>1. Top.i = 0 /\ Begin(Call("ARGS", pos), calls, 0)
    BY <1>1, <1>5 DEF Item, Collects, Shape
  <2>2. pos + 0 = pos
    BY Facts
  <2>3. pos + 0 \in 1 .. Len(toks)
    BY <2>2, MoreTokens
  <2> QED
    BY <1>2, <2>1, <2>3 DEF Kinds, Expressions
<1> QED
  BY <1>3, <1>4, <1>5

LEMMA IndexP ==
  ASSUME PInv, Index
  PROVE  PInv'
<1> DEFINE d == With(Top, Bin("[", pos))
<1>1. Scans /\ Peek # ";" /\ Begin(Call("SQBRAS", pos), SetTop(d), 1)
  BY DEF Index, Reads
<1>2. Shape(d) /\ d.i = 0
  BY <1>1, Facts, WithShape DEF Scans
<1>3. "SQBRAS" \in Kinds
  BY DEF Kinds, Expressions
<1> HIDE DEF d
<1>4. /\ calls' = Append(SetTop(d), Call("SQBRAS", pos)) /\ toks' = toks
      /\ outcome' = outcome /\ pos' = pos + 1
  BY <1>1 DEF Begin
<1>5. pos' \in 1 .. Len(toks)
  BY <1>1, <1>4, MoreTokens
<1> QED
  BY <1>2, <1>3, <1>4, <1>5, BeginP

LEMMA FaultP ==
  ASSUME PInv, IndexOfNull \/ Unexpected
  PROVE  PInv'
BY EndP DEF IndexOfNull, Unexpected

(* The innermost call takes stock of its nodes for a pass of parse_expand. *)
LEMMA PassP ==
  ASSUME PInv, Top.kind \in Expressions, Peek \in Stop(Top.kind), NEW b,
         calls' = SetTop([Top EXCEPT !.i = 1, !.before = b]),
         UNCHANGED <<toks, pos, outcome>>
  PROVE  PInv'
<1> DEFINE c == [Top EXCEPT !.i = 1, !.before = b]
<1>1. Top.kind \notin Sequences /\ Shape(Top)
  BY Facts DEF Sequences, Expressions
<1>2. Shape(c) /\ c.kind = Top.kind
  BY <1>1, PassShape
<1>3. calls' = SetTop(c)
  OBVIOUS
<1> HIDE DEF c
<1>4. pos' \in 1 .. Len(toks) /\ Peek' = Peek
  BY MoreTokens DEF Peek, At
<1> QED
  BY <1>2, <1>3, <1>4, GoP

(* What ends an expression in brackets is no semicolon. *)
LEMMA StopsInside ==
  ASSUME NEW kind \in Expressions, Peek \in Stop(kind)
  PROVE  Peek # ";" \/ kind \notin {"PARS", "SQBRAS"} \cup Sequences
BY DEF Stop, Expressions, Sequences

LEMMA StoppedP ==
  ASSUME PInv, Stopped
  PROVE  PInv'
<1>1. Top.kind \in Expressions /\ Peek \in Stop(Top.kind)
  BY DEF Stopped, Scans, AtEnd
<1>2. CASE Nodes = <<>>
  <2>1. Return(NULL)
    BY <1>2 DEF Stopped
  <2> QED
    BY <1>1, <2>1, StopsInside, ReturnP
<1>3. CASE Nodes # <<>>
  BY <1>1, <1>3, PassP DEF Stopped
<1> QED
  BY <1>2, <1>3

(* parse_list, parse_dict and parse_func_call *)
LEMMA CommaP ==
  ASSUME PInv, Comma
  PROVE  PInv'
<1>1. CASE Peek2 = ","
  BY <1>1, EndP DEF Comma
<1>2. CASE Peek2 # ","
  <2>1. /\ Top.i = 0 /\ Shape(Top) /\ SetTop(Top) = calls
    BY Facts, SameTop DEF Comma, Collects, Shape
  <2>2. /\ Peek # ";" /\ pos' = pos + 1 /\ toks' = toks /\ calls' = calls
        /\ outcome' = outcome
    BY <1>2 DEF Comma
  <2>3. pos' \in 1 .. Len(toks)
    BY <2>2, MoreTokens
  <2>4. ~(Top.i > 0)
    BY <2>1
  <2>5. calls' = SetTop(Top)
    BY <2>1, <2>2
  <2> QED
    BY <2>1, <2>2, <2>3, <2>4, <2>5, GoP, Zenon
<1> QED
  BY <1>1, <1>2

LEMMA CloseP ==
  ASSUME PInv, Close
  PROVE  PInv'
<1>1. Return(Node(Top.kind, At(Top.at), Top.at, Nodes))
  BY DEF Close
<1>2. Top.kind \in Sequences /\ Peek = Closing(Top.kind)
  BY DEF Close, Collects
<1>3. Peek # ";"
  BY <1>2 DEF Closing, Sequences
<1> QED
  BY <1>1, <1>3, ReturnP

(* The steps of parse_expand *)
LEMMA ExpandFacts ==
  ASSUME PInv, Expands
  PROVE  /\ Top.kind \in Expressions /\ Peek \in Stop(Top.kind) /\ Shape(Top)
         /\ Top.kind \notin Sequences /\ I \in Nat /\ I > 0 /\ Len(Nodes) \in Nat
<1>1. Top.kind \in Expressions /\ Peek \in Stop(Top.kind) /\ I > 0
  BY DEF Expands, I, PInv, ReadUpTo
<1> QED
  BY <1>1, Facts DEF I, Expressions, Sequences

LEMMA SingleP ==
  ASSUME PInv, Single
  PROVE  PInv'
<1>1. Expands /\ Return(Nodes[1])
  BY DEF Single
<1> QED
  BY <1>1, ExpandFacts, StopsInside, ReturnP

LEMMA SkipOpP ==
  ASSUME PInv, SkipOp
  PROVE  PInv'
<1> DEFINE k == I + 1
           c == [Top EXCEPT !.i = k]
<1>1. Expands /\ I <= Len(Nodes) /\ calls' = SetTop(c) /\ UNCHANGED <<toks, pos, outcome>>
  BY DEF SkipOp, Visits
<1>2. /\ Top.kind \in Expressions /\ Peek \in Stop(Top.kind) /\ Shape(Top)
      /\ Top.kind \notin Sequences /\ I \in Nat /\ I > 0 /\ Len(Nodes) \in Nat
  BY <1>1, ExpandFacts
<1>3. k \in 0 .. Len(Nodes) + 1
  BY <1>1, <1>2
<1> HIDE DEF k
<1>4. Shape(c) /\ c.kind = Top.kind
  BY <1>2, <1>3, IndexShape DEF Nodes
<1> HIDE DEF c
<1>5. pos' \in 1 .. Len(toks) /\ Peek' = Peek
  BY <1>1, MoreTokens DEF Peek, At
<1> QED
  BY <1>1, <1>2, <1>4, <1>5, GoP

LEMMA MisplacedP ==
  ASSUME PInv, Misplaced
  PROVE  PInv'
<1>1. Trouble \in {"fault", "error"}
  BY DEF Misplaced, Trouble, Neighbour
<1> QED
  BY <1>1, EndP DEF Misplaced

LEMMA AttachP ==
  ASSUME PInv, Attach
  PROVE  PInv'
<1> DEFINE left == ~(lpr > rpr)
           j == IF left THEN I + 1 ELSE I - 1
           e == SetVal(Nodes[j], Nodes[I], left)
           s == Attached(left)
           c == [Top EXCEPT !.nodes = s]
<1>1. Expands /\ I <= Len(Nodes) /\ calls' = SetTop(c) /\ UNCHANGED <<toks, pos, outcome>>
  BY DEF Attach, Visits
<1>2. /\ Top.kind \in Expressions /\ Peek \in Stop(Top.kind) /\ Shape(Top)
      /\ I \in Nat /\ I > 0 /\ Len(Nodes) \in Nat
  BY <1>1, ExpandFacts
<1>3. s = RemoveAt(Put(Nodes, j, e), I)
  BY DEF Attached, Put
<1> HIDE DEF left, j, e
<1>4. Listed(Put(Nodes, j, e)) /\ Len(Put(Nodes, j, e)) = Len(Nodes)
  BY Facts, ListedExcept
<1>5. I \in 1 .. Len(Put(Nodes, j, e))
  BY <1>1, <1>2, <1>4
<1>6. Listed(s) /\ Len(s) = Len(Nodes) - 1
  BY <1>3, <1>4, <1>5, ListedRemove
<1> HIDE DEF s
<1>7. Top.i \in 0 .. Len(s) + 1
  BY <1>1, <1>2, <1>6 DEF I
<1>8. Shape(c) /\ c.kind = Top.kind
  BY <1>2, <1>6, <1>7, NodesShape
<1> HIDE DEF c
<1>9. pos' \in 1 .. Len(toks) /\ Peek' = Peek
  BY <1>1, MoreTokens DEF Peek, At
<1> QED
  BY <1>1, <1>2, <1>8, <1>9, GoP

LEMMA PassDoneP ==
  ASSUME PInv, PassDone
  PROVE  PInv'
<1>1. Top.kind \in Expressions /\ Peek \in Stop(Top.kind)
  BY ExpandFacts DEF PassDone
<1> QED
  BY <1>1, PassP, EndP DEF PassDone

-----------------------------------------------------------------------------
LEMMA InitP ==
  ASSUME Init
  PROVE  PInv
<1>1. PICK input \in Inputs : toks = Append(input, ";")
  BY DEF Init
<1>2. pos = 1 /\ calls = <<Call("STMT", 1)>> /\ outcome = "run"
  BY DEF Init
<1>3. input \in Seq(Token)
  BY InputAssumption
<1>4. ";" \in Token
  BY DEF Token, ExprToken
<1>5. /\ toks \in Seq(Token) /\ Len(toks) = Len(input) + 1 /\ toks[Len(input) + 1] = ";"
      /\ Len(input) \in Nat
  BY <1>1, <1>3, <1>4, AppendProperties, LenProperties
<1>6. Ended
  <2>0. \A k \in Nat : 1 \in 1 .. k + 1
    OBVIOUS
  <2>1. 1 \in 1 .. Len(input) + 1
    BY <1>5, <2>0, Zenon
  <2>2. pos \in 1 .. Len(toks) /\ toks[Len(toks)] = ";"
    BY <1>2, <1>5, <2>1, Zenon
  <2> QED
    BY <1>5, <2>2 DEF Ended
<1> DEFINE c == Call("STMT", 1)
<1>7. Shape(c) /\ c.i = 0
  BY NewShape DEF Kinds, Expressions
<1>8. calls = <<c>>
  BY <1>2
<1> HIDE DEF c
<1>9. <<c>> \in Seq({c}) /\ Len(<<c>>) = 1 /\ <<c>>[1] = c
  OBVIOUS
<1>10. Listed(calls) /\ Len(calls) = 1 /\ calls[1] = c
  BY <1>8, <1>9, ListedIn
<1>11. Waiting /\ ReadUpTo /\ calls # <<>>
  <2>1. \A n \in 1 .. Len(calls) - 1 : FALSE
    BY <1>10
  <2>2. Waiting
    BY <2>1, Zenon DEF Waiting
  <2>3. Top = c
    BY <1>10 DEF Top, Last
  <2>4. ~(Top.i > 0)
    BY <1>7, <2>3
  <2>5. ReadUpTo
    BY <2>4, Zenon DEF ReadUpTo
  <2> QED
    BY <1>10, <2>2, <2>5, EmptySeq
<1> QED
  BY <1>2, <1>6, <1>7, <1>10, <1>11 DEF PInv

LEMMA NextP ==
  ASSUME PInv, [Next]_vars
  PROVE  PInv'
<1>1. CASE UNCHANGED vars
  BY <1>1 DEF vars, PInv, Ended, Waiting, ReadUpTo, Top, Peek, At
<1>2. CASE ExprNext
  BY <1>2, TokenP, BracketP, IndexP, FaultP, StoppedP, CommaP, CloseP, SingleP, SkipOpP,
     MisplacedP, AttachP, PassDoneP DEF ExprNext
<1> QED
  BY <1>1, <1>2 DEF Next, Finished

(* Whatever is parsed, peek() and next() (src/parser.c) never go behind    *)
(* the semicolon of the statement, a call is one of the functions the      *)
(* parser has, and the index of parse_expand, which is unsigned and taken  *)
(* back by one whenever a node has found its operator, stays that of a     *)
(* node or the one behind the last.                                        *)
THEOREM TypeCorrect == Spec => []TypeOK
<1>1. ASSUME PInv PROVE TypeOK
  <2>1. /\ toks \in Seq(Token) /\ pos \in 1 .. Len(toks) /\ calls # <<>>
        /\ outcome \in {"run", "done", "error", "fault"}
    BY <1>1 DEF PInv, Ended
  <2>2. ASSUME NEW c \in Range(calls)
        PROVE  /\ c.kind \in Kinds /\ c.i \in 0 .. Len(c.nodes) + 1
               /\ c.kind \in Sequences => c.i = 0
    <3>1. DOMAIN calls = 1 .. Len(calls)
      BY <1>1, ListedFacts DEF PInv
    <3>2. PICK n \in 1 .. Len(calls) : c = calls[n]
      BY <2>2, <3>1 DEF Range
    <3> QED
      BY <1>1, <3>2 DEF PInv, Shape
  <2> QED
    BY <2>1, <2>2 DEF TypeOK
<1> QED
  BY <1>1, InitP, NextP, PTL DEF Spec

-----------------------------------------------------------------------------
(***************************************************************************)
(* Where NULL comes from.  The invariant is of the calls of the expression *)
(* parser, whoever has called it: StmtParser has it too.                   *)
(***************************************************************************)
\* A call, of whatever function, is a record with the fields of Call.
Record(c) == /\ {"kind", "at", "nodes", "i", "before"} \subseteq DOMAIN c
             /\ c = [f \in DOMAIN c |-> c[f]]
Entry(c)  == Record(c) /\ Listed(c.nodes) /\ c.i \in Nat

\* The nodes of an expression, and what NULL among them means
Operand(n) == /\ n = [kind |-> n.kind, op |-> n.op, at |-> n.at, args |-> n.args]
              /\ n = NULL => EmptyBrackets
Known(c)   == c.kind \in Expressions => \A j \in 1 .. Len(c.nodes) : Operand(c.nodes[j])
Good(c)    == Entry(c) /\ Known(c)

\* Who calls whom
Adjacent(c, d) == /\ d.kind \in {"STMT", "COND", "ARGS"} => c.kind \notin Expressions
                  /\ c.kind \in Sequences <=> d.kind = "ARGS"

\* What is behind the cursor of a call that has no nodes yet, or awaits an item
Behind    == At(pos - 1)
ItemBehind == Behind \in {"{", ","}
BeginsItem == ItemBehind /\ Peek \notin {",", "}"}
Began     == (outcome = "run" /\ Top.kind \in Expressions /\ Top.i = 0 /\ Nodes = <<>>) =>
               /\ Top.kind = "PARS" => Behind = "("
               /\ Top.kind = "SQBRAS" => Behind = "["
               /\ Top.kind = "ARGS" /\ calls[Len(calls) - 1].kind = "DICT" => BeginsItem
DictReady == outcome = "run" /\ Top.kind = "DICT" => ItemBehind \/ Peek \in {",", "}"}

EInv == /\ toks \in Seq(Token) /\ pos \in Nat /\ Listed(calls)
        /\ outcome = "run" => calls # <<>>
        /\ \A n \in 1 .. Len(calls) : Good(calls[n])
        /\ \A n \in 1 .. Len(calls) - 1 : Adjacent(calls[n], calls[n + 1])
        /\ Began /\ DictReady

(* Reading a field of a call that was changed *)
LEMMA Changed ==
  ASSUME NEW c, Record(c), NEW s
  PROVE  /\ Record([c EXCEPT !.nodes = s]) /\ Record([c EXCEPT !.i = s]) /\ Record([c EXCEPT !.before = s])
         /\ [c EXCEPT !.nodes = s].nodes = s /\ [c EXCEPT !.nodes = s].kind = c.kind
         /\ [c EXCEPT !.nodes = s].i = c.i
         /\ [c EXCEPT !.i = s].nodes = c.nodes /\ [c EXCEPT !.i = s].kind = c.kind
         /\ [c EXCEPT !.i = s].i = s
         /\ [c EXCEPT !.before = s].nodes = c.nodes /\ [c EXCEPT !.before = s].kind = c.kind
         /\ [c EXCEPT !.before = s].i = c.i
BY DEF Record

LEMMA GoodNew ==
  ASSUME NEW kind, NEW at
  PROVE  /\ Good(Call(kind, at)) /\ Call(kind, at).kind = kind /\ Call(kind, at).i = 0
         /\ Call(kind, at).nodes = <<>> /\ Call(kind, at).at = at
<1> DEFINE c == Call(kind, at)
<1>1. Record(c) /\ c.kind = kind /\ c.i = 0 /\ c.nodes = <<>> /\ c.at = at
  BY DEF Call, Record
<1> HIDE DEF c
<1>2. Listed(<<>>) /\ Len(<<>>) = 0
  <2>1. <<>> \in Seq({}) /\ Len(<<>>) = 0
    OBVIOUS
  <2> QED
    BY <2>1, ListedIn
<1>3. Good(c)
  BY <1>1, <1>2 DEF Good, Entry, Known
<1> QED
  BY <1>1, <1>3 DEF c

LEMMA GoodWith ==
  ASSUME NEW c, Good(c), NEW n, c.kind \in Expressions => Operand(n)
  PROVE  /\ Good(With(c, n)) /\ With(c, n).kind = c.kind /\ With(c, n).i = c.i
         /\ With(c, n).nodes = Append(c.nodes, n) /\ With(c, n).nodes # <<>>
<1> DEFINE d == With(c, n)
           s == Append(c.nodes, n)
<1>1. Record(c) /\ Listed(c.nodes) /\ Known(c) /\ c.i \in Nat
  BY DEF Good, Entry
<1>2. With(c, n) = [c EXCEPT !.nodes = s]
  BY <1>1 DEF With, Record
<1>3. /\ Listed(s) /\ Len(s) = Len(c.nodes) + 1 /\ s[Len(c.nodes) + 1] = n
      /\ \A j \in 1 .. Len(c.nodes) : s[j] = c.nodes[j]
  BY <1>1, ListedAppend
<1>4. Len(c.nodes) \in Nat
  BY <1>1, ListedFacts
<1> HIDE DEF s
<1>5. s # <<>>
  <2>1. Len(s) # 0
    BY <1>3, <1>4
  <2> QED
    BY <2>1, EmptySeq
<1> HIDE DEF d
<1>6. Record(d) /\ d.kind = c.kind /\ d.i = c.i /\ d.nodes = s
  <2>1. d = [c EXCEPT !.nodes = s]
    BY <1>2 DEF d
  <2> QED
    BY <1>1, <2>1, Changed
<1>7. \A j \in 1 .. Len(s) : j \in 1 .. Len(c.nodes) \/ j = Len(c.nodes) + 1
  BY <1>3, <1>4
<1>8. Known(d)
  BY <1>1, <1>3, <1>6, <1>7 DEF Known
<1>9. Good(d)
  BY <1>1, <1>3, <1>6, <1>8 DEF Good, Entry
<1> QED
  BY <1>5, <1>6, <1>9 DEF d, s

LEMMA EFacts ==
  ASSUME EInv, outcome = "run"
  PROVE  /\ Len(calls) \in Nat /\ Len(calls) > 0 /\ Len(calls) \in 1 .. Len(calls)
         /\ Top = calls[Len(calls)] /\ Good(Top)
         /\ Listed(Nodes) /\ Len(Nodes) \in Nat /\ pos \in Nat /\ Listed(calls)
         /\ Top.i \in Nat
<1>1. Listed(calls) /\ calls # <<>> /\ pos \in Nat
  BY DEF EInv
<1>2. Len(calls) \in Nat /\ Len(calls) > 0
  BY <1>1, ListedFacts
<1>3. Len(calls) \in 1 .. Len(calls)
  BY <1>2
<1>4. Top = calls[Len(calls)]
  BY DEF Top, Last
<1>5. Good(Top)
  BY <1>3, <1>4 DEF EInv
<1>6. Listed(Nodes) /\ Len(Nodes) \in Nat /\ Top.i \in Nat
  BY <1>5, ListedFacts DEF Good, Entry, Nodes
<1> QED
  BY <1>1, <1>2, <1>3, <1>4, <1>5, <1>6

(* Two tokens next to each other *)
LEMMA PairEmpty ==
  ASSUME toks \in Seq(Token), pos \in Nat, NEW x, NEW y, Behind = x, Peek = y,
         x # "past", y # "past", <<x, y>> \in Empty
  PROVE  EmptyBrackets
<1>1. Len(toks) \in Nat /\ DOMAIN toks = 1 .. Len(toks)
  BY LenProperties
<1> DEFINE k == pos - 1
<1>2. k \in 1 .. Len(toks) /\ toks[k] = x
  BY <1>1 DEF Behind, At
<1>3. pos \in 1 .. Len(toks) /\ toks[pos] = y
  BY <1>1 DEF Peek, At
<1>4. k + 1 = pos
  OBVIOUS
<1> HIDE DEF k
<1>5. k \in 1 .. Len(toks) - 1
  BY <1>1, <1>2, <1>3, <1>4
<1> QED
  BY <1>2, <1>3, <1>4, <1>5 DEF EmptyBrackets

(* What a step has to show that keeps the first k calls *)
LEMMA KeepE ==
  ASSUME EInv, toks' = toks, pos' \in Nat, Listed(calls'), calls' # <<>>,
         NEW k \in Nat, k <= Len(calls), k <= Len(calls'),
         \A n \in 1 .. k : calls'[n] = calls[n],
         \A n \in k + 1 .. Len(calls') : Good(calls'[n]),
         \A n \in k .. Len(calls') - 1 : n > 0 => Adjacent(calls'[n], calls'[n + 1]),
         Began', DictReady'
  PROVE  EInv'
<1>1. Len(calls) \in Nat /\ Len(calls') \in Nat
  BY ListedFacts DEF EInv
<1>2. \A c : Good(c) <=> Good(c)'
  BY DEF Good, Entry, Record, Known, Operand, EmptyBrackets
<1>3. \A n \in 1 .. Len(calls') : Good(calls'[n])
  <2>1. \A n \in 1 .. Len(calls') : n \in 1 .. k \/ n \in k + 1 .. Len(calls')
    BY <1>1
  <2>2. \A n \in 1 .. k : n \in 1 .. Len(calls)
    BY <1>1
  <2>3. \A n \in 1 .. Len(calls) : Good(calls[n])
    BY DEF EInv
  <2> QED
    BY <2>1, <2>2, <2>3
<1>4. \A n \in 1 .. Len(calls') - 1 : Adjacent(calls'[n], calls'[n + 1])
  <2>1. ASSUME NEW n \in 1 .. Len(calls') - 1 PROVE Adjacent(calls'[n], calls'[n + 1])
    <3>1. CASE n \in k .. Len(calls') - 1
      BY <3>1
    <3>2. CASE n < k
      <4>1. n \in 1 .. k /\ n + 1 \in 1 .. k /\ n \in 1 .. Len(calls) - 1
        BY <1>1, <3>2
      <4>2. Adjacent(calls[n], calls[n + 1])
        BY <4>1 DEF EInv
      <4> QED
        BY <4>1, <4>2
    <3> QED
      BY <1>1, <3>1, <3>2
  <2> QED
    BY <2>1
<1>5. (\A n \in 1 .. Len(calls) : Good(calls[n]))'
  BY <1>2, <1>3
<1>6. (\A n \in 1 .. Len(calls) - 1 : Adjacent(calls[n], calls[n + 1]))'
  BY <1>4
<1> QED
  BY <1>5, <1>6 DEF EInv

LEMMA SameE ==
  ASSUME EInv, UNCHANGED <<toks, pos, calls, outcome>>
  PROVE  EInv'
<1>1. \A c : Good(c) <=> Good(c)'
  BY DEF Good, Entry, Record, Known, Operand, EmptyBrackets
<1>2. (\A n \in 1 .. Len(calls) : Good(calls[n]))'
  BY <1>1 DEF EInv
<1>3. Began' <=> Began
  BY DEF Began, Top, Nodes, Behind, BeginsItem, ItemBehind, Peek, At
<1>4. DictReady' <=> DictReady
  BY DEF DictReady, Top, Behind, ItemBehind, Peek, At
<1> QED
  BY <1>2, <1>3, <1>4 DEF EInv

LEMMA EndE ==
  ASSUME EInv, NEW how \in {"done", "error", "fault", "past", "overflow"}, Ends(how)
  PROVE  EInv'
<1>1. how # "run"
  OBVIOUS
<1>2. UNCHANGED <<toks, pos, calls>> /\ outcome' # "run"
  BY <1>1 DEF Ends
<1>3. \A c : Good(c) <=> Good(c)'
  BY <1>2 DEF Good, Entry, Record, Known, Operand, EmptyBrackets
<1>4. (\A n \in 1 .. Len(calls) : Good(calls[n]))'
  BY <1>2, <1>3 DEF EInv
<1>5. Began' /\ DictReady'
  BY <1>2 DEF Began, DictReady
<1> QED
  BY <1>2, <1>4, <1>5 DEF EInv

(* The calls after the innermost has become c, and after it has returned n *)
LEMMA TopPut ==
  ASSUME Listed(calls), calls # <<>>, NEW c
  PROVE  /\ Listed(SetTop(c)) /\ Len(SetTop(c)) = Len(calls) /\ SetTop(c)[Len(calls)] = c
         /\ \A n \in 1 .. Len(calls) - 1 : SetTop(c)[n] = calls[n]
         /\ Len(calls) - 1 \in Nat /\ SetTop(c) # <<>>
<1>1. Len(calls) \in Nat /\ Len(calls) > 0
  BY ListedFacts
<1>2. /\ Listed(Put(calls, Len(calls), c)) /\ Len(Put(calls, Len(calls), c)) = Len(calls)
      /\ \A m \in 1 .. Len(calls) :
           Put(calls, Len(calls), c)[m] = IF m = Len(calls) THEN c ELSE calls[m]
  BY ListedExcept
<1>3. \A n \in 1 .. Len(calls) - 1 : n \in 1 .. Len(calls) /\ n # Len(calls)
  BY <1>1
<1>4. Len(calls) \in 1 .. Len(calls) /\ Len(calls) - 1 \in Nat /\ Len(calls) # 0
  BY <1>1
<1>5. SetTop(c) = Put(calls, Len(calls), c)
  BY DEF SetTop, Put
<1> DEFINE s == SetTop(c)
<1>6. /\ Listed(s) /\ Len(s) = Len(calls)
      /\ \A m \in 1 .. Len(calls) : s[m] = IF m = Len(calls) THEN c ELSE calls[m]
  BY <1>2, <1>5, Zenon
<1> HIDE DEF s
<1>7. s # <<>>
  BY <1>4, <1>6, EmptySeq
<1>8. /\ Listed(s) /\ Len(s) = Len(calls) /\ s[Len(calls)] = c
      /\ \A n \in 1 .. Len(calls) - 1 : s[n] = calls[n]
  BY <1>3, <1>4, <1>6, Zenon
<1> QED
  BY <1>4, <1>7, <1>8, Zenon DEF s

LEMMA FrontFacts ==
  ASSUME NEW s, Listed(s), s # <<>>
  PROVE  /\ Listed(Front(s)) /\ Len(Front(s)) = Len(s) - 1 /\ Len(s) - 1 \in Nat
         /\ \A m \in 1 .. Len(s) - 1 : Front(s)[m] = s[m]
         /\ Front(s) # <<>> => /\ Len(s) - 1 > 0 /\ Len(s) - 1 \in 1 .. Len(s) - 1
                                   /\ Last(Front(s)) = s[Len(s) - 1]
<1>1. Len(s) \in Nat /\ Len(s) > 0 /\ Listed(s)
  BY ListedFacts
<1> DEFINE k == Len(s) - 1
<1>2. k \in Int /\ 1 \in Int /\ 1 <= 1 /\ 1 <= k + 1 /\ k <= Len(s) /\ k \in Nat
  BY <1>1
<1>3. Front(s) = SubSeq(s, 1, k)
  BY DEF Front
<1>4. k - 1 + 1 = k /\ \A m \in 1 .. k : 1 + m - 1 = m
  BY <1>1
<1> HIDE DEF k
<1>5. /\ Listed(SubSeq(s, 1, k)) /\ Len(SubSeq(s, 1, k)) = k - 1 + 1
      /\ \A m \in 1 .. k - 1 + 1 : SubSeq(s, 1, k)[m] = s[1 + m - 1]
  BY <1>1, <1>2, ListedSubSeq, ZenonT(40)
<1> DEFINE f == Front(s)
<1>6. Listed(f) /\ Len(f) = k /\ \A m \in 1 .. k : f[m] = s[m]
  BY <1>3, <1>4, <1>5
<1> HIDE DEF f
<1>7. ASSUME f # <<>> PROVE k > 0 /\ k \in 1 .. k /\ Last(f) = s[k]
  <2>1. k > 0
    BY <1>6, <1>7, ListedFacts
  <2>2. k \in 1 .. k
    BY <1>2, <2>1
  <2> QED
    BY <1>6, <2>1, <2>2 DEF Last
<1> QED
  BY <1>2, <1>6, <1>7 DEF k, f

\* An innermost call of which Began and DictReady say nothing
Calm(c) == /\ c.kind \in Expressions => c.i # 0 \/ c.nodes # <<>>
           /\ c.kind # "DICT"

LEMMA CalmTop ==
  ASSUME Calm(Top')
  PROVE  Began' /\ DictReady'
BY Zenon DEF Calm, Began, DictReady, Nodes

(* The innermost call goes on. *)
LEMMA GoE ==
  ASSUME EInv, outcome = "run", NEW c, Good(c), c.kind = Top.kind, Calm(c),
         calls' = SetTop(c), toks' = toks, pos' \in Nat
  PROVE  EInv'
<1> DEFINE k == Len(calls) - 1
<1>1. /\ Listed(calls') /\ Len(calls') = Len(calls) /\ calls'[Len(calls)] = c
      /\ \A n \in 1 .. k : calls'[n] = calls[n]
      /\ k \in Nat /\ calls' # <<>>
  BY TopPut, EFacts DEF EInv
<1>2. Top = calls[Len(calls)] /\ Len(calls) \in Nat
  BY EFacts
<1>3. k <= Len(calls) /\ k <= Len(calls') /\ k + 1 = Len(calls)
  BY <1>1, <1>2
<1>4. \A n \in k + 1 .. Len(calls') : n = Len(calls)
  BY <1>1, <1>2
<1>5. \A n \in k .. Len(calls') - 1 : n = k
  BY <1>1, <1>2
<1>6. k > 0 => Adjacent(calls[k], Top) /\ k \in 1 .. k
  <2>1. k > 0 => k \in 1 .. Len(calls) - 1
    BY <1>1
  <2> QED
    BY <1>2, <1>3, <2>1 DEF EInv
<1>7. k > 0 => Adjacent(calls'[k], calls'[k + 1])
  BY <1>1, <1>3, <1>6 DEF Adjacent
<1>8. Top' = c
  BY <1>1 DEF Top, Last
<1>9. Began' /\ DictReady'
  BY <1>8, CalmTop
<1> HIDE DEF k
<1>10. \A n \in k + 1 .. Len(calls') : Good(calls'[n])
  BY <1>1, <1>4
<1>11. \A n \in k .. Len(calls') - 1 : n > 0 => Adjacent(calls'[n], calls'[n + 1])
  BY <1>5, <1>7
<1> QED
  BY <1>1, <1>3, <1>9, <1>10, <1>11, KeepE

(* A call begins, above d in place of the innermost. *)
LEMMA BeginE ==
  ASSUME EInv, outcome = "run", NEW d, Good(d), d.kind = Top.kind,
         NEW kind, NEW at, Adjacent(d, Call(kind, at)),
         calls' = Append(SetTop(d), Call(kind, at)), toks' = toks, pos' \in Nat,
         Began', DictReady'
  PROVE  EInv' /\ Top' = Call(kind, at) /\ Len(calls') = Len(calls) + 1 /\ calls'[Len(calls)] = d
<1> DEFINE k == Len(calls) - 1
           s == SetTop(d)
           c == Call(kind, at)
<1>1. /\ Listed(s) /\ Len(s) = Len(calls) /\ s[Len(calls)] = d
      /\ \A n \in 1 .. k : s[n] = calls[n]
      /\ k \in Nat
  BY TopPut, EFacts DEF EInv
<1>2. Top = calls[Len(calls)] /\ Len(calls) \in Nat /\ Len(calls) \in 1 .. Len(calls)
  BY EFacts
<1>3. Good(c) /\ Adjacent(d, c) /\ calls' = Append(s, c)
  BY GoodNew
<1> HIDE DEF s, c
<1>4. /\ Listed(calls') /\ Len(calls') = Len(calls) + 1 /\ calls'[Len(calls) + 1] = c
      /\ \A n \in 1 .. Len(calls) : calls'[n] = s[n]
  BY <1>1, <1>3, ListedAppend
<1>5. k <= Len(calls) /\ k <= Len(calls') /\ k + 1 = Len(calls) /\ Len(calls') # 0
      /\ \A n \in 1 .. k : n \in 1 .. Len(calls)
  BY <1>1, <1>2, <1>4
<1>6. /\ \A n \in k + 1 .. Len(calls') : n = Len(calls) \/ n = Len(calls) + 1
      /\ \A n \in k .. Len(calls') - 1 : n = k \/ n = Len(calls)
  BY <1>2, <1>4
<1>7. k > 0 => Adjacent(calls[k], Top) /\ k \in 1 .. k
  <2>1. k > 0 => k \in 1 .. Len(calls) - 1
    BY <1>1
  <2> QED
    BY <1>2, <1>5, <2>1 DEF EInv
<1> HIDE DEF k
<1>8. calls'[Len(calls)] = d /\ \A n \in 1 .. k : calls'[n] = calls[n]
  BY <1>1, <1>2, <1>4, <1>5
<1>9. k > 0 => Adjacent(calls'[k], calls'[k + 1])
  BY <1>5, <1>7, <1>8 DEF Adjacent
<1>10. Top' = c /\ calls' # <<>>
  BY <1>4, <1>5, EmptySeq DEF Top, Last
<1>11. \A n \in k + 1 .. Len(calls') : Good(calls'[n])
  BY <1>3, <1>4, <1>6, <1>8
<1>12. \A n \in k .. Len(calls') - 1 : n > 0 => Adjacent(calls'[n], calls'[n + 1])
  BY <1>3, <1>4, <1>6, <1>8, <1>9
<1>13. EInv'
  BY <1>1, <1>4, <1>5, <1>8, <1>10, <1>11, <1>12, KeepE
<1> QED
  BY <1>4, <1>8, <1>10, <1>13 DEF c

(* The caller takes n and goes on. *)
LEMMA TakeE ==
  ASSUME EInv, outcome = "run", Front(calls) # <<>>, NEW n,
         calls' = [Front(calls) EXCEPT ![Len(Front(calls))] = With(Last(Front(calls)), n)],
         Last(Front(calls)).kind \in Expressions => Operand(n),
         toks' = toks, pos' \in Nat,
         Last(Front(calls)).kind # "DICT" \/ DictReady'
  PROVE  EInv'
<1> DEFINE below == Front(calls)
           k == Len(calls) - 1
           caller == Last(below)
           c == With(caller, n)
           j == k - 1
<1>1. /\ Listed(below) /\ Len(below) = k /\ k \in Nat /\ \A m \in 1 .. k : below[m] = calls[m]
      /\ k > 0 /\ k \in 1 .. k /\ caller = calls[k]
  BY FrontFacts, EFacts
<1>2. Len(calls) \in Nat
  BY EFacts
<1>3. k \in 1 .. Len(calls) /\ j \in Nat /\ j + 1 = k /\ j <= Len(calls)
  BY <1>1, <1>2
<1>4. calls' = Put(below, k, c)
  BY <1>1 DEF Put
<1>5. Good(caller)
  BY <1>1, <1>3 DEF EInv
<1>6. Good(c) /\ c.kind = caller.kind /\ c.nodes # <<>>
  BY <1>5, GoodWith
<1> HIDE DEF below, caller, c
<1>7. /\ Listed(calls') /\ Len(calls') = k
      /\ \A m \in 1 .. k : calls'[m] = IF m = k THEN c ELSE below[m]
  <2>1. /\ Listed(Put(below, k, c)) /\ Len(Put(below, k, c)) = Len(below)
        /\ \A m \in 1 .. Len(below) : Put(below, k, c)[m] = IF m = k THEN c ELSE below[m]
    BY <1>1, ListedExcept
  <2>2. Len(below) = k
    BY <1>1
  <2> HIDE DEF k
  <2> QED
    BY <1>4, <2>1, <2>2, Zenon
<1>8. /\ \A m \in 1 .. j : m \in 1 .. k /\ m # k
      /\ \A m \in j + 1 .. k : m = k
      /\ \A m \in j .. k - 1 : m = j
      /\ j > 0 => j \in 1 .. Len(calls) - 1 /\ j \in 1 .. j
  BY <1>1, <1>2
<1> HIDE DEF k, j
<1>9. \A m \in 1 .. j : calls'[m] = calls[m]
  BY <1>1, <1>7, <1>8
<1>10. calls'[k] = c
  BY <1>1, <1>7
<1>11. \A m \in j + 1 .. Len(calls') : Good(calls'[m])
  BY <1>6, <1>7, <1>8, <1>10
<1>12. \A m \in j .. Len(calls') - 1 : m > 0 => Adjacent(calls'[m], calls'[m + 1])
  <2>1. j > 0 => Adjacent(calls[j], calls[j + 1])
    BY <1>8 DEF EInv
  <2>2. j > 0 => Adjacent(calls'[j], calls'[j + 1])
    BY <1>1, <1>3, <1>6, <1>8, <1>9, <1>10, <2>1 DEF Adjacent
  <2> QED
    BY <1>7, <1>8, <2>2
<1>13. calls' # <<>>
  <2>1. Len(calls') # 0
    BY <1>1, <1>7
  <2> QED
    BY <2>1, EmptySeq
<1>14. Top' = c
  BY <1>7, <1>10 DEF Top, Last
<1>15. Began' /\ DictReady'
  <2>1. Began'
    BY <1>6, <1>14, Zenon DEF Began, Nodes
  <2>2. caller.kind # "DICT" => DictReady'
    BY <1>6, <1>14, Zenon DEF DictReady
  <2> QED
    BY <2>1, <2>2 DEF caller, below
<1>16. j <= Len(calls')
  BY <1>3, <1>7
<1> QED
  BY <1>3, <1>7, <1>9, <1>11, <1>12, <1>13, <1>15, <1>16, KeepE

(* The innermost call, of an expression or of a sequence of them, returns n. *)
LEMMA ReturnE ==
  ASSUME EInv, outcome = "run", NEW n, Return(n),
         Top.kind \in Expressions \cup Sequences,
         n # NULL => Operand(n),
         n = NULL => \/ EmptyBrackets
                     \/ Top.kind \notin {"PARS", "SQBRAS"} \cup Sequences
                          /\ (Top.kind = "ARGS" /\ Front(calls) # <<>>
                                => Last(Front(calls)).kind # "DICT")
  PROVE  EInv' /\ (outcome' = "fault" => EmptyBrackets)
<1> DEFINE caller == Last(Front(calls))
           k == Len(calls) - 1
<1>1. EmptyBrackets => Operand(n)
  <2>1. NULL = [kind |-> NULL.kind, op |-> NULL.op, at |-> NULL.at, args |-> NULL.args]
    BY DEF NULL, Node
  <2> QED
    BY <2>1 DEF Operand
<1>2. CASE Front(calls) = <<>>
  <2>1. outcome' = "done" /\ UNCHANGED <<toks, pos, calls>>
    BY <1>2 DEF Return
  <2>2. EInv'
    <3>1. \A c : Good(c) <=> Good(c)'
      BY <2>1 DEF Good, Entry, Record, Known, Operand, EmptyBrackets
    <3>2. (\A m \in 1 .. Len(calls) : Good(calls[m]))'
      BY <2>1, <3>1 DEF EInv
    <3>3. Began' /\ DictReady'
      BY <2>1 DEF Began, DictReady
    <3> QED
      BY <2>1, <3>2, <3>3 DEF EInv
  <2> QED
    BY <2>1, <2>2
<1>3. CASE Front(calls) # <<>>
  <2>1. k > 0 /\ k \in 1 .. k /\ caller = calls[k] /\ k + 1 = Len(calls) /\ Top = calls[k + 1]
    BY <1>3, FrontFacts, EFacts
  <2>2. Adjacent(caller, Top)
    <3>1. k \in 1 .. Len(calls) - 1
      BY <2>1
    <3> QED
      BY <2>1, <3>1 DEF EInv
  <2>3. outcome' = outcome => outcome' # "fault"
    OBVIOUS
  <2> HIDE DEF k, caller
  <2>4. CASE Top.kind # "ARGS"
    <3>1. /\ calls' = [Front(calls) EXCEPT ![Len(Front(calls))] = With(Last(Front(calls)), n)]
          /\ pos' = (IF Top.kind \in {"STMT", "COND"} THEN pos ELSE pos + 1)
          /\ toks' = toks /\ outcome' = outcome
      BY <1>3, <2>4, Zenon DEF Return
    <3>2. pos' \in Nat
      BY <3>1, EFacts
    <3>3. caller.kind \in Expressions => Operand(n)
      BY <1>1, <2>2, <2>4 DEF Adjacent, Expressions
    <3>4. caller.kind # "DICT"
      BY <2>2, <2>4 DEF Adjacent, Sequences
    <3> QED
      BY <1>3, <2>3, <3>1, <3>2, <3>3, <3>4, TakeE, Zenon DEF caller
  <2>5. CASE Top.kind = "ARGS"
    <3>1. caller.kind \in Sequences
      BY <2>2, <2>5 DEF Adjacent
    <3>2. \/ Ends("fault") /\ caller.kind = "DICT" /\ n = NULL
          \/ Ends("error")
          \/ /\ calls' = [Front(calls) EXCEPT ![Len(Front(calls))] = With(Last(Front(calls)), n)]
             /\ UNCHANGED <<toks, pos, outcome>> /\ Peek \in {Closing(caller.kind), ","}
      BY <1>3, <2>5, Zenon DEF Return, caller
    <3>3. CASE Ends("fault") /\ caller.kind = "DICT" /\ n = NULL
      BY <1>3, <2>5, <3>3, EndE DEF caller, Sequences
    <3>4. CASE Ends("error")
      BY <3>4, EndE DEF Ends
    <3>5. CASE /\ calls' = [Front(calls) EXCEPT ![Len(Front(calls))] = With(Last(Front(calls)), n)]
               /\ UNCHANGED <<toks, pos, outcome>> /\ Peek \in {Closing(caller.kind), ","}
      <4>1. caller.kind \notin Expressions
        BY <3>1 DEF Sequences, Expressions
      <4>2. pos' \in Nat
        BY <3>5, EFacts
      <4>3. caller.kind # "DICT" \/ DictReady'
        BY <3>5, Zenon DEF DictReady, Closing, Peek, At
      <4> QED
        BY <1>3, <2>3, <3>5, <4>1, <4>2, <4>3, TakeE, Zenon DEF caller
    <3> QED
      BY <3>2, <3>3, <3>4, <3>5
  <2> QED
    BY <2>4, <2>5
<1> QED
  BY <1>2, <1>3

(* What every step of the expression parser shows *)
EGoal == EInv' /\ (outcome' = "fault" => EmptyBrackets)

LEMMA OperandNew ==
  ASSUME NEW kind, kind # "NULL", NEW op, NEW at, NEW args
  PROVE  Operand(Node(kind, op, at, args)) /\ Node(kind, op, at, args) # NULL
<1> DEFINE n == Node(kind, op, at, args)
<1>1. n.kind = kind /\ NULL.kind = "NULL"
  BY DEF Node, NULL
<1>2. n = [kind |-> n.kind, op |-> n.op, at |-> n.at, args |-> n.args]
  BY DEF Node
<1> HIDE DEF n
<1>3. n # NULL
  BY <1>1
<1>4. Operand(n)
  BY <1>2, <1>3 DEF Operand
<1> QED
  BY <1>3, <1>4 DEF n

LEMMA NullSeen ==
  ASSUME EInv, outcome = "run", Top.kind \in Expressions, NEW j \in 1 .. Len(Nodes)
  PROVE  Operand(Nodes[j]) /\ (Nodes[j] = NULL => EmptyBrackets)
<1>1. Good(Top)
  BY EFacts
<1> QED
  BY <1>1 DEF Good, Known, Operand, Nodes

LEMMA FaultE ==
  ASSUME EInv, NEW how \in {"done", "error", "fault", "past", "overflow"}, Ends(how),
         how = "fault" => EmptyBrackets
  PROVE  EGoal
BY EndE DEF Ends, EGoal

LEMMA SameTopE ==
  ASSUME EInv, outcome = "run"
  PROVE  SetTop(Top) = calls
<1>1. Listed(calls) /\ Len(calls) \in Nat /\ Len(calls) > 0 /\ Top = calls[Len(calls)]
  BY EFacts
<1>2. calls = [m \in 1 .. Len(calls) |-> calls[m]]
  BY <1>1, LenProperties DEF Listed
<1> QED
  BY <1>1, <1>2 DEF SetTop

LEMMA BeginTop ==
  ASSUME EInv, outcome = "run", NEW d, NEW c, calls' = Append(SetTop(d), c)
  PROVE  Top' = c /\ Len(calls') - 1 = Len(calls) /\ calls'[Len(calls)] = d
<1> DEFINE s == SetTop(d)
<1>1. Listed(s) /\ Len(s) = Len(calls) /\ s[Len(calls)] = d
  BY TopPut, EFacts
<1>2. Len(calls) \in Nat /\ Len(calls) \in 1 .. Len(calls)
  BY EFacts
<1>3. calls' = Append(s, c)
  OBVIOUS
<1> HIDE DEF s
<1>4. /\ Len(calls') = Len(calls) + 1 /\ calls'[Len(calls) + 1] = c
      /\ \A n \in 1 .. Len(calls) : calls'[n] = s[n]
  BY <1>1, <1>3, ListedAppend
<1> QED
  BY <1>1, <1>2, <1>4 DEF Top, Last

LEMMA ShiftE ==
  ASSUME EInv, Scans, NEW n, Operand(n), Shift(n)
  PROVE  EGoal
<1> DEFINE c == With(Top, n)
<1>1. outcome = "run" /\ Top.kind \in Expressions
  BY DEF Scans
<1>2. Good(Top) /\ pos \in Nat
  BY <1>1, EFacts
<1>3. Good(c) /\ c.kind = Top.kind /\ c.nodes # <<>>
  BY <1>2, GoodWith
<1>4. calls' = SetTop(c) /\ pos' = pos + 1 /\ toks' = toks /\ outcome' = outcome
  BY DEF Shift
<1> HIDE DEF c
<1>5. Calm(c)
  BY <1>1, <1>3 DEF Calm, Expressions
<1>6. pos' \in Nat
  BY <1>2, <1>4
<1>7. EInv'
  BY <1>1, <1>3, <1>4, <1>5, <1>6, GoE
<1> QED
  BY <1>1, <1>4, <1>7 DEF EGoal

LEMMA TokenE ==
  ASSUME EInv, Literal \/ Variable \/ BinOp \/ Not \/ Minus
  PROVE  EGoal
<1>1. CASE Literal
  <2>1. Scans /\ Shift(Node("LIT", Peek, pos, <<>>))
    BY <1>1 DEF Literal, Reads
  <2> QED
    BY <2>1, ShiftE, OperandNew
<1>2. CASE Variable
  <2>1. Scans /\ Shift(Node("VAR", Peek, pos, <<>>))
    BY <1>2 DEF Variable, Reads
  <2> QED
    BY <2>1, ShiftE, OperandNew
<1>3. CASE BinOp
  <2>1. PICK op \in Infix \ {"-"} : Reads(op) /\ Shift(Bin(op, pos))
    BY <1>3 DEF BinOp
  <2>2. Scans /\ Operand(Bin(op, pos))
    BY <2>1, OperandNew DEF Reads, Bin
  <2> QED
    BY <2>1, <2>2, ShiftE
<1>4. CASE Not
  <2>1. Scans /\ Shift(Un("!", pos)) /\ Operand(Un("!", pos))
    BY <1>4, OperandNew DEF Not, Reads, Un
  <2> QED
    BY <2>1, ShiftE
<1>5. CASE Minus
  <2>1. Scans /\ outcome = "run" /\ Top.kind \in Expressions
    BY <1>5 DEF Minus, Reads, Scans
  <2>2. \/ Ends("fault") /\ Nodes # <<>> /\ Last(Nodes) = NULL
        \/ Shift(Bin("-", pos)) \/ Shift(Un("-", pos))
    BY <1>5 DEF Minus
  <2>3. CASE Ends("fault") /\ Nodes # <<>> /\ Last(Nodes) = NULL
    <3>1. Len(Nodes) \in 1 .. Len(Nodes) /\ Last(Nodes) = Nodes[Len(Nodes)]
      BY <2>1, <2>3, EFacts, ListedFacts DEF Last
    <3> QED
      BY <2>1, <2>3, <3>1, NullSeen, FaultE
  <2>4. Operand(Bin("-", pos)) /\ Operand(Un("-", pos))
    BY OperandNew DEF Bin, Un
  <2> QED
    BY <2>1, <2>2, <2>3, <2>4, ShiftE
<1> QED
  BY <1>1, <1>2, <1>3, <1>4, <1>5

LEMMA Successor ==
  ASSUME NEW m \in Nat, NEW n, n = m + 1
  PROVE  n - 1 = m /\ n \in Nat
OBVIOUS

(* A call of kind is begun by an expression, with its own d. *)
LEMMA OpenE ==
  ASSUME EInv, Scans, NEW d, Good(d), d.kind = Top.kind,
         NEW kind \in {"PARS", "SQBRAS", "LIST", "DICT", "FUNC_CALL"}, NEW skip \in {1, 2},
         Begin(Call(kind, pos), SetTop(d), skip),
         kind = "PARS" => Peek = "(" /\ skip = 1,
         kind = "SQBRAS" => Peek = "[" /\ skip = 1,
         kind = "DICT" => ItemBehind'
  PROVE  EGoal
<1> DEFINE c == Call(kind, pos)
<1>1. outcome = "run" /\ Top.kind \in Expressions /\ d.kind \notin Sequences
  BY DEF Scans, Expressions, Sequences
<1>2. c.kind = kind /\ kind \notin {"STMT", "COND", "ARGS"}
  BY GoodNew
<1>3. /\ calls' = Append(SetTop(d), c) /\ pos' = pos + skip /\ toks' = toks
      /\ outcome' = outcome
  BY Zenon DEF Begin
<1>4. pos \in Nat /\ pos' \in Nat /\ (skip = 1 => pos' - 1 = pos)
  BY <1>1, <1>3, EFacts
<1>5. Adjacent(d, c)
  BY <1>1, <1>2, Zenon DEF Adjacent
<1>6. Top' = c
  BY <1>1, <1>3, BeginTop
<1> HIDE DEF c
<1>7. skip = 1 => Behind' = Peek
  BY <1>3, <1>4, Zenon DEF Behind, Peek, At
<1>8. Began' /\ DictReady'
  BY <1>2, <1>6, <1>7, Zenon DEF Began, DictReady
<1>9. EInv'
  BY <1>1, <1>3, <1>4, <1>5, <1>8, BeginE, Zenon DEF c
<1> QED
  BY <1>1, <1>3, <1>9 DEF EGoal

LEMMA BracketE ==
  ASSUME EInv, FuncCall \/ Group \/ Dict \/ List \/ Index
  PROVE  EGoal
<1>0. Scans /\ outcome = "run" /\ pos \in Nat
  BY EFacts DEF FuncCall, Group, Dict, List, Index, Reads, Scans
<1>1. SetTop(Top) = calls /\ Good(Top)
  BY <1>0, SameTopE, EFacts
<1>2. CASE FuncCall
  <2>1. Begin(Call("FUNC_CALL", pos), SetTop(Top), 2)
    BY <1>1, <1>2 DEF FuncCall
  <2> QED
    BY <1>0, <1>1, <2>1, OpenE
<1>3. CASE Group
  <2>1. Begin(Call("PARS", pos), SetTop(Top), 1) /\ Peek = "("
    BY <1>1, <1>3 DEF Group, Reads
  <2> QED
    BY <1>0, <1>1, <2>1, OpenE
<1>4. CASE List
  <2>1. Begin(Call("LIST", pos), SetTop(Top), 1)
    BY <1>1, <1>4 DEF List
  <2> QED
    BY <1>0, <1>1, <2>1, OpenE
<1>5. CASE Index
  <2> DEFINE d == With(Top, Bin("[", pos))
  <2>1. Begin(Call("SQBRAS", pos), SetTop(d), 1) /\ Peek = "["
    BY <1>5 DEF Index, Reads
  <2>2. Operand(Bin("[", pos))
    BY OperandNew DEF Bin
  <2>3. Good(d) /\ d.kind = Top.kind
    BY <1>1, <2>2, GoodWith
  <2> HIDE DEF d
  <2> QED
    BY <1>0, <2>1, <2>3, OpenE
<1>6. CASE Dict
  <2>1. Begin(Call("DICT", pos), SetTop(Top), 1) /\ Peek = "{"
    BY <1>1, <1>6, Zenon DEF Dict, Reads
  <2>2. pos' = pos + 1 /\ toks' = toks
    BY <2>1, Zenon DEF Begin
  <2>3. pos' - 1 = pos
    BY <1>0, <2>2, Successor, Zenon
  <2>4. ItemBehind'
    BY <2>1, <2>2, <2>3, Zenon DEF ItemBehind, Behind, Peek, At
  <2> QED
    BY <1>0, <1>1, <2>1, <2>4, OpenE, Zenon
<1> QED
  BY <1>2, <1>3, <1>4, <1>5, <1>6

LEMMA PlusZero ==
  ASSUME NEW m \in Nat
  PROVE  m + 0 = m
OBVIOUS

LEMMA SeqNotExpr ==
  ASSUME NEW kind \in Sequences
  PROVE  kind \notin Expressions
BY DEF Sequences, Expressions

LEMMA CallsKept ==
  ASSUME EInv, outcome = "run", calls' = calls, toks' = toks, pos' \in Nat,
         Began', DictReady'
  PROVE  EInv'
<1> DEFINE k == Len(calls)
<1>1. k \in Nat /\ k > 0 /\ Listed(calls) /\ calls # <<>>
  BY EFacts DEF EInv
<1>2. /\ \A n \in 1 .. k : calls'[n] = calls[n]
      /\ k <= Len(calls) /\ k <= Len(calls')
  BY <1>1
<1>3. (\A n \in k + 1 .. k : FALSE) /\ (\A n \in k .. k - 1 : FALSE)
  BY <1>1
<1>4. Len(calls') = k
  OBVIOUS
<1> HIDE DEF k
<1>5. /\ \A n \in k + 1 .. Len(calls') : Good(calls'[n])
      /\ \A n \in k .. Len(calls') - 1 : n > 0 => Adjacent(calls'[n], calls'[n + 1])
  BY <1>3, <1>4, Zenon
<1> QED
  BY <1>1, <1>2, <1>5, KeepE

LEMMA ItemE ==
  ASSUME EInv, Item
  PROVE  EGoal
<1> DEFINE c == Call("ARGS", pos)
<1>1. /\ outcome = "run" /\ Top.kind \in Sequences /\ Peek \notin {",", Closing(Top.kind)}
      /\ Begin(c, calls, 0)
  BY Zenon DEF Item, Collects
<1>2. SetTop(Top) = calls /\ Good(Top) /\ pos \in Nat /\ Top = calls[Len(calls)]
  BY <1>1, SameTopE, EFacts
<1>3. c.kind = "ARGS"
  BY GoodNew
<1>4. pos + 0 = pos
  BY <1>2, Zenon, PlusZero
<1>5. /\ calls' = Append(SetTop(Top), c) /\ pos' = pos /\ toks' = toks /\ outcome' = outcome
  BY <1>1, <1>2, <1>4, Zenon DEF Begin
<1>6. Adjacent(Top, c)
  <2>1. Top.kind \notin Expressions
    BY <1>1 DEF Sequences, Expressions
  <2> QED
    BY <1>1, <1>3, <2>1, Zenon DEF Adjacent
<1>7. Top' = c /\ Len(calls') - 1 = Len(calls) /\ calls'[Len(calls)] = Top
  BY <1>1, <1>5, BeginTop
<1> HIDE DEF c
<1>8. Top.kind = "DICT" => BeginsItem
  BY <1>1, Zenon DEF EInv, DictReady, BeginsItem, Closing
<1>9. BeginsItem' <=> BeginsItem
  BY <1>5, Zenon DEF BeginsItem, ItemBehind, Behind, Peek, At
<1>10. Began' /\ DictReady'
  BY <1>3, <1>7, <1>8, <1>9, Zenon DEF Began, DictReady
<1>11. EInv'
  BY <1>1, <1>2, <1>5, <1>6, <1>10, BeginE, Zenon DEF c
<1> QED
  BY <1>1, <1>5, <1>11 DEF EGoal

LEMMA CommaE ==
  ASSUME EInv, Comma
  PROVE  EGoal
<1>1. outcome = "run" /\ Top.kind \in Sequences /\ Peek = ","
  BY Zenon DEF Comma, Collects
<1>2. \/ Ends("error")
      \/ pos' = pos + 1 /\ UNCHANGED <<toks, calls, outcome>>
  BY Zenon DEF Comma
<1>3. CASE Ends("error")
  BY <1>3, FaultE
<1>4. CASE pos' = pos + 1 /\ UNCHANGED <<toks, calls, outcome>>
  <2>1. pos \in Nat /\ Len(calls) \in Nat /\ Listed(calls) /\ calls # <<>>
    BY <1>1, EFacts, Zenon DEF EInv
  <2>2. pos' - 1 = pos /\ pos' \in Nat
    BY <1>4, <2>1, Successor, Zenon
  <2>3. ItemBehind'
    BY <1>1, <1>4, <2>2, Zenon DEF ItemBehind, Behind, Peek, At
  <2>4. Top' = Top
    BY <1>4, Zenon DEF Top
  <2>5. Top.kind \notin Expressions
    BY <1>1, Zenon, SeqNotExpr
  <2>6. Began' /\ DictReady'
    BY <2>3, <2>4, <2>5, Zenon DEF Began, DictReady
  <2>7. EInv'
    BY <1>1, <1>4, <2>1, <2>2, <2>6, CallsKept, Zenon
  <2> QED
    BY <1>1, <1>4, <2>7, Zenon DEF EGoal
<1> QED
  BY <1>2, <1>3, <1>4, Zenon

(* What ends brackets that have nothing in them *)
LEMMA StoppedEmpty ==
  ASSUME EInv, Stopped, Nodes = <<>>
  PROVE  \/ EmptyBrackets
         \/ Top.kind \notin {"PARS", "SQBRAS"} \cup Sequences
              /\ (Top.kind = "ARGS" /\ Front(calls) # <<>>
                    => Last(Front(calls)).kind # "DICT")
<1>1. outcome = "run" /\ Top.kind \in Expressions /\ Top.i = 0 /\ Peek \in Stop(Top.kind)
  BY Zenon DEF Stopped, Scans, AtEnd
<1>2. toks \in Seq(Token) /\ pos \in Nat /\ Began
  BY Zenon DEF EInv
<1>3. CASE Top.kind = "PARS"
  <2>1. Behind = "(" /\ Peek = ")"
    BY <1>1, <1>2, <1>3, Zenon DEF Began, Stop
  <2>2. <<"(", ")">> \in Empty
    BY Zenon DEF Empty
  <2> QED
    BY <1>2, <2>1, <2>2, PairEmpty
<1>4. CASE Top.kind = "SQBRAS"
  <2>1. Behind = "[" /\ Peek = "]"
    BY <1>1, <1>2, <1>4, Zenon DEF Began, Stop
  <2>2. <<"[", "]">> \in Empty
    BY Zenon DEF Empty
  <2> QED
    BY <1>2, <2>1, <2>2, PairEmpty
<1>5. CASE Top.kind = "ARGS" /\ calls[Len(calls) - 1].kind = "DICT"
  <2>1. Behind \in {"{", ","} /\ Peek \in {"]", ")"}
    BY <1>1, <1>2, <1>5, Zenon DEF Began, BeginsItem, ItemBehind, Stop
  <2>2. <<Behind, Peek>> \in Empty /\ Behind # "past" /\ Peek # "past"
    BY <2>1, Zenon DEF Empty
  <2> HIDE <2>1
  <2> QED
    BY <1>2, <2>2, PairEmpty, Zenon
<1>6. CASE Top.kind = "ARGS" /\ calls[Len(calls) - 1].kind # "DICT"
  <2>1. Front(calls) # <<>> => Last(Front(calls)) = calls[Len(calls) - 1]
    BY <1>1, FrontFacts, EFacts
  <2> QED
    BY <1>6, <2>1, Zenon DEF Sequences
<1>7. Top.kind \notin Sequences
  BY <1>1 DEF Sequences, Expressions
<1> QED
  BY <1>3, <1>4, <1>5, <1>6, <1>7, Zenon

(* The nodes that a step of parse_expand leaves *)
LEMMA NodesE ==
  ASSUME EInv, outcome = "run", Top.kind \in Expressions, NEW c, Record(c),
         c.kind = Top.kind, c.i \in Nat, c.i # 0 \/ c.nodes # <<>>, Listed(c.nodes),
         \A j \in 1 .. Len(c.nodes) : Operand(c.nodes[j]),
         calls' = SetTop(c), UNCHANGED <<toks, pos, outcome>>
  PROVE  EGoal
<1>1. Good(c)
  BY DEF Good, Entry, Known
<1>2. Calm(c)
  BY DEF Calm, Expressions
<1>3. pos' \in Nat
  BY EFacts
<1>4. EInv'
  BY <1>1, <1>2, <1>3, GoE
<1> QED
  BY <1>4 DEF EGoal

LEMMA PassE ==
  ASSUME EInv, outcome = "run", Top.kind \in Expressions, NEW b,
         calls' = SetTop([Top EXCEPT !.i = 1, !.before = b]),
         UNCHANGED <<toks, pos, outcome>>
  PROVE  EGoal
<1> DEFINE d == [Top EXCEPT !.i = 1]
           c == [Top EXCEPT !.i = 1, !.before = b]
<1>1. Good(Top)
  BY EFacts
<1>2. c = [d EXCEPT !.before = b]
  BY <1>1 DEF Good, Entry, Record
<1>3. Record(d) /\ d.nodes = Top.nodes /\ d.kind = Top.kind /\ d.i = 1
  BY <1>1, Changed DEF Good, Entry
<1> HIDE DEF d
<1>4. calls' = SetTop(c)
  OBVIOUS
<1> HIDE DEF c
<1>5. Record(c) /\ c.nodes = Top.nodes /\ c.kind = Top.kind /\ c.i = 1
  <2> DEFINE e == [d EXCEPT !.before = b]
  <2>1. Record(e) /\ e.nodes = d.nodes /\ e.kind = d.kind /\ e.i = d.i
    BY <1>3, Changed
  <2>2. c = e
    BY <1>2
  <2> HIDE DEF e
  <2> QED
    BY <1>3, <2>1, <2>2
<1>6. Listed(c.nodes) /\ \A j \in 1 .. Len(c.nodes) : Operand(c.nodes[j])
  BY <1>1, <1>5, NullSeen DEF Nodes, Good, Entry
<1>7. c.i # 0 /\ c.i \in Nat
  BY <1>5
<1> QED
  BY <1>4, <1>5, <1>6, <1>7, NodesE

LEMMA StoppedE ==
  ASSUME EInv, Stopped
  PROVE  EGoal
<1>1. outcome = "run" /\ Top.kind \in Expressions
  BY Zenon DEF Stopped, Scans
<1>2. CASE Nodes = <<>>
  <2>1. Return(NULL)
    BY <1>2 DEF Stopped
  <2> QED
    BY <1>1, <1>2, <2>1, StoppedEmpty, ReturnE DEF EGoal
<1>3. CASE Nodes # <<>>
  <2>1. /\ calls' = SetTop([Top EXCEPT !.i = 1, !.before = Len(Nodes)])
        /\ UNCHANGED <<toks, pos, outcome>>
    BY <1>3, Zenon DEF Stopped
  <2> QED
    BY <1>1, <2>1, PassE
<1> QED
  BY <1>2, <1>3

LEMMA CloseE ==
  ASSUME EInv, Close
  PROVE  EGoal
<1> DEFINE n == Node(Top.kind, At(Top.at), Top.at, Nodes)
<1>1. outcome = "run" /\ Top.kind \in Sequences /\ Return(n)
  BY Zenon DEF Close, Collects
<1>2. Operand(n) /\ n # NULL
  <2>1. Top.kind # "NULL"
    BY <1>1 DEF Sequences
  <2> QED
    BY <2>1, OperandNew
<1> HIDE DEF n
<1> QED
  BY <1>1, <1>2, ReturnE DEF EGoal

LEMMA SingleE ==
  ASSUME EInv, Single
  PROVE  EGoal
<1>1. outcome = "run" /\ Top.kind \in Expressions /\ Return(Nodes[1]) /\ Len(Nodes) = 1
  BY Zenon DEF Single, Expands
<1>2. Operand(Nodes[1]) /\ (Nodes[1] = NULL => EmptyBrackets)
  <2>1. 1 \in 1 .. Len(Nodes)
    BY <1>1
  <2> QED
    BY <1>1, <2>1, NullSeen
<1> QED
  BY <1>1, <1>2, ReturnE DEF EGoal

LEMMA SkipOpE ==
  ASSUME EInv, SkipOp
  PROVE  EGoal
<1> DEFINE c == [Top EXCEPT !.i = I + 1]
<1>1. /\ outcome = "run" /\ Top.kind \in Expressions /\ Len(Nodes) > 1
      /\ calls' = SetTop(c) /\ UNCHANGED <<toks, pos, outcome>>
  BY Zenon DEF SkipOp, Visits, Expands, I
<1>2. Good(Top)
  BY <1>1, EFacts
<1>3. Top.nodes # <<>>
  <2>1. Nodes # <<>>
    BY <1>1
  <2> QED
    BY <2>1 DEF Nodes
<1>4. Record(c) /\ c.nodes = Top.nodes /\ c.kind = Top.kind /\ c.i = I + 1
  BY <1>2, Changed DEF Good, Entry
<1>6. c.i \in Nat
  BY <1>1, <1>4, EFacts DEF I
<1> HIDE DEF c
<1>5. Listed(c.nodes) /\ \A j \in 1 .. Len(c.nodes) : Operand(c.nodes[j])
  BY <1>1, <1>2, <1>4, NullSeen DEF Nodes, Good, Entry
<1> QED
  BY <1>1, <1>3, <1>4, <1>5, <1>6, NodesE

LEMMA RemovedFrom ==
  ASSUME NEW s, Listed(s), NEW n \in 1 .. Len(s), NEW m \in 1 .. Len(RemoveAt(s, n))
  PROVE  \E q \in 1 .. Len(s) : RemoveAt(s, n)[m] = s[q]
<1> DEFINE a == SubSeq(s, 1, n - 1)
           b == SubSeq(s, n + 1, Len(s))
           t == RemoveAt(s, n)
<1>1. Len(s) \in Nat /\ DOMAIN s = 1 .. Len(s) /\ s \in Seq(Range(s))
      /\ \A j \in 1 .. Len(s) : s[j] \in Range(s)
  BY ListedFacts, ElementOfSeq DEF Listed
<1>2. /\ \A j \in 1 .. n - 1 : s[j] \in Range(s)
      /\ \A j \in n + 1 .. Len(s) : s[j] \in Range(s)
  BY <1>1
<1>3. a \in Seq(Range(s))
  BY <1>1, <1>2, SubSeqProperties
<1>4. b \in Seq(Range(s))
  BY <1>1, <1>2, SubSeqProperties
<1>5. t = a \o b
  BY DEF RemoveAt
<1> HIDE DEF a, b, t
<1>6. t \in Seq(Range(s))
  BY <1>3, <1>4, <1>5, ConcatProperties
<1>7. m \in 1 .. Len(t)
  BY DEF t
<1>8. t[m] \in Range(s)
  BY <1>6, <1>7, ElementOfSeq
<1> QED
  BY <1>1, <1>8 DEF Range, t

(* The index of parse_expand is that of a node, and so is a neighbour read. *)
LEMMA VisitFacts ==
  ASSUME EInv, Visits
  PROVE  /\ outcome = "run" /\ Top.kind \in Expressions /\ Good(Top)
         /\ I \in 1 .. Len(Nodes) /\ Len(Nodes) \in Nat /\ DOMAIN Nodes = 1 .. Len(Nodes)
         /\ Len(Nodes) > 1 /\ Listed(Nodes)
<1>1. outcome = "run" /\ Top.kind \in Expressions /\ I > 0 /\ I <= Len(Nodes) /\ Len(Nodes) > 1
  BY Zenon DEF Visits, Expands, I
<1>2. Good(Top) /\ Len(Nodes) \in Nat /\ Listed(Nodes) /\ Top.i \in Nat
  BY <1>1, EFacts
<1>3. DOMAIN Nodes = 1 .. Len(Nodes)
  BY <1>2, ListedFacts
<1>4. I \in 1 .. Len(Nodes)
  BY <1>1, <1>2 DEF I
<1> QED
  BY <1>1, <1>2, <1>3, <1>4

LEMMA MisplacedE ==
  ASSUME EInv, Misplaced
  PROVE  EGoal
<1>1. Visits /\ Trouble # "run" /\ Ends(Trouble)
  BY Zenon DEF Misplaced
<1>2. /\ outcome = "run" /\ Top.kind \in Expressions /\ I \in 1 .. Len(Nodes)
      /\ DOMAIN Nodes = 1 .. Len(Nodes)
  BY <1>1, VisitFacts
<1>3. \A j : Neighbour(j) \in {"run", "fault", "error"}
             /\ (Neighbour(j) = "fault" => j \in 1 .. Len(Nodes) /\ Nodes[j] = NULL)
  BY <1>2 DEF Neighbour
<1>4. /\ Trouble \in {"run", "fault", "error"}
      /\ Trouble = "fault" => \/ Nodes[I] = NULL
                              \/ Neighbour(I - 1) = "fault" \/ Neighbour(I + 1) = "fault"
  BY <1>3, Zenon DEF Trouble
<1>5. Trouble = "fault" => \E j \in 1 .. Len(Nodes) : Nodes[j] = NULL
  BY <1>2, <1>3, <1>4, Zenon
<1>6. Trouble = "fault" => EmptyBrackets
  BY <1>2, <1>5, NullSeen
<1>7. Trouble \in {"done", "error", "fault", "past", "overflow"}
  BY <1>1, <1>4
<1> QED
  BY <1>1, <1>6, <1>7, FaultE

(* A node that is given an operand is an operator, and stays one. *)
LEMMA SetValE ==
  ASSUME NEW e, Operand(e), e.kind \in Operators, NEW n, NEW left
  PROVE  Operand(SetVal(e, n, left))
<1> DEFINE d == SetVal(e, n, left)
<1>1. e = [kind |-> e.kind, op |-> e.op, at |-> e.at, args |-> e.args]
  BY DEF Operand
<1>2. d = [kind |-> d.kind, op |-> d.op, at |-> d.at, args |-> d.args] /\ d.kind = e.kind
  BY <1>1 DEF SetVal
<1> HIDE DEF d
<1>3. d # NULL
  <2>1. NULL.kind = "NULL"
    BY DEF NULL, Node
  <2> QED
    BY <1>2, <2>1 DEF Operators
<1>4. Operand(d)
  BY <1>2, <1>3 DEF Operand
<1> QED
  BY <1>4 DEF d

LEMMA AttachE ==
  ASSUME EInv, Attach
  PROVE  EGoal
<1> DEFINE left == ~(lpr > rpr)
           j == IF left THEN I + 1 ELSE I - 1
           e == SetVal(Nodes[j], Nodes[I], left)
           p == Put(Nodes, j, e)
           s == Attached(left)
           c == [Top EXCEPT !.nodes = s]
<1>1. Visits /\ Trouble = "run" /\ calls' = SetTop(c) /\ UNCHANGED <<toks, pos, outcome>>
  BY Zenon DEF Attach
<1>2. /\ outcome = "run" /\ Top.kind \in Expressions /\ Good(Top)
      /\ I \in 1 .. Len(Nodes) /\ Len(Nodes) \in Nat /\ DOMAIN Nodes = 1 .. Len(Nodes)
      /\ Len(Nodes) > 1 /\ Listed(Nodes)
  BY <1>1, VisitFacts
<1>3. s = RemoveAt(p, I)
  BY DEF Attached, Put
<1>4. Neighbour(j) = "run"
  <2>1. Neighbour(I - 1) = "run" /\ Neighbour(I + 1) = "run"
    BY <1>1, Zenon DEF Trouble
  <2> HIDE DEF left
  <2> QED
    BY <2>1
<1> HIDE DEF left, j
<1>5. j \in 1 .. Len(Nodes) => Operand(e)
  <2>1. j \in 1 .. Len(Nodes) => Nodes[j].kind \in Operators
    BY <1>2, <1>4 DEF Neighbour
  <2>2. j \in 1 .. Len(Nodes) => Operand(Nodes[j])
    BY <1>2, NullSeen
  <2> QED
    BY <2>1, <2>2, SetValE
<1> HIDE DEF e
<1>6. /\ Listed(p) /\ Len(p) = Len(Nodes)
      /\ \A m \in 1 .. Len(Nodes) : p[m] = IF m = j THEN e ELSE Nodes[m]
  BY <1>2, ListedExcept
<1> HIDE DEF p
<1>7. \A m \in 1 .. Len(p) : Operand(p[m])
  <2>1. \A m \in 1 .. Len(Nodes) : Operand(Nodes[m])
    BY <1>2, NullSeen, SMTT(30)
  <2> QED
    BY <1>5, <1>6, <2>1
<1>8. Listed(s) /\ Len(s) = Len(Nodes) - 1
  BY <1>2, <1>3, <1>6, ListedRemove
<1>9. \A m \in 1 .. Len(s) : Operand(s[m])
  <2>1. I \in 1 .. Len(p)
    BY <1>2, <1>6
  <2>2. \A m \in 1 .. Len(s) : \E q \in 1 .. Len(p) : s[m] = p[q]
    BY <1>3, <1>6, <2>1, RemovedFrom
  <2> QED
    BY <1>7, <2>2
<1> HIDE DEF s
<1>10. s # <<>>
  <2>1. Len(s) # 0
    BY <1>2, <1>8
  <2> QED
    BY <2>1, EmptySeq
<1>11. Record(c) /\ c.nodes = s /\ c.kind = Top.kind /\ c.i = Top.i
  BY <1>2, Changed, ZenonT(30) DEF Good, Entry
<1>12. c.i \in Nat
  BY <1>2, <1>11, EFacts
<1> HIDE DEF c
<1> QED
  BY <1>1, <1>2, <1>8, <1>9, <1>10, <1>11, <1>12, NodesE

LEMMA EndsE ==
  ASSUME EInv, PassDone \/ IndexOfNull \/ Unexpected
  PROVE  EGoal
<1>1. CASE PassDone
  <2>1. Top.kind \in Expressions /\ outcome = "run"
    BY <1>1 DEF PassDone, Expands
  <2> QED
    BY <1>1, <2>1, PassE, FaultE DEF PassDone
<1>2. CASE IndexOfNull
  <2>1. Top.kind \in Expressions /\ outcome = "run" /\ ReadsNull /\ Ends("fault")
    BY <1>2, Zenon DEF IndexOfNull, Reads, Scans
  <2>2. DOMAIN Nodes = 1 .. Len(Nodes)
    BY <2>1, EFacts, ListedFacts
  <2>3. EmptyBrackets
    BY <2>1, <2>2, NullSeen DEF ReadsNull
  <2> QED
    BY <2>1, <2>3, FaultE
<1>3. CASE Unexpected
  <2>1. Ends("error")
    BY <1>3, Zenon DEF Unexpected
  <2> QED
    BY <2>1, FaultE
<1> QED
  BY <1>1, <1>2, <1>3

(* Every step of the expression parser keeps the invariant, and reads NULL *)
(* only where it says that brackets are empty.                             *)
LEMMA ExprE ==
  ASSUME EInv, ExprNext
  PROVE  EGoal
BY TokenE, BracketE, EndsE, StoppedE, CommaE, ItemE, CloseE, SingleE, SkipOpE, MisplacedE,
   AttachE DEF ExprNext

LEMMA TokensKept ==
  ASSUME ExprNext
  PROVE  toks' = toks
<1>1. \A n, how, c, s, k : Shift(n) \/ Ends(how) \/ Return(n) \/ Begin(c, s, k) => toks' = toks
  BY Zenon DEF Shift, Ends, Return, Begin
<1>2. CASE Literal \/ Variable \/ FuncCall \/ BinOp \/ Not \/ Minus \/ Group \/ Dict \/ Index
  BY <1>1, <1>2, Zenon DEF Literal, Variable, FuncCall, BinOp, Not, Minus, Group, Dict, Index
<1>3. CASE List \/ IndexOfNull \/ Unexpected \/ Stopped \/ Comma \/ Item \/ Close \/ Single
  BY <1>1, <1>3, Zenon DEF List, IndexOfNull, Unexpected, Stopped, Comma, Item, Close, Single
<1>4. CASE SkipOp \/ Misplaced \/ Attach \/ PassDone
  BY <1>1, <1>4, Zenon DEF SkipOp, Misplaced, Attach, PassDone
<1> QED
  BY <1>2, <1>3, <1>4, Zenon DEF ExprNext

LEMMA InitE ==
  ASSUME Init
  PROVE  EInv
<1> DEFINE c == Call("STMT", 1)
<1>1. toks \in Seq(Token) /\ pos \in Nat
  <2>1. toks \in Seq(Token) /\ pos \in 1 .. Len(toks)
    BY InitP DEF PInv, Ended
  <2> QED
    BY <2>1
<1>2. Good(c) /\ c.kind = "STMT" /\ calls = <<c>>
  BY GoodNew DEF Init
<1> HIDE DEF c
<1>3. <<c>> \in Seq({c}) /\ Len(<<c>>) = 1 /\ <<c>>[1] = c
  OBVIOUS
<1>4. Listed(calls) /\ Len(calls) = 1 /\ calls[1] = c
  BY <1>2, <1>3, ListedIn
<1>5. Top = c /\ calls # <<>>
  BY <1>4, EmptySeq DEF Top, Last
<1>6. /\ \A n \in 1 .. Len(calls) : n = 1
      /\ \A n \in 1 .. Len(calls) - 1 : FALSE
  BY <1>4
<1>7. Began /\ DictReady
  BY <1>2, <1>5, Zenon DEF Began, DictReady
<1> QED
  BY <1>1, <1>2, <1>4, <1>5, <1>6, <1>7 DEF EInv

(* Whatever expression is parsed, NULL is read for a node by parse_expr,   *)
(* parse_expand or parse_dict (src/parser.c) only if brackets of it are    *)
(* empty where a value is needed, or a dict is closed by another bracket.  *)
THEOREM NullFromEmpty == Spec => []FaultsOnEmpty
<1> DEFINE Inv == EInv /\ FaultsOnEmpty
<1>1. Init => Inv
  BY InitE DEF Init, FaultsOnEmpty
<1>2. ASSUME Inv, [Next]_vars PROVE Inv'
  <2>1. CASE ExprNext
    BY <1>2, <2>1, ExprE, TokensKept DEF EGoal, FaultsOnEmpty, EmptyBrackets
  <2>2. CASE UNCHANGED vars
    <3>1. UNCHANGED <<toks, pos, calls, outcome>>
      BY <2>2 DEF vars
    <3>2. FaultsOnEmpty'
      BY <1>2, <3>1 DEF FaultsOnEmpty, EmptyBrackets
    <3> QED
      BY <1>2, <3>1, <3>2, SameE
  <2> QED
    BY <1>2, <2>1, <2>2 DEF Next, Finished
<1> QED
  BY <1>1, <1>2, PTL DEF Spec
=============================================================================
