-------------------------- MODULE StmtParser_proofs --------------------------
(***************************************************************************)
(* Where the statement parser reads a NULL, for all programs and files: a  *)
(* body behind => looks at its statement without asking whether there is   *)
(* one.  The invariant ties every active call to the file it reads, and a  *)
(* body behind => to the tokens its statement began with.                  *)
(* And where it reads behind the end of a file: the invariant ties every   *)
(* call to how far its file has been read.                                 *)
(***************************************************************************)
EXTENDS StmtParser, ExprParser_proofs

-----------------------------------------------------------------------------
(* The calls and the files they read.                                      *)

Statements == {"VAR_DEF", "VAR_MUT", "RET", "IF", "WHILE", "FOR", "FOREACH", "FUNC_DEF"}
Outer      == Statements \cup Bodies

TokenAt(t, k) == IF k \in DOMAIN t THEN t[k] ELSE "past"

\* What the statement at token k of file t begins with, or an import
BeginsAs(t, k, kind) ==
  /\ kind = "Prog" => TokenAt(t, k) = "import"
  /\ kind = "IF" => TokenAt(t, k) = "if"
  /\ kind = "WHILE" => TokenAt(t, k) = "while"
  /\ kind \in {"FOR", "FOREACH"} => TokenAt(t, k) = "for"
  /\ kind = "FUNC_DEF" => TokenAt(t, k) = "fn"
  /\ kind = "VAR_DEF" => TokenAt(t, k) \in Id /\ TokenAt(t, k + 1) = ":="

Imported(c) == {"from", "back"} \subseteq DOMAIN c /\ c.from \in Seq(Token) /\ c.back \in Nat \ {0}

\* A call c that reads file f, below a call d that reads file g
Frame(c, f) == Entry(c) /\ f \in Seq(Token) /\ (c.kind = "ArrowEq" => TokenAt(f, c.at) = "=>")
Under(c, f, d, g) ==
  /\ Adjacent(c, d)
  /\ c.kind \in Bodies => d.kind \in Statements \cup {"Prog"}
  /\ d.kind = "Prog" => Imported(d)
  /\ f = IF d.kind = "Prog" THEN d.from ELSE g
  /\ c.kind = "ArrowEq" => c.i # 0 /\ BeginsAs(f, c.at + 1, d.kind)

\* The calls s read the files F.
Chain(s, F) == /\ Listed(s) /\ Listed(F) /\ Len(F) = Len(s)
               /\ \A n \in 1 .. Len(s) : Frame(s[n], F[n])
               /\ \A n \in 1 .. Len(s) - 1 : Under(s[n], F[n], s[n + 1], F[n + 1])
               /\ \A n \in 1 .. Len(s) : s[n].kind \in Outer => \A m \in 1 .. n : s[m].kind \in Outer
               /\ s # <<>> => s[1].kind = "Prog"
Traced(s, t) == \E F : Chain(s, F) /\ (s # <<>> => Last(F) = t)

\* A body behind => that is the innermost call
Ready == Top.kind = "ArrowEq" => /\ Top.i = 0 => pos = Top.at + 1
                                 /\ Top.i # 0 /\ Nodes = <<>> => At(Top.at + 1) = "import"

SInv == /\ toks \in Seq(Token) /\ pos \in Nat /\ Traced(calls, toks)
        /\ outcome = "run" => EInv /\ Ready

\* What a step that goes on in the same call leaves of it
Alike(c, d) == /\ Entry(c) /\ c.kind = d.kind
               /\ c.kind \in Bodies => /\ c.at = d.at
                                       /\ Imported(d) => /\ Imported(c)
                                                         /\ c.from = d.from /\ c.back = d.back

LEMMA ChainEnd ==
  ASSUME NEW s, NEW F, Chain(s, F), s # <<>>
  PROVE  /\ Len(s) \in Nat /\ Len(s) > 0 /\ Len(s) \in 1 .. Len(s) /\ F # <<>>
         /\ Last(s) = s[Len(s)] /\ Last(F) = F[Len(s)] /\ Frame(Last(s), Last(F))
<1>1. Listed(s) /\ Listed(F) /\ Len(F) = Len(s)
  BY DEF Chain
<1>2. Len(s) \in Nat /\ Len(s) > 0
  BY <1>1, ListedFacts
<1>3. Len(s) \in 1 .. Len(s) /\ Len(s) # 0
  BY <1>2
<1>4. Last(s) = s[Len(s)] /\ Last(F) = F[Len(s)]
  BY <1>1 DEF Last
<1>5. F # <<>>
  BY <1>1, <1>3, EmptySeq
<1> QED
  BY <1>2, <1>3, <1>4, <1>5 DEF Chain

LEMMA TracedFacts ==
  ASSUME NEW s, NEW t, Traced(s, t), s # <<>>
  PROVE  /\ Listed(s) /\ Len(s) \in Nat /\ Len(s) > 0 /\ Last(s) = s[Len(s)]
         /\ Frame(Last(s), t) /\ s[1].kind = "Prog"
         /\ \A n \in 1 .. Len(s) : Entry(s[n])
         /\ \A n \in 1 .. Len(s) - 1 : Adjacent(s[n], s[n + 1])
         /\ Last(s).kind \in Outer => \A n \in 1 .. Len(s) : s[n].kind \in Outer
<1>1. PICK F : Chain(s, F) /\ Last(F) = t
  BY DEF Traced
<1>2. /\ Len(s) \in Nat /\ Len(s) > 0 /\ Len(s) \in 1 .. Len(s)
      /\ Last(s) = s[Len(s)] /\ Frame(Last(s), Last(F))
  BY <1>1, ChainEnd
<1>3. Listed(s) /\ s[1].kind = "Prog"
  BY <1>1 DEF Chain
<1>4. \A n \in 1 .. Len(s) : Entry(s[n])
  BY <1>1 DEF Chain, Frame
<1>5. \A n \in 1 .. Len(s) - 1 : Adjacent(s[n], s[n + 1])
  BY <1>1 DEF Chain, Under
<1>6. Last(s).kind \in Outer => \A n \in 1 .. Len(s) : s[n].kind \in Outer
  BY <1>1, <1>2 DEF Chain
<1> QED
  BY <1>1, <1>2, <1>3, <1>4, <1>5, <1>6

(* The innermost call goes on. *)
LEMMA TracedTop ==
  ASSUME NEW s, NEW t, Traced(s, t), s # <<>>, NEW c, Alike(c, Last(s))
  PROVE  /\ Traced(Put(s, Len(s), c), t) /\ Put(s, Len(s), c) # <<>>
         /\ Last(Put(s, Len(s), c)) = c
<1> DEFINE k == Len(s)
           r == Put(s, k, c)
<1>1. PICK F : Chain(s, F) /\ Last(F) = t
  BY DEF Traced
<1>2. /\ k \in Nat /\ k > 0 /\ k \in 1 .. k
      /\ Last(s) = s[k] /\ Last(F) = F[k] /\ Frame(Last(s), Last(F)) /\ F # <<>>
  BY <1>1, ChainEnd
<1>3. Listed(s) /\ Listed(F) /\ Len(F) = k
  BY <1>1 DEF Chain
<1>4. Listed(r) /\ Len(r) = k /\ \A m \in 1 .. k : r[m] = IF m = k THEN c ELSE s[m]
  BY <1>3, ListedExcept
<1> HIDE DEF r
<1>5. r[k] = c /\ c.kind = s[k].kind
  BY <1>2, <1>4 DEF Alike
<1>6. \A m \in 1 .. k : r[m].kind = s[m].kind /\ (m # k => r[m] = s[m])
  BY <1>4, <1>5
<1>7. \A m \in 1 .. k : Frame(r[m], F[m])
  <2>1. Frame(c, F[k])
    BY <1>2 DEF Frame, Alike, Bodies
  <2>2. \A m \in 1 .. k : Frame(s[m], F[m])
    BY <1>1 DEF Chain
  <2> QED
    BY <1>5, <1>6, <2>1, <2>2
<1>8. ASSUME NEW m \in 1 .. k - 1 PROVE Under(r[m], F[m], r[m + 1], F[m + 1])
  <2>1. Under(s[m], F[m], s[m + 1], F[m + 1])
    BY <1>1 DEF Chain
  <2>2. m \in 1 .. k /\ m # k /\ m + 1 \in 1 .. k
    BY <1>2
  <2>3. r[m] = s[m]
    BY <1>6, <2>2
  <2>4. CASE m + 1 # k
    BY <1>6, <2>1, <2>2, <2>3, <2>4
  <2>5. CASE m + 1 = k
    <3>1. Under(s[m], F[m], Last(s), F[k])
      BY <1>2, <2>1, <2>5
    <3>2. Under(s[m], F[m], c, F[k])
      BY <3>1 DEF Under, Adjacent, Alike, Bodies
    <3> QED
      BY <1>5, <2>3, <2>5, <3>2
  <2> QED
    BY <2>4, <2>5
<1>9. \A n \in 1 .. k : r[n].kind \in Outer => \A m \in 1 .. n : r[m].kind \in Outer
  <2>1. \A n \in 1 .. k : \A m \in 1 .. n : m \in 1 .. k
    BY <1>2
  <2>2. \A n \in 1 .. k : s[n].kind \in Outer => \A m \in 1 .. n : s[m].kind \in Outer
    BY <1>1 DEF Chain
  <2> QED
    BY <1>6, <2>1, <2>2
<1>10. r[1].kind = "Prog"
  <2>1. 1 \in 1 .. k
    BY <1>2
  <2>2. s[1].kind = "Prog"
    BY <1>1 DEF Chain
  <2> QED
    BY <1>6, <2>1, <2>2
<1>11. Chain(r, F)
  BY <1>3, <1>4, <1>7, <1>8, <1>9, <1>10 DEF Chain
<1>12. r # <<>> /\ Last(r) = c
  <2>1. Len(r) # 0
    BY <1>2, <1>4
  <2>2. r # <<>>
    BY <2>1, EmptySeq
  <2> QED
    BY <1>4, <1>5, <2>2 DEF Last
<1>13. Traced(r, t)
  BY <1>1, <1>11 DEF Traced
<1> QED
  BY <1>12, <1>13 DEF r

(* A call begins. *)
LEMMA TracedPush ==
  ASSUME NEW s, NEW t, Traced(s, t), s # <<>>, NEW c, NEW u, Frame(c, u),
         Under(Last(s), t, c, u), c.kind \in Outer => Last(s).kind \in Outer
  PROVE  /\ Traced(Append(s, c), u) /\ Append(s, c) # <<>> /\ Last(Append(s, c)) = c
<1> DEFINE k == Len(s)
           r == Append(s, c)
<1>1. PICK F : Chain(s, F) /\ Last(F) = t
  BY DEF Traced
<1> DEFINE G == Append(F, u)
<1>2. /\ k \in Nat /\ k > 0 /\ k \in 1 .. k
      /\ Last(s) = s[k] /\ Last(F) = F[k]
  BY <1>1, ChainEnd
<1>3. Listed(s) /\ Listed(F) /\ Len(F) = k
  BY <1>1 DEF Chain
<1>4. Listed(r) /\ Len(r) = k + 1 /\ r[k + 1] = c /\ \A m \in 1 .. k : r[m] = s[m]
  BY <1>3, ListedAppend
<1>5. Listed(G) /\ Len(G) = k + 1 /\ G[k + 1] = u /\ \A m \in 1 .. k : G[m] = F[m]
  BY <1>3, ListedAppend
<1> HIDE DEF r, G
<1>6. \A m \in 1 .. k + 1 : m \in 1 .. k \/ m = k + 1
  BY <1>2
<1>7. \A m \in 1 .. k + 1 : Frame(r[m], G[m])
  <2>1. \A m \in 1 .. k : Frame(s[m], F[m])
    BY <1>1 DEF Chain
  <2> QED
    BY <1>4, <1>5, <1>6, <2>1
<1>8. ASSUME NEW m \in 1 .. k + 1 - 1 PROVE Under(r[m], G[m], r[m + 1], G[m + 1])
  <2>1. m \in 1 .. k /\ (m = k \/ (m \in 1 .. k - 1 /\ m + 1 \in 1 .. k))
    BY <1>2
  <2>2. CASE m = k
    BY <1>1, <1>2, <1>4, <1>5, <2>1, <2>2
  <2>3. CASE m \in 1 .. k - 1 /\ m + 1 \in 1 .. k
    <3>1. Under(s[m], F[m], s[m + 1], F[m + 1])
      BY <1>1, <2>3 DEF Chain
    <3> QED
      BY <1>4, <1>5, <2>1, <2>3, <3>1
  <2> QED
    BY <2>1, <2>2, <2>3
<1>9. ASSUME NEW n \in 1 .. k + 1, r[n].kind \in Outer, NEW m \in 1 .. n
      PROVE  r[m].kind \in Outer
  <2>1. \A j \in 1 .. k : s[j].kind \in Outer => \A i \in 1 .. j : s[i].kind \in Outer
    BY <1>1 DEF Chain
  <2>2. m \in 1 .. k \/ (m = k + 1 /\ n = m)
    BY <1>2
  <2>3. CASE m = k + 1 /\ n = m
    BY <1>9, <2>3
  <2>4. CASE m \in 1 .. k
    <3>1. CASE n \in 1 .. k
      BY <1>4, <1>9, <2>1, <2>4, <3>1
    <3>2. CASE n = k + 1
      BY <1>2, <1>4, <1>9, <2>1, <2>4, <3>2
    <3> QED
      BY <1>6, <3>1, <3>2
  <2> QED
    BY <2>2, <2>3, <2>4
<1>10. r[1].kind = "Prog"
  <2>1. 1 \in 1 .. k
    BY <1>2
  <2>2. s[1].kind = "Prog"
    BY <1>1 DEF Chain
  <2> QED
    BY <1>4, <2>1, <2>2
<1>11. Chain(r, G)
  BY <1>4, <1>5, <1>7, <1>8, <1>9, <1>10 DEF Chain
<1>12. r # <<>> /\ Last(r) = c /\ Last(G) = u
  <2>1. Len(r) # 0
    BY <1>2, <1>4
  <2>2. r # <<>>
    BY <2>1, EmptySeq
  <2> QED
    BY <1>4, <1>5, <2>2 DEF Last
<1>13. Traced(r, u)
  BY <1>11, <1>12 DEF Traced
<1> QED
  BY <1>12, <1>13 DEF r

(* The innermost call returns, to the file its caller reads. *)
LEMMA TracedPop ==
  ASSUME NEW s, NEW t, Traced(s, t), s # <<>>, NEW u,
         Front(s) # <<>> => u = IF Last(s).kind = "Prog" THEN Last(s).from ELSE t
  PROVE  /\ Traced(Front(s), u)
         /\ Front(s) # <<>> => Under(Last(Front(s)), u, Last(s), t)
         /\ Last(s).kind # "Prog" => Front(s) # <<>>
<1> DEFINE k == Len(s) - 1
           r == Front(s)
<1>1. PICK F : Chain(s, F) /\ Last(F) = t
  BY DEF Traced
<1> DEFINE G == Front(F)
<1>2. /\ Len(s) \in Nat /\ Len(s) > 0 /\ F # <<>> /\ Len(s) \in 1 .. Len(s)
      /\ Last(s) = s[Len(s)] /\ Last(F) = F[Len(s)]
  BY <1>1, ChainEnd
<1>3. Listed(s) /\ Listed(F) /\ Len(F) = Len(s)
  BY <1>1 DEF Chain
<1>4. /\ Listed(r) /\ Len(r) = k /\ k \in Nat /\ \A m \in 1 .. k : r[m] = s[m]
      /\ r # <<>> => k > 0 /\ k \in 1 .. k /\ Last(r) = s[k]
  BY <1>3, FrontFacts
<1>5. /\ Listed(G) /\ Len(G) = k /\ \A m \in 1 .. k : G[m] = F[m]
      /\ G # <<>> => Last(G) = F[k]
  BY <1>2, <1>3, FrontFacts
<1>6. r # <<>> => G # <<>>
  BY <1>4, <1>5, EmptySeq
<1>7. r = <<>> => Len(s) = 1
  BY <1>2, <1>4, EmptySeq
<1> HIDE DEF r, G
<1>8. k > 0 => k \in 1 .. Len(s) - 1 /\ k + 1 = Len(s) /\ 1 \in 1 .. k
  BY <1>2
<1>9. /\ \A m \in 1 .. k : m \in 1 .. Len(s)
      /\ \A m \in 1 .. k - 1 : m \in 1 .. k /\ m + 1 \in 1 .. k /\ m \in 1 .. Len(s) - 1
      /\ \A n \in 1 .. k : \A m \in 1 .. n : m \in 1 .. k
  BY <1>2
<1>10. k > 0 => Under(s[k], F[k], Last(s), t)
  BY <1>1, <1>2, <1>8 DEF Chain
<1> HIDE DEF k
<1>11. r # <<>> => Under(Last(r), u, Last(s), t) /\ Last(G) = u
  <2>1. ASSUME r # <<>> PROVE Under(Last(r), u, Last(s), t) /\ Last(G) = u
    <3>1. Under(s[k], F[k], Last(s), t)
      BY <1>4, <1>10, <2>1
    <3>2. F[k] = u
      BY <2>1, <3>1 DEF Under, r
    <3> QED
      BY <1>4, <1>5, <1>6, <2>1, <3>1, <3>2
  <2> QED
    BY <2>1
<1>12. Chain(r, G)
  <2>1. \A m \in 1 .. k : Frame(r[m], G[m])
    BY <1>1, <1>4, <1>5, <1>9 DEF Chain
  <2>2. \A m \in 1 .. k - 1 : Under(r[m], G[m], r[m + 1], G[m + 1])
    BY <1>1, <1>4, <1>5, <1>9 DEF Chain
  <2>3. \A n \in 1 .. k : r[n].kind \in Outer => \A m \in 1 .. n : r[m].kind \in Outer
    <3>1. \A n \in 1 .. Len(s) : s[n].kind \in Outer => \A m \in 1 .. n : s[m].kind \in Outer
      BY <1>1 DEF Chain
    <3> QED
      BY <1>4, <1>9, <3>1
  <2>4. r # <<>> => r[1].kind = "Prog"
    BY <1>1, <1>2, <1>4, <1>8 DEF Chain
  <2> QED
    BY <1>4, <1>5, <2>1, <2>2, <2>3, <2>4 DEF Chain
<1>13. Last(s).kind # "Prog" => r # <<>>
  BY <1>1, <1>2, <1>7 DEF Chain
<1>14. Traced(r, u)
  BY <1>11, <1>12 DEF Traced
<1> QED
  BY <1>11, <1>13, <1>14 DEF r

(* Changes of a call that leave what it is *)
LEMMA AlikeSet ==
  ASSUME NEW c, Entry(c)
  PROVE  /\ \A j \in Nat : /\ Alike([c EXCEPT !.i = j], c) /\ [c EXCEPT !.i = j].i = j
                           /\ [c EXCEPT !.i = j].nodes = c.nodes
         /\ \A t : Listed(t) => /\ Alike([c EXCEPT !.nodes = t], c)
                                /\ [c EXCEPT !.nodes = t].i = c.i
                                /\ [c EXCEPT !.nodes = t].nodes = t
         /\ Alike(c, c)
<1>1. Record(c) /\ Listed(c.nodes) /\ c.i \in Nat
  BY DEF Entry
<1>2. ASSUME NEW j \in Nat
      PROVE  /\ Alike([c EXCEPT !.i = j], c) /\ [c EXCEPT !.i = j].i = j
             /\ [c EXCEPT !.i = j].nodes = c.nodes
  <2> DEFINE d == [c EXCEPT !.i = j]
  <2>1. Record(d) /\ d.nodes = c.nodes /\ d.kind = c.kind /\ d.i = j
    BY <1>1, Changed
  <2>2. d.at = c.at /\ DOMAIN d = DOMAIN c
    BY <1>1 DEF Record
  <2>3. Imported(c) => d.from = c.from /\ d.back = c.back
    BY <1>1 DEF Record, Imported
  <2> HIDE DEF d
  <2>4. Alike(d, c)
    BY <1>1, <2>1, <2>2, <2>3 DEF Alike, Entry, Imported
  <2> QED
    BY <2>1, <2>4 DEF d
<1>3. ASSUME NEW t, Listed(t)
      PROVE  /\ Alike([c EXCEPT !.nodes = t], c) /\ [c EXCEPT !.nodes = t].i = c.i
             /\ [c EXCEPT !.nodes = t].nodes = t
  <2> DEFINE d == [c EXCEPT !.nodes = t]
  <2>1. Record(d) /\ d.nodes = t /\ d.kind = c.kind /\ d.i = c.i
    BY <1>1, Changed
  <2>2. d.at = c.at /\ DOMAIN d = DOMAIN c
    BY <1>1 DEF Record
  <2>3. Imported(c) => d.from = c.from /\ d.back = c.back
    BY <1>1 DEF Record, Imported
  <2> HIDE DEF d
  <2>4. Alike(d, c)
    BY <1>1, <1>3, <2>1, <2>2, <2>3 DEF Alike, Entry, Imported
  <2> QED
    BY <2>1, <2>4 DEF d
<1>4. Alike(c, c)
  BY DEF Alike
<1> QED
  BY <1>2, <1>3, <1>4

LEMMA AlikeWith ==
  ASSUME NEW c, Entry(c), NEW n
  PROVE  Alike(With(c, n), c) /\ With(c, n).i = c.i /\ With(c, n).nodes # <<>>
<1> DEFINE s == Append(c.nodes, n)
<1>1. With(c, n) = [c EXCEPT !.nodes = s]
  BY DEF With, Entry, Record
<1>2. Listed(s) /\ Len(s) = Len(c.nodes) + 1 /\ Len(c.nodes) \in Nat
  BY ListedAppend, ListedFacts DEF Entry
<1> HIDE DEF s
<1>3. s # <<>>
  <2>1. Len(s) # 0
    BY <1>2
  <2> QED
    BY <2>1, EmptySeq
<1> QED
  BY <1>1, <1>2, <1>3, AlikeSet

(* Calls that begin together *)
LEMMA Together ==
  ASSUME NEW s, Listed(s), NEW a, NEW b, NEW c
  PROVE  /\ s \o <<>> = s /\ s \o <<a>> = Append(s, a)
         /\ s \o <<a, b>> = Append(Append(s, a), b)
         /\ s \o <<a, b, c>> = Append(Append(Append(s, a), b), c)
<1> DEFINE S == Range(s) \cup {a, b, c}
<1>1. s \in Seq(Range(s)) /\ Len(s) \in Nat /\ \A j \in 1 .. Len(s) : s[j] \in Range(s)
  BY LenProperties, ElementOfSeq DEF Listed
<1>2. s \in Seq(S)
  BY <1>1, SeqDef, LenProperties
<1>3. a \in S /\ b \in S /\ c \in S
  OBVIOUS
<1> HIDE DEF S
<1> QED
  BY <1>2, <1>3

LEMMA OuterKinds ==
  ASSUME NEW kind \in Outer
  PROVE  kind \notin Expressions /\ kind \notin Sequences /\ kind \notin {"PARS", "SQBRAS", "ARGS", "DICT"}
BY DEF Outer, Statements, Bodies, Expressions, Sequences

(* What is left to show when a step ends in a statement or a body *)
LEMMA SettleO ==
  ASSUME Traced(calls', toks'), calls' # <<>>, toks' \in Seq(Token), pos' \in Nat,
         Last(calls').kind \in Outer, Ready'
  PROVE  SInv'
<1>1. /\ Listed(calls') /\ Len(calls') \in Nat
      /\ \A n \in 1 .. Len(calls') : Entry(calls'[n]) /\ calls'[n].kind \in Outer
      /\ \A n \in 1 .. Len(calls') - 1 : Adjacent(calls'[n], calls'[n + 1])
  BY TracedFacts
<1>2. (\A n \in 1 .. Len(calls) : Good(calls[n]))'
  BY <1>1, OuterKinds DEF Good, Known
<1>3. Top'.kind \notin Expressions /\ Top'.kind # "DICT"
  BY OuterKinds DEF Top
<1>4. Began' /\ DictReady'
  BY <1>3, Zenon DEF Began, DictReady
<1>5. EInv'
  BY <1>1, <1>2, <1>4 DEF EInv
<1> QED
  BY <1>5 DEF SInv

(* and when an expression begins in it *)
LEMMA SettleX ==
  ASSUME NEW s, Traced(s, toks'), s # <<>>, Last(s).kind \in Statements,
         NEW kind \in {"STMT", "COND"}, NEW at, calls' = Append(s, Call(kind, at)),
         toks' \in Seq(Token), pos' \in Nat
  PROVE  SInv'
<1> DEFINE c == Call(kind, at)
           k == Len(s)
<1>1. Entry(c) /\ Known(c)' /\ c.kind = kind
  <2>1. Good(c) /\ c.kind = kind /\ c.nodes = <<>>
    BY GoodNew
  <2>2. \A j \in 1 .. Len(<<>>) : FALSE
    BY LenProperties
  <2> HIDE DEF c
  <2> QED
    BY <2>1, <2>2 DEF Good, Known
<1> HIDE DEF c
<1>2. Last(s).kind \in Outer /\ Last(s).kind \notin Bodies
  BY DEF Outer, Bodies, Statements
<1>3. kind \notin Outer /\ kind # "ArrowEq" /\ kind # "Prog" /\ kind # "ARGS" /\ kind # "DICT" /\ kind # "PARS" /\ kind # "SQBRAS"
  BY DEF Outer, Bodies, Statements
<1>4. /\ Listed(s) /\ k \in Nat /\ k > 0 /\ Last(s) = s[k]
      /\ \A n \in 1 .. k : Entry(s[n]) /\ s[n].kind \in Outer
      /\ \A n \in 1 .. k - 1 : Adjacent(s[n], s[n + 1])
  BY <1>2, TracedFacts
<1>5. Adjacent(Last(s), c)
  BY <1>1, <1>2, <1>3, OuterKinds DEF Adjacent
<1>6. Frame(c, toks') /\ Under(Last(s), toks', c, toks')
  BY <1>1, <1>2, <1>3, <1>5 DEF Frame, Under, Bodies
<1>7. calls' = Append(s, c)
  BY DEF c
<1>8. Traced(calls', toks') /\ calls' # <<>> /\ Last(calls') = c
  BY <1>1, <1>3, <1>6, <1>7, TracedPush
<1>9. /\ Listed(calls') /\ Len(calls') = k + 1 /\ calls'[k + 1] = c
      /\ \A n \in 1 .. k : calls'[n] = s[n]
  BY <1>4, <1>7, ListedAppend
<1>10. \A n \in 1 .. k + 1 : n \in 1 .. k \/ n = k + 1
  BY <1>4
<1>11. (\A n \in 1 .. Len(calls) : Good(calls[n]))'
  <2>1. \A n \in 1 .. k : Known(s[n])'
    BY <1>4, OuterKinds DEF Known
  <2> QED
    BY <1>1, <1>4, <1>9, <1>10, <2>1 DEF Good
<1>12. (\A n \in 1 .. Len(calls) - 1 : Adjacent(calls[n], calls[n + 1]))'
  BY <1>8, TracedFacts
<1>13. Top' = c
  BY <1>8 DEF Top
<1>14. Began' /\ DictReady' /\ Ready'
  BY <1>1, <1>3, <1>13, Zenon DEF Began, DictReady, Ready
<1>15. EInv'
  BY <1>8, <1>9, <1>11, <1>12, <1>14 DEF EInv
<1> QED
  BY <1>8, <1>14, <1>15 DEF SInv

(* A statement, or its body, begins. *)
LEMMA PushO ==
  ASSUME NEW s, NEW t, Traced(s, t), s # <<>>, Last(s).kind \in Outer, t \in Seq(Token),
         NEW kind \in Outer \ {"Prog"}, NEW at,
         Last(s).kind \in Bodies => kind \in Statements,
         Last(s).kind = "ArrowEq" => Last(s).i # 0 /\ BeginsAs(t, Last(s).at + 1, kind),
         kind = "ArrowEq" => TokenAt(t, at) = "=>"
  PROVE  LET r == Append(s, Call(kind, at))
         IN  /\ Traced(r, t) /\ r # <<>>
             /\ Last(r) = Call(kind, at) /\ Last(r).kind = kind /\ Last(r).i = 0
             /\ Last(r).at = at
<1> DEFINE c == Call(kind, at)
<1>1. Entry(c) /\ c.kind = kind /\ c.i = 0 /\ c.at = at
  BY GoodNew DEF Good
<1> HIDE DEF c
<1>2. Frame(c, t)
  BY <1>1 DEF Frame
<1>3. Adjacent(Last(s), c)
  BY <1>1, OuterKinds DEF Adjacent
<1>4. Under(Last(s), t, c, t)
  BY <1>1, <1>3 DEF Under
<1>5. Traced(Append(s, c), t) /\ Append(s, c) # <<>> /\ Last(Append(s, c)) = c
  BY <1>1, <1>2, <1>4, TracedPush
<1> QED
  BY <1>1, <1>5 DEF c

-----------------------------------------------------------------------------
(* The steps.                                                              *)

\* What every step of the parser shows
SGoal == SInv' /\ FaultsOnStatement'

LEMMA SFacts ==
  ASSUME SInv, outcome = "run"
  PROVE  /\ calls # <<>> /\ Listed(calls) /\ Traced(calls, toks) /\ toks \in Seq(Token) /\ pos \in Nat
         /\ Top = Last(calls) /\ Entry(Top) /\ Listed(Nodes) /\ EInv /\ Ready
<1>1. calls # <<>> /\ Listed(calls) /\ Traced(calls, toks) /\ toks \in Seq(Token) /\ pos \in Nat
      /\ EInv /\ Ready
  BY DEF SInv, EInv
<1>2. Top = Last(calls) /\ Entry(Top)
  BY <1>1, TracedFacts DEF Top, Frame
<1> QED
  BY <1>1, <1>2 DEF Entry, Nodes

LEMMA NotRunning ==
  ASSUME Traced(calls', toks'), toks' \in Seq(Token), pos' \in Nat,
         outcome' \in {"done", "error", "past", "overflow"}
  PROVE  SGoal
BY DEF SGoal, SInv, FaultsOnStatement

LEMMA EndS ==
  ASSUME SInv, NEW how \in {"done", "error", "past", "overflow"}, Ends(how)
  PROVE  SGoal
<1>1. Traced(calls', toks') /\ toks' \in Seq(Token) /\ pos' \in Nat /\ outcome' = how
  BY DEF SInv, Ends
<1> QED
  BY <1>1, NotRunning

LEMMA Running ==
  ASSUME SInv', outcome' = "run"
  PROVE  SGoal
BY DEF SGoal, FaultsOnStatement

LEMMA TopS ==
  ASSUME SInv, outcome = "run", Top.kind \in Outer, NEW c, Alike(c, Top),
         calls' = SetTop(c), toks' = toks, pos' \in Nat, outcome' \in {"run", "error"},
         c.kind = "ArrowEq" => c.i # 0 /\ c.nodes # <<>>
  PROVE  SGoal
<1>1. /\ calls # <<>> /\ Traced(calls, toks) /\ toks \in Seq(Token)
      /\ Top = Last(calls)
  BY SFacts
<1>2. calls' = Put(calls, Len(calls), c)
  BY DEF SetTop, Put
<1>3. Traced(calls', toks') /\ calls' # <<>> /\ Last(calls') = c
  BY <1>1, <1>2, TracedTop
<1>4. Top' = c /\ c.kind = Top.kind
  BY <1>3 DEF Top, Alike
<1>5. CASE outcome' = "run"
  <2>1. Ready'
    BY <1>4 DEF Ready, Nodes
  <2>2. SInv'
    BY <1>1, <1>3, <1>4, <2>1, SettleO
  <2> QED
    BY <1>5, <2>2, Running
<1>6. CASE outcome' = "error"
  BY <1>1, <1>3, <1>6, NotRunning
<1> QED
  BY <1>5, <1>6

(* A statement begins in the body that is the innermost call. *)
LEMMA StartO ==
  ASSUME SInv, AtStmt, NEW kind \in Statements, NEW at,
         Top.kind = "ArrowEq" => BeginsAs(toks, pos, kind)
  PROVE  LET r == Append(SetTop(Parsing), Call(kind, at))
         IN  /\ Listed(SetTop(Parsing)) /\ Traced(r, toks) /\ r # <<>>
             /\ Last(r) = Call(kind, at) /\ Last(r).kind = kind
<1>1. outcome = "run" /\ Top.kind \in Bodies /\ Top.i = 0
  BY DEF AtStmt, Looks
<1>2. /\ calls # <<>> /\ Listed(calls) /\ Traced(calls, toks) /\ toks \in Seq(Token)
      /\ Top = Last(calls) /\ Entry(Top) /\ Ready
  BY <1>1, SFacts
<1> DEFINE c == Parsing
           s == SetTop(c)
<1>3. Alike(c, Top) /\ c.i = 1
  <2>1. \A j \in Nat : Alike([Top EXCEPT !.i = j], Top) /\ [Top EXCEPT !.i = j].i = j
    BY <1>2, AlikeSet
  <2>2. c = [Top EXCEPT !.i = 1]
    BY DEF Parsing
  <2> HIDE DEF c
  <2> QED
    BY <2>1, <2>2
<1> HIDE DEF c
<1>4. s = Put(calls, Len(calls), c)
  BY DEF SetTop, Put
<1> HIDE DEF s
<1>5. Traced(s, toks) /\ s # <<>> /\ Last(s) = c
  BY <1>2, <1>3, <1>4, TracedTop
<1>6. c.kind \in Outer /\ kind \in Outer \ {"Prog"} /\ kind # "ArrowEq"
  BY <1>1, <1>3 DEF Alike, Outer, Statements, Bodies
<1>7. c.kind = "ArrowEq" => BeginsAs(toks, c.at + 1, kind)
  BY <1>1, <1>2, <1>3 DEF Alike, Ready
<1>8. c.i # 0
  BY <1>3
<1>9. LET r == Append(s, Call(kind, at))
      IN  Traced(r, toks) /\ r # <<>> /\ Last(r) = Call(kind, at) /\ Last(r).kind = kind
  BY <1>2, <1>5, <1>6, <1>7, <1>8, PushO
<1>10. Listed(s)
  BY <1>5, TracedFacts
<1> QED
  BY <1>9, <1>10 DEF s, c

LEMMA StartExpr ==
  ASSUME SInv, AtStmt, NEW kind \in Statements, NEW x \in {"STMT", "COND"}, NEW skip \in Nat,
         NEW at, Start(<<Call(kind, pos), Call(x, at)>>, skip),
         Top.kind = "ArrowEq" => BeginsAs(toks, pos, kind)
  PROVE  SGoal
<1> DEFINE s == SetTop(Parsing)
           r == Append(s, Call(kind, pos))
<1>1. outcome = "run" /\ pos \in Nat /\ toks \in Seq(Token)
  BY SFacts DEF AtStmt, Looks
<1>2. Listed(s) /\ Traced(r, toks) /\ r # <<>> /\ Last(r).kind = kind
  BY StartO
<1>3. calls' = s \o <<Call(kind, pos), Call(x, at)>> /\ pos' = pos + skip /\ toks' = toks
      /\ outcome' = outcome
  BY DEF Start
<1>4. calls' = Append(r, Call(x, at))
  BY <1>2, <1>3, Together
<1>5. pos' \in Nat
  BY <1>1, <1>3
<1> HIDE DEF r
<1>6. SInv'
  BY <1>1, <1>2, <1>3, <1>4, <1>5, SettleX
<1> QED
  BY <1>1, <1>3, <1>6, Running

LEMMA StartFor ==
  ASSUME SInv, AtStmt, NEW kind \in {"VAR_DEF", "VAR_MUT"}, NEW skip \in Nat,
         Start(<<Call("FOR", pos), Call(kind, pos + 1), Call("STMT", pos)>>, skip),
         Top.kind = "ArrowEq" => BeginsAs(toks, pos, "FOR")
  PROVE  SGoal
<1> DEFINE s == SetTop(Parsing)
           r == Append(s, Call("FOR", pos))
           q == Append(r, Call(kind, pos + 1))
<1>1. outcome = "run" /\ pos \in Nat /\ toks \in Seq(Token)
  BY SFacts DEF AtStmt, Looks
<1>2. /\ "FOR" \in Statements /\ kind \in Statements /\ "FOR" \notin Bodies
      /\ kind \in Outer \ {"Prog"} /\ kind # "ArrowEq" /\ "FOR" \in Outer
  BY DEF Outer, Statements, Bodies
<1>3. Listed(s) /\ Traced(r, toks) /\ r # <<>> /\ Last(r).kind = "FOR"
  BY <1>2, StartO
<1>4. calls' = s \o <<Call("FOR", pos), Call(kind, pos + 1), Call("STMT", pos)>>
      /\ pos' = pos + skip /\ toks' = toks /\ outcome' = outcome
  BY DEF Start
<1>5. calls' = Append(q, Call("STMT", pos))
  BY <1>3, <1>4, Together
<1> HIDE DEF r
<1>6. Traced(q, toks) /\ q # <<>> /\ Last(q).kind = kind
  BY <1>1, <1>2, <1>3, PushO
<1>7. pos' \in Nat
  BY <1>1, <1>4
<1> HIDE DEF q
<1>8. SInv'
  BY <1>1, <1>2, <1>4, <1>5, <1>6, <1>7, SettleX
<1> QED
  BY <1>1, <1>4, <1>8, Running

LEMMA StartOnly ==
  ASSUME SInv, AtStmt, NEW kind \in Statements, NEW skip \in Nat,
         Start(<<Call(kind, pos)>>, skip) \/ Fails(<<Call(kind, pos)>>, skip),
         Top.kind = "ArrowEq" => BeginsAs(toks, pos, kind)
  PROVE  SGoal
<1> DEFINE s == SetTop(Parsing)
           r == Append(s, Call(kind, pos))
<1>1. outcome = "run" /\ pos \in Nat /\ toks \in Seq(Token)
  BY SFacts DEF AtStmt, Looks
<1>2. Listed(s) /\ Traced(r, toks) /\ r # <<>> /\ Last(r).kind = kind
  BY StartO
<1>3. calls' = s \o <<Call(kind, pos)>> /\ pos' = pos + skip /\ toks' = toks
      /\ outcome' \in {"run", "error"}
  BY <1>1 DEF Start, Fails
<1>4. calls' = r
  BY <1>2, <1>3, Together
<1>5. pos' \in Nat
  BY <1>1, <1>3
<1> HIDE DEF r
<1>6. CASE outcome' = "run"
  <2>1. kind \in Outer /\ kind # "ArrowEq"
    BY DEF Outer, Statements
  <2>2. Top' = Last(r)
    BY <1>4 DEF Top
  <2>3. Ready'
    BY <1>2, <2>1, <2>2 DEF Ready
  <2>4. SInv'
    BY <1>1, <1>2, <1>3, <1>4, <1>5, <2>1, <2>3, SettleO
  <2> QED
    BY <1>6, <2>4, Running
<1>7. CASE outcome' = "error"
  BY <1>1, <1>2, <1>3, <1>4, <1>5, <1>7, NotRunning
<1> QED
  BY <1>3, <1>6, <1>7

LEMMA SimpleS ==
  ASSUME SInv, VarDef \/ VarMut \/ Ret \/ If \/ While
  PROVE  SGoal
<1>1. TokenAt(toks, pos) = Peek /\ TokenAt(toks, pos + 1) = Peek2
  BY DEF TokenAt, Peek, Peek2, At
<1>2. CASE VarDef
  <2>1. AtStmt /\ Start(<<Call("VAR_DEF", pos), Call("STMT", pos)>>, 2)
    BY <1>2 DEF VarDef
  <2>2. BeginsAs(toks, pos, "VAR_DEF")
    BY <1>1, <1>2 DEF VarDef, BeginsAs
  <2> QED
    BY <2>1, <2>2, StartExpr DEF Statements
<1>3. CASE VarMut
  <2>1. AtStmt /\ Start(<<Call("VAR_MUT", pos), Call("STMT", pos)>>, 0)
    BY <1>3 DEF VarMut
  <2>2. BeginsAs(toks, pos, "VAR_MUT")
    BY DEF BeginsAs
  <2> QED
    BY <2>1, <2>2, StartExpr DEF Statements
<1>4. CASE Ret
  <2>1. AtStmt /\ Start(<<Call("RET", pos), Call("STMT", pos)>>, 1)
    BY <1>4 DEF Ret
  <2>2. BeginsAs(toks, pos, "RET")
    BY DEF BeginsAs
  <2> QED
    BY <2>1, <2>2, StartExpr DEF Statements
<1>5. CASE If
  <2>1. AtStmt /\ Start(<<Call("IF", pos), Call("COND", pos)>>, 1)
    BY <1>5 DEF If
  <2>2. BeginsAs(toks, pos, "IF")
    BY <1>1, <1>5 DEF If, BeginsAs
  <2> QED
    BY <2>1, <2>2, StartExpr DEF Statements
<1>6. CASE While
  <2>1. AtStmt /\ Start(<<Call("WHILE", pos), Call("COND", pos)>>, 1)
    BY <1>6 DEF While
  <2>2. BeginsAs(toks, pos, "WHILE")
    BY <1>1, <1>6 DEF While, BeginsAs
  <2> QED
    BY <2>1, <2>2, StartExpr DEF Statements
<1> QED
  BY <1>2, <1>3, <1>4, <1>5, <1>6

LEMMA ParsingFacts ==
  ASSUME Entry(Top)
  PROVE  Alike(Parsing, Top) /\ Parsing.i = 1
<1>1. \A j \in Nat : Alike([Top EXCEPT !.i = j], Top) /\ [Top EXCEPT !.i = j].i = j
  BY AlikeSet
<1>2. 1 \in Nat
  OBVIOUS
<1> QED
  BY <1>1, <1>2, Zenon DEF Parsing

LEMMA JumpS ==
  ASSUME SInv, Jump
  PROVE  SGoal
<1> DEFINE n == Node("JUMP", "", pos, <<>>)
           c == With(Parsing, n)
<1>1. /\ outcome = "run" /\ Top.kind \in Outer /\ calls' = SetTop(c) /\ toks' = toks
      /\ pos' = pos + 1 /\ outcome' = outcome
  BY DEF Jump, AtStmt, Looks, Outer
<1>2. Entry(Top) /\ pos \in Nat
  BY <1>1, SFacts
<1>3. Alike(Parsing, Top) /\ Parsing.i = 1
  BY <1>2, ParsingFacts
<1>4. Alike(c, Parsing) /\ c.i = 1 /\ c.nodes # <<>>
  BY <1>3, AlikeWith DEF Alike
<1> HIDE DEF c
<1>5. Alike(c, Top)
  BY <1>3, <1>4 DEF Alike
<1>6. pos' \in Nat /\ c.i # 0
  BY <1>1, <1>2, <1>4
<1> QED
  BY <1>1, <1>4, <1>5, <1>6, TopS

LEMMA ForS ==
  ASSUME SInv, For
  PROVE  SGoal
<1>1. AtStmt /\ Peek = "for"
  BY DEF For
<1>2. BeginsAs(toks, pos, "FOR") /\ BeginsAs(toks, pos, "FOREACH")
  BY <1>1 DEF BeginsAs, TokenAt, Peek, At
<1>3. \/ Fails(<<Call("FOR", pos)>>, 1)
      \/ Start(<<Call("FOREACH", pos), Call("COND", pos)>>, 3)
      \/ Start(<<Call("FOR", pos), Call("VAR_DEF", pos + 1), Call("STMT", pos)>>, 3)
      \/ Start(<<Call("FOR", pos), Call("VAR_MUT", pos + 1), Call("STMT", pos)>>, 1)
  BY DEF For
<1>4. CASE Fails(<<Call("FOR", pos)>>, 1)
  BY <1>1, <1>2, <1>4, StartOnly DEF Statements
<1>5. CASE Start(<<Call("FOREACH", pos), Call("COND", pos)>>, 3)
  BY <1>1, <1>2, <1>5, StartExpr DEF Statements
<1>6. CASE Start(<<Call("FOR", pos), Call("VAR_DEF", pos + 1), Call("STMT", pos)>>, 3)
  BY <1>1, <1>2, <1>6, StartFor
<1>7. CASE Start(<<Call("FOR", pos), Call("VAR_MUT", pos + 1), Call("STMT", pos)>>, 1)
  BY <1>1, <1>2, <1>7, StartFor
<1> QED
  BY <1>3, <1>4, <1>5, <1>6, <1>7

LEMMA FnS ==
  ASSUME SInv, Fn
  PROVE  SGoal
<1>1. AtStmt /\ Peek = "fn"
  BY DEF Fn
<1>2. BeginsAs(toks, pos, "FUNC_DEF")
  BY <1>1 DEF BeginsAs, TokenAt, Peek, At
<1>3. \E skip \in {1, 2, 3} : Start(<<Call("FUNC_DEF", pos)>>, skip) \/ Fails(<<Call("FUNC_DEF", pos)>>, skip)
  BY Zenon DEF Fn
<1> QED
  BY <1>1, <1>2, <1>3, StartOnly DEF Statements

LEMMA ImportS ==
  ASSUME SInv, Import
  PROVE  SGoal
<1> DEFINE s == SetTop(Parsing)
           c == [kind |-> "Prog", at |-> 1, nodes |-> <<>>, i |-> 0, before |-> 0,
                 from |-> toks, back |-> pos + 2]
           file == Files[Peek2]
<1>1. outcome = "run" /\ Top.kind \in Bodies /\ Top.i = 0 /\ Peek = "import"
  BY DEF Import, AtStmt, Looks
<1>2. /\ calls # <<>> /\ Listed(calls) /\ Traced(calls, toks) /\ toks \in Seq(Token)
      /\ pos \in Nat /\ Top = Last(calls) /\ Entry(Top) /\ Ready
  BY <1>1, SFacts
<1>3. Alike(Parsing, Top) /\ Parsing.i = 1
  BY <1>2, ParsingFacts
<1>4. s = Put(calls, Len(calls), Parsing)
  BY DEF SetTop, Put
<1>5. \/ calls' = s \o <<>> /\ pos' = pos + 1 /\ outcome' = "error" /\ toks' = toks
      \/ Peek2 \in DOMAIN Files /\ calls' = s \o <<c>> /\ toks' = file /\ pos' = 1 /\ outcome' = outcome
      \/ Ends("overflow")
  BY DEF Import, Fails
<1> HIDE DEF s
<1>6. Traced(s, toks) /\ s # <<>> /\ Last(s) = Parsing /\ Listed(s)
  BY <1>2, <1>3, <1>4, TracedTop, TracedFacts
<1>7. CASE calls' = s \o <<>> /\ pos' = pos + 1 /\ outcome' = "error" /\ toks' = toks
  <2>1. calls' = s /\ pos' \in Nat
    BY <1>2, <1>6, <1>7, Together
  <2> QED
    BY <1>2, <1>6, <1>7, <2>1, NotRunning
<1>8. CASE Peek2 \in DOMAIN Files /\ calls' = s \o <<c>> /\ toks' = file /\ pos' = 1 /\ outcome' = outcome
  <2>1. file \in Seq(Token)
    BY <1>8, FileAssumption
  <2>2. c.kind = "Prog" /\ c.from = toks /\ Record(c) /\ c.nodes = <<>> /\ c.i = 0
        /\ {"from", "back"} \subseteq DOMAIN c /\ c.back = pos + 2
    BY DEF Record
  <2> HIDE DEF c, file
  <2>3. Entry(c)
    <3>1. <<>> \in Seq({})
      OBVIOUS
    <3>2. Listed(<<>>)
      BY <3>1, ListedIn
    <3> QED
      BY <2>2, <3>2 DEF Entry
  <2>4. Frame(c, file)
    BY <2>1, <2>2, <2>3 DEF Frame
  <2>5. Imported(c)
    BY <1>2, <2>2 DEF Imported
  <2>6. Parsing.kind = Top.kind /\ Parsing.at = Top.at /\ Parsing.i # 0
    BY <1>1, <1>3 DEF Alike
  <2>7. Parsing.kind = "ArrowEq" => BeginsAs(toks, Parsing.at + 1, "Prog")
    BY <1>1, <1>2, <2>6 DEF Ready, BeginsAs, TokenAt, Peek, At
  <2>8. Parsing.kind \in Outer /\ "Prog" \in Outer
    BY <1>1, <2>6 DEF Outer, Bodies
  <2>9. Adjacent(Parsing, c)
    BY <2>2, <2>8, OuterKinds DEF Adjacent
  <2>10. Under(Parsing, toks, c, file)
    BY <2>2, <2>5, <2>6, <2>7, <2>9 DEF Under
  <2>11. calls' = Append(s, c)
    BY <1>6, <1>8, Together
  <2>12. Traced(calls', toks') /\ calls' # <<>> /\ Last(calls') = c
    BY <1>6, <1>8, <2>4, <2>8, <2>10, <2>11, TracedPush
  <2>13. Ready'
    BY <2>2, <2>12 DEF Ready, Top
  <2>14. SInv'
    BY <1>8, <2>1, <2>2, <2>8, <2>12, <2>13, SettleO
  <2> QED
    BY <1>1, <1>8, <2>14, Running
<1> QED
  BY <1>5, <1>7, <1>8, EndS

(* A call of a statement or a body returns a node. *)
LEMMA GiveS ==
  ASSUME SInv, outcome = "run", Top.kind \in Outer \ {"Prog"}, NEW n, Give(n)
  PROVE  SGoal
<1> DEFINE below == Front(calls)
           caller == Last(below)
           c == With(caller, n)
<1>1. /\ calls # <<>> /\ Listed(calls) /\ Traced(calls, toks) /\ toks \in Seq(Token)
      /\ pos \in Nat /\ Top = Last(calls)
  BY SFacts
<1>2. Traced(below, toks) /\ below # <<>> /\ Under(caller, toks, Top, toks)
  BY <1>1, TracedPop
<1>3. caller.kind \in Outer
  <2>1. Len(calls) - 1 \in 1 .. Len(calls) - 1 /\ caller = calls[Len(calls) - 1]
    BY <1>1, <1>2, FrontFacts
  <2>2. \A m \in 1 .. Len(calls) : calls[m].kind \in Outer
    BY <1>1, TracedFacts
  <2>3. Len(calls) - 1 \in 1 .. Len(calls)
    BY <1>1, <2>1, ListedFacts
  <2> QED
    BY <2>1, <2>2, <2>3
<1>4. /\ calls' = Put(below, Len(below), c) /\ pos' = pos /\ toks' = toks
      /\ outcome' = outcome
  BY DEF Give, Put, Last
<1>5. Entry(caller)
  BY <1>2, TracedFacts DEF Frame
<1>6. Alike(c, caller) /\ c.i = caller.i /\ c.nodes # <<>>
  BY <1>5, AlikeWith
<1> HIDE DEF below, caller, c
<1>7. Traced(calls', toks') /\ calls' # <<>> /\ Last(calls') = c
  BY <1>2, <1>4, <1>6, TracedTop DEF caller
<1>8. Ready'
  <2>1. Top' = c
    BY <1>7 DEF Top
  <2>2. c.kind = "ArrowEq" => c.i # 0
    BY <1>2, <1>6 DEF Under, Alike
  <2> QED
    BY <1>6, <2>1, <2>2 DEF Ready, Nodes
<1>9. c.kind \in Outer
  BY <1>3, <1>6 DEF Alike
<1>10. SInv'
  BY <1>1, <1>4, <1>7, <1>8, <1>9, SettleO
<1> QED
  BY <1>4, <1>10, Running

LEMMA CompleteS ==
  ASSUME SInv, Complete \/ NoElse \/ ArrowEnd
  PROVE  SGoal
<1>1. CASE Complete
  <2>1. outcome = "run" /\ Top.kind \in Statements /\ \E n : Give(n)
    BY <1>1 DEF Complete, Arity, Statements
  <2>2. Top.kind \in Outer \ {"Prog"}
    BY <2>1 DEF Outer, Statements
  <2> QED
    BY <2>1, <2>2, GiveS
<1>2. CASE NoElse
  <2>1. outcome = "run" /\ Top.kind = "IF" /\ \E n : Give(n)
    BY <1>2 DEF NoElse, Has
  <2> QED
    BY <2>1, GiveS DEF Outer, Statements
<1>3. CASE ArrowEnd
  <2>1. outcome = "run" /\ Top.kind = "Arrow" /\ \E n : Give(n)
    BY <1>3 DEF ArrowEnd, Parsed1
  <2> QED
    BY <2>1, GiveS DEF Outer, Bodies
<1> QED
  BY <1>1, <1>2, <1>3

(* The statement that is the innermost call has another part. *)
LEMMA PartS ==
  ASSUME SInv, ForCond \/ ForMut \/ ElseIf
  PROVE  SGoal
<1>1. outcome = "run" /\ Top.kind \in {"FOR", "IF"}
  BY DEF ForCond, ForMut, ElseIf, Has
<1>2. /\ calls # <<>> /\ Traced(calls, toks) /\ toks \in Seq(Token)
      /\ pos \in Nat /\ Top = Last(calls)
  BY <1>1, SFacts
<1>3. Last(calls).kind \in Statements /\ Last(calls).kind \in Outer
      /\ Last(calls).kind \notin Bodies /\ Last(calls).kind # "ArrowEq"
  BY <1>1, <1>2 DEF Statements, Outer, Bodies
<1>4. CASE ForCond
  <2>1. /\ calls' = Append(calls, Call("STMT", pos)) /\ pos' = pos + 1
        /\ toks' = toks /\ outcome' = outcome
    BY <1>4 DEF ForCond, Begin
  <2>2. SInv'
    BY <1>2, <1>3, <2>1, SettleX
  <2> QED
    BY <1>1, <2>1, <2>2, Running
<1>5. ASSUME NEW kind \in {"VAR_MUT", "IF"}, NEW at, NEW skip \in {1, 3},
             Begin(Call("COND", pos), Append(calls, Call(kind, at)), skip)
      PROVE  SGoal
  <2> DEFINE r == Append(calls, Call(kind, at))
  <2>1. /\ calls' = Append(r, Call("COND", pos)) /\ pos' = pos + skip
        /\ toks' = toks /\ outcome' = outcome
    BY <1>5 DEF Begin
  <2>2. kind \in Outer \ {"Prog"} /\ kind \in Statements /\ kind # "ArrowEq"
    BY DEF Outer, Statements
  <2>3. Traced(r, toks) /\ r # <<>> /\ Last(r).kind = kind
    BY <1>2, <1>3, <2>2, PushO
  <2> HIDE DEF r
  <2>4. pos' \in Nat
    BY <1>2, <2>1
  <2>5. SInv'
    BY <1>2, <2>1, <2>2, <2>3, <2>4, SettleX
  <2> QED
    BY <1>1, <2>1, <2>5, Running
<1> QED
  BY <1>4, <1>5 DEF ForMut, ElseIf

LEMMA FrontTop ==
  ASSUME Listed(calls), calls # <<>>, NEW c
  PROVE  Append(Front(calls), c) = SetTop(c)
<1> DEFINE k == Len(calls) - 1
           a == Append(Front(calls), c)
           b == SetTop(c)
<1>1. /\ Listed(Front(calls)) /\ Len(Front(calls)) = k /\ k \in Nat
      /\ \A m \in 1 .. k : Front(calls)[m] = calls[m]
  BY FrontFacts
<1>2. Listed(a) /\ Len(a) = k + 1 /\ a[k + 1] = c /\ \A m \in 1 .. k : a[m] = Front(calls)[m]
  BY <1>1, ListedAppend
<1>3. Listed(b) /\ Len(b) = Len(calls) /\ b[Len(calls)] = c /\ \A m \in 1 .. k : b[m] = calls[m]
  BY TopPut
<1>4. Len(calls) = k + 1 /\ \A m \in 1 .. k + 1 : m \in 1 .. k \/ m = k + 1
  BY <1>1, ListedFacts
<1> HIDE DEF k, a, b
<1>5. a = [m \in 1 .. k + 1 |-> a[m]] /\ b = [m \in 1 .. k + 1 |-> b[m]]
  BY <1>2, <1>3, <1>4, LenProperties DEF Listed
<1>6. \A m \in 1 .. k + 1 : a[m] = b[m]
  BY <1>1, <1>2, <1>3, <1>4
<1>7. a = b
  BY <1>5, <1>6
<1> QED
  BY <1>7 DEF a, b

LEMMA ParamS ==
  ASSUME SInv, Param \/ BadParam \/ ParamsEnd
  PROVE  SGoal
<1>1. outcome = "run" /\ Top.kind = "FUNC_DEF"
  BY Zenon DEF Param, BadParam, ParamsEnd, Params
<1>2. Top.kind \in Outer /\ Top.kind # "ArrowEq"
  BY <1>1 DEF Outer, Statements
<1>3. calls # <<>> /\ Listed(calls) /\ Entry(Top) /\ pos \in Nat
  BY <1>1, SFacts
<1>4. \/ \E n : Shift(n)
      \/ Begin(Top, Front(calls), 1)
      \/ Begin([Top EXCEPT !.i = 1], Front(calls), 1)
      \/ Ends("error")
  BY Zenon DEF Param, BadParam, ParamsEnd
<1>5. ASSUME NEW c, Alike(c, Top), calls' = SetTop(c), toks' = toks, pos' = pos + 1, outcome' = outcome
      PROVE  SGoal
  <2>1. pos' \in Nat /\ c.kind # "ArrowEq"
    BY <1>2, <1>3, <1>5 DEF Alike
  <2> QED
    BY <1>1, <1>2, <1>5, <2>1, TopS
<1>6. CASE \E n : Shift(n)
  BY <1>3, <1>5, <1>6, AlikeWith DEF Shift
<1>7. ASSUME NEW c, Alike(c, Top), Begin(c, Front(calls), 1)
      PROVE  SGoal
  <2>1. calls' = SetTop(c)
    BY <1>3, <1>7, FrontTop DEF Begin
  <2> QED
    BY <1>5, <1>7, <2>1 DEF Begin
<1>8. Alike(Top, Top)
  BY <1>3, AlikeSet
<1>9. Alike([Top EXCEPT !.i = 1], Top)
  BY <1>3, ParsingFacts, Zenon DEF Parsing
<1> QED
  BY <1>4, <1>6, <1>7, <1>8, <1>9, EndS

LEMMA OpenS ==
  ASSUME SInv, outcome = "run", Top.kind \in Statements, NEW at \in Nat, OpenBody(at)
  PROVE  SGoal
<1> DEFINE c == [Top EXCEPT !.i = 2]
           s == SetTop(c)
           kind == BodyOf(At(at))
           r == Append(s, Call(kind, at))
<1>1. /\ calls # <<>> /\ Traced(calls, toks) /\ toks \in Seq(Token)
      /\ Top = Last(calls) /\ Entry(Top)
  BY SFacts
<1>2. Top.kind \in Outer /\ Top.kind \notin Bodies /\ Top.kind # "ArrowEq"
  BY DEF Outer, Statements, Bodies
<1>3. Alike(c, Top)
  <2>1. 2 \in Nat
    OBVIOUS
  <2> QED
    BY <1>1, <2>1, AlikeSet
<1>4. \/ At(at) \in {"{", "->", "=>"} /\ calls' = r /\ pos' = at + 1 /\ toks' = toks /\ outcome' = outcome
      \/ calls' = s /\ pos' = at /\ outcome' = "error" /\ toks' = toks
  BY Zenon DEF OpenBody
<1>5. At(at) \in {"{", "->", "=>"} =>
        /\ kind \in Outer \ {"Prog"}
        /\ kind = "ArrowEq" => TokenAt(toks, at) = "=>"
  <2>1. /\ At(at) = "{" => kind = "Block"
        /\ At(at) = "->" => kind = "Arrow"
        /\ At(at) = "=>" => kind = "ArrowEq"
    BY Zenon DEF BodyOf
  <2>2. {"Block", "Arrow", "ArrowEq"} \subseteq Outer \ {"Prog"}
    BY DEF Outer, Bodies
  <2>3. TokenAt(toks, at) = At(at)
    BY DEF TokenAt, At
  <2>4. "Block" # "ArrowEq" /\ "Arrow" # "ArrowEq"
    OBVIOUS
  <2> HIDE DEF kind
  <2> QED
    BY <2>1, <2>2, <2>3, <2>4, Zenon
<1> HIDE DEF c, kind
<1>6. s = Put(calls, Len(calls), c)
  BY DEF SetTop, Put
<1>7. CASE calls' = s /\ pos' = at /\ outcome' = "error" /\ toks' = toks
  BY <1>2, <1>3, <1>7, TopS, Zenon DEF Alike
<1> HIDE DEF s
<1>8. Traced(s, toks) /\ s # <<>> /\ Last(s) = c
  BY <1>1, <1>3, <1>6, TracedTop
<1>9. c.kind \in Outer /\ c.kind \notin Bodies /\ c.kind # "ArrowEq"
  BY <1>2, <1>3, Zenon DEF Alike
<1>10. CASE At(at) \in {"{", "->", "=>"} /\ calls' = r /\ pos' = at + 1 /\ toks' = toks /\ outcome' = outcome
  <2>1. kind \in Outer \ {"Prog"} /\ (kind = "ArrowEq" => TokenAt(toks, at) = "=>")
    BY <1>5, <1>10, Zenon
  <2>2. calls' = r /\ pos' = at + 1 /\ toks' = toks /\ outcome' = outcome
    BY <1>10, Zenon
  <2> HIDE <1>10
  <2>3. Traced(r, toks) /\ r # <<>> /\ Last(r).kind = kind /\ Last(r).i = 0 /\ Last(r).at = at
    BY <1>1, <1>8, <1>9, <2>1, PushO
  <2> HIDE DEF r
  <2>4. Ready'
    BY <2>2, <2>3 DEF Ready, Top
  <2>5. SInv'
    BY <1>1, <2>1, <2>2, <2>3, <2>4, SettleO
  <2> QED
    BY <2>2, <2>5, Running
<1> QED
  BY <1>4, <1>7, <1>10, Zenon

LEMMA BodyS ==
  ASSUME SInv, Body \/ Else
  PROVE  SGoal
<1>1. outcome = "run" /\ Top.kind \in Statements
  BY DEF Body, Else, Has, Statements
<1>2. pos \in Nat /\ pos + 2 \in Nat
  BY <1>1, SFacts
<1>3. OpenBody(pos) \/ OpenBody(pos + 2)
  BY DEF Body, Else
<1> QED
  BY <1>1, <1>2, <1>3, OpenS

LEMMA ListedConcat ==
  ASSUME NEW s, Listed(s), NEW t, Listed(t)
  PROVE  Listed(s \o t)
<1> DEFINE S == Range(s) \cup Range(t)
<1>1. s \in Seq(Range(s)) /\ t \in Seq(Range(t))
  BY DEF Listed
<1>2. s \in Seq(S) /\ t \in Seq(S)
  <2>1. (\A j \in 1 .. Len(s) : s[j] \in S) /\ \A j \in 1 .. Len(t) : t[j] \in S
    BY <1>1, ElementOfSeq
  <2> QED
    BY <1>1, <2>1, SeqDef, LenProperties
<1> HIDE DEF S
<1>3. s \o t \in Seq(S)
  BY <1>2, ConcatProperties
<1> QED
  BY <1>3, ListedIn

(* parse_body returns: to import, it gives the statements of a file. *)
LEMMA LeaveS ==
  ASSUME SInv, BodyEnd
  PROVE  SGoal
<1> DEFINE below == Front(calls)
           caller == Last(below)
           t == caller.nodes \o Nodes
           c == [caller EXCEPT !.nodes = t]
<1>1. outcome = "run" /\ Top.kind \in Bodies /\ Leave
  BY Zenon DEF BodyEnd, Looks
<1>2. /\ calls # <<>> /\ Listed(calls) /\ Traced(calls, toks) /\ toks \in Seq(Token)
      /\ pos \in Nat /\ Top = Last(calls) /\ Listed(Nodes)
  BY <1>1, SFacts
<1>3. Top.kind \in Outer
  BY <1>1 DEF Outer
<1>4. CASE below = <<>>
  <2>1. outcome' = "done" /\ UNCHANGED <<toks, pos, calls>>
    BY <1>1, <1>4 DEF Leave
  <2> QED
    BY <1>2, <2>1, NotRunning
<1>5. CASE below # <<>> /\ Top.kind # "Prog"
  <2>1. \E n : Give(n)
    BY <1>1, <1>5 DEF Leave
  <2> QED
    BY <1>1, <1>3, <1>5, <2>1, GiveS
<1>6. CASE below # <<>> /\ Top.kind = "Prog"
  <2>1. /\ calls' = Put(below, Len(below), c) /\ toks' = Top.from /\ pos' = Top.back
        /\ outcome' = outcome
    BY <1>1, <1>6 DEF Leave, Put, Last
  <2>2. Traced(below, toks') /\ Under(caller, toks', Top, toks)
    BY <1>2, <1>6, <2>1, TracedPop
  <2>3. Imported(Top)
    BY <1>6, <2>2 DEF Under
  <2>4. toks' \in Seq(Token) /\ pos' \in Nat
    BY <2>1, <2>3 DEF Imported
  <2>5. caller.kind \in Outer
    <3>1. Len(calls) - 1 \in 1 .. Len(calls) - 1 /\ caller = calls[Len(calls) - 1]
      BY <1>2, <1>6, FrontFacts
    <3>2. \A m \in 1 .. Len(calls) : calls[m].kind \in Outer
      BY <1>2, <1>3, TracedFacts
    <3>3. Len(calls) - 1 \in 1 .. Len(calls)
      BY <1>2, <3>1, ListedFacts
    <3> QED
      BY <3>1, <3>2, <3>3
  <2>6. Entry(caller)
    BY <1>6, <2>2, TracedFacts DEF Frame
  <2>7. Listed(t)
    BY <1>2, <2>6, ListedConcat DEF Entry
  <2> HIDE DEF t
  <2>8. Alike(c, caller) /\ c.i = caller.i
    BY <2>6, <2>7, AlikeSet
  <2> HIDE DEF below, caller, c
  <2>9. Traced(calls', toks') /\ calls' # <<>> /\ Last(calls') = c
    BY <1>6, <2>1, <2>2, <2>8, TracedTop DEF caller
  <2>10. c.kind = "ArrowEq" => c.i # 0 /\ TokenAt(toks', c.at + 1) = "import"
    BY <1>6, <2>2, <2>8 DEF Under, Alike, BeginsAs, Bodies
  <2>11. Ready'
    BY <2>9, <2>10 DEF Ready, Top, Nodes, TokenAt, At
  <2>12. c.kind \in Outer
    BY <2>5, <2>8 DEF Alike
  <2>13. SInv'
    BY <2>4, <2>9, <2>11, <2>12, SettleO
  <2> QED
    BY <1>1, <2>1, <2>13, Running
<1> QED
  BY <1>4, <1>5, <1>6

(* What the tokens behind => are when its body reads NULL *)
LEMMA WrittenS ==
  ASSUME toks \in Seq(Token), NEW at, TokenAt(toks, at) = "=>",
         \/ TokenAt(toks, at + 1) \in {"if", "while", "for", "fn", "import"}
         \/ TokenAt(toks, at + 1) \in Id /\ TokenAt(toks, at + 1 + 1) = ":=",
         toks' = toks
  PROVE  FaultsOnStatement'
<1>1. Len(toks) \in Nat /\ DOMAIN toks = 1 .. Len(toks)
  BY LenProperties
<1>2. at \in 1 .. Len(toks) /\ toks[at] = "=>"
  BY <1>1 DEF TokenAt
<1>3. TokenAt(toks, at + 1) # "past"
  BY DEF Id
<1>4. at + 1 \in 1 .. Len(toks) /\ toks[at + 1] = TokenAt(toks, at + 1)
  BY <1>1, <1>3 DEF TokenAt
<1>5. at \in 1 .. Len(toks) - 1 /\ at + 1 + 1 = at + 2
  BY <1>1, <1>2, <1>4
<1>6. TokenAt(toks, at + 1 + 1) = At(at + 2)
  BY <1>5 DEF TokenAt, At
<1>7. \E k \in 1 .. Len(toks) - 1 :
        /\ toks[k] = "=>"
        /\ \/ toks[k + 1] \in {"if", "while", "for", "fn", "import"}
           \/ toks[k + 1] \in Id /\ At(k + 2) = ":="
  BY <1>2, <1>4, <1>5, <1>6
<1> QED
  BY <1>7 DEF FaultsOnStatement, At

LEMMA FaultS ==
  ASSUME SInv, Ends("fault"), FaultsOnStatement'
  PROVE  SGoal
BY DEF SGoal, SInv, Ends

LEMMA ArrowEqS ==
  ASSUME SInv, ArrowEqEnd
  PROVE  SGoal
<1>1. outcome = "run" /\ Top.kind = "ArrowEq" /\ Top.i = 1
  BY DEF ArrowEqEnd, Parsed1
<1>2. /\ calls # <<>> /\ Traced(calls, toks) /\ toks \in Seq(Token)
      /\ Top = Last(calls) /\ Ready
  BY <1>1, SFacts
<1>3. \/ Nodes = <<>> /\ Ends("fault")
      \/ Ends("error")
      \/ \E n : Give(n)
  BY DEF ArrowEqEnd
<1>4. CASE Nodes = <<>> /\ Ends("fault")
  <2>1. TokenAt(toks, Top.at) = "=>"
    BY <1>1, <1>2, TracedFacts DEF Frame
  <2>2. TokenAt(toks, Top.at + 1) = "import"
    BY <1>1, <1>2, <1>4 DEF Ready, TokenAt, At
  <2>3. FaultsOnStatement'
    BY <1>2, <1>4, <2>1, <2>2, WrittenS DEF Ends
  <2> QED
    BY <1>4, <2>3, FaultS
<1>5. CASE \E n : Give(n)
  BY <1>1, <1>5, GiveS DEF Outer, Bodies
<1> QED
  BY <1>3, <1>4, <1>5, EndS

LEMMA StmtEndS ==
  ASSUME SInv, StmtEnd
  PROVE  SGoal
<1> DEFINE c == [Top EXCEPT !.i = 0]
<1>1. /\ outcome = "run" /\ Top.kind \in {"Prog", "Block"} /\ calls' = SetTop(c)
      /\ pos' = pos + 1 /\ toks' = toks /\ outcome' = outcome
  BY DEF StmtEnd, Parsed1
<1>2. Entry(Top) /\ pos \in Nat
  BY <1>1, SFacts
<1>3. Alike(c, Top)
  <2>1. 0 \in Nat
    OBVIOUS
  <2> QED
    BY <1>2, <2>1, AlikeSet
<1> HIDE DEF c
<1>4. Top.kind \in Outer /\ c.kind # "ArrowEq" /\ pos' \in Nat
  BY <1>1, <1>2, <1>3 DEF Alike, Outer, Bodies
<1> QED
  BY <1>1, <1>3, <1>4, TopS

LEMMA PastS ==
  ASSUME SInv, PastEnd \/ UnwindPast
  PROVE  SGoal
<1>1. Ends("past")
  BY DEF PastEnd, UnwindPast
<1> QED
  BY <1>1, EndS

(* After an error a call returns, and with an imported file its parser. *)
LEMMA UnwindS ==
  ASSUME SInv, Unwind
  PROVE  SGoal
<1> DEFINE below == Front(calls)
<1>1. outcome = "error" /\ calls # <<>> /\ calls' = below /\ outcome' = outcome
      /\ pos' = (IF OfImport THEN ImporterAt ELSE pos + (IF SkipsPart \/ SkipsStmt THEN 1 ELSE 0))
      /\ toks' = IF OfImport THEN Top.from ELSE toks
  BY Zenon DEF Unwind, Returning
<1>2. Traced(calls, toks) /\ toks \in Seq(Token) /\ pos \in Nat /\ Top = Last(calls)
  BY DEF SInv, Top
<1>3. Listed(calls) /\ Len(calls) \in Nat
  BY <1>1, <1>2, TracedFacts
<1>4. below # <<>> <=> Len(calls) > 1
  <2>1. below # <<>> => Len(calls) - 1 > 0
    BY <1>1, <1>3, FrontFacts
  <2>2. Len(below) = Len(calls) - 1
    BY <1>1, <1>3, FrontFacts
  <2>3. below = <<>> => Len(below) = 0
    BY EmptySeq
  <2> HIDE DEF below
  <2> QED
    BY <1>3, <2>1, <2>2, <2>3
<1>5. /\ Traced(below, toks')
      /\ below # <<>> => Under(Last(below), toks', Top, toks)
  BY <1>1, <1>2, <1>4, TracedPop DEF OfImport
<1> HIDE DEF below
<1>6. toks' \in Seq(Token) /\ pos' \in Nat
  <2>1. CASE OfImport
    <3>1. Imported(Top)
      BY <1>4, <1>5, <2>1 DEF Under, OfImport
    <3>2. toks' = Top.from /\ pos' = Top.back - 1
      BY <1>1, <2>1 DEF ImporterAt
    <3> QED
      BY <3>1, <3>2 DEF Imported
  <2>2. CASE ~OfImport
    <3>1. toks' = toks /\ (pos' = pos + 1 \/ pos' = pos + 0)
      BY <1>1, <2>2
    <3> QED
      BY <1>2, <3>1
  <2> QED
    BY <2>1, <2>2
<1>8. Traced(calls', toks')
  BY <1>1, <1>5
<1>9. outcome' \in {"done", "error", "past", "overflow"}
  BY <1>1
<1> QED
  BY <1>6, <1>8, <1>9, NotRunning

LEMMA UnwindNullS ==
  ASSUME SInv, UnwindNull
  PROVE  SGoal
<1> DEFINE below == Front(calls)
           caller == Last(below)
<1>1. /\ outcome = "error" /\ calls # <<>> /\ Caller = "ArrowEq" /\ Top.kind \notin Bodies
      /\ GivesNull /\ Ends("fault")
  BY DEF UnwindNull, Returning
<1>2. Traced(calls, toks) /\ toks \in Seq(Token) /\ Top = Last(calls)
  BY DEF SInv, Top
<1>3. Listed(calls) /\ Len(calls) \in Nat
  BY <1>1, <1>2, TracedFacts
<1>4. Len(calls) > 1 /\ calls[Len(calls) - 1].kind = "ArrowEq"
  BY <1>1, Zenon DEF Caller
<1>5. Top.kind # "Prog"
  BY <1>1 DEF Bodies
<1>6. Traced(below, toks) /\ below # <<>> /\ Under(caller, toks, Top, toks)
  BY <1>1, <1>2, <1>5, TracedPop
<1>7. caller.kind = "ArrowEq"
  BY <1>1, <1>3, <1>4, <1>6, FrontFacts
<1>8. TokenAt(toks, caller.at) = "=>"
  BY <1>6, <1>7, TracedFacts DEF Frame
<1>9. BeginsAs(toks, caller.at + 1, Top.kind) /\ Top.kind \in Statements
  BY <1>5, <1>6, <1>7 DEF Under, Bodies
<1>10. Top.kind \notin {"VAR_MUT", "RET"}
  BY <1>1 DEF GivesNull
<1> HIDE DEF caller
<1>11. \/ TokenAt(toks, caller.at + 1) \in {"if", "while", "for", "fn", "import"}
       \/ TokenAt(toks, caller.at + 1) \in Id /\ TokenAt(toks, caller.at + 1 + 1) = ":="
  BY <1>9, <1>10 DEF BeginsAs, Statements
<1>12. FaultsOnStatement'
  BY <1>1, <1>2, <1>8, <1>11, WrittenS DEF Ends
<1> QED
  BY <1>1, <1>12, FaultS

-----------------------------------------------------------------------------
(* The steps of the expression parser.                                     *)

Goes     == \E c : c.kind = Top.kind /\ calls' = SetTop(c)
Opens    == \E c, kind, at : /\ c.kind = Top.kind /\ kind \in Kinds
                             /\ calls' = Append(SetTop(c), Call(kind, at))
Returns  == /\ Front(calls) # <<>>
            /\ \E n : calls' = Put(Front(calls), Len(Front(calls)), With(Last(Front(calls)), n))
Moves    == calls' = calls \/ Goes \/ Opens \/ Returns

LEMMA KindKept ==
  ASSUME NEW c, Entry(c)
  PROVE  /\ \A n : With(c, n).kind = c.kind
         /\ \A s : [c EXCEPT !.i = s].kind = c.kind /\ [c EXCEPT !.nodes = s].kind = c.kind
         /\ \A s, b : [c EXCEPT !.i = s, !.before = b].kind = c.kind
<1>1. Record(c)
  BY DEF Entry
<1>2. \A s, b : [c EXCEPT !.i = s, !.before = b].kind = c.kind
  BY <1>1 DEF Record
<1> QED
  BY <1>1, <1>2, AlikeWith, Changed DEF Alike

LEMMA ReturnMoves ==
  ASSUME NEW n, Return(n)
  PROVE  Moves
<1> DEFINE below == Front(calls)
           caller == Last(below)
<1>1. \/ calls' = calls
      \/ below # <<>> /\ calls' = [below EXCEPT ![Len(below)] = With(caller, n)]
  BY Zenon DEF Return, Ends
<1> QED
  BY <1>1, Zenon DEF Moves, Returns, Put

LEMMA ExprRuns ==
  ASSUME ExprNext
  PROVE  outcome = "run" /\ Top.kind \in Kinds
<1>1. CASE Literal \/ Variable \/ FuncCall \/ BinOp \/ Not \/ Minus \/ Group \/ Dict \/ Index
  BY <1>1, Zenon DEF Kinds, Literal, Variable, FuncCall, BinOp, Not, Minus, Group, Dict, Index,
     Reads, Scans
<1>2. CASE List \/ IndexOfNull \/ Unexpected \/ Stopped \/ Comma \/ Item \/ Close \/ Single
  BY <1>2, Zenon DEF Kinds, List, IndexOfNull, Unexpected, Stopped, Comma, Item, Close, Single,
     Reads, Scans, Collects, Expands
<1>3. CASE SkipOp \/ Misplaced \/ Attach \/ PassDone
  BY <1>3, Zenon DEF Kinds, SkipOp, Misplaced, Attach, PassDone, Visits, Expands
<1> QED
  BY <1>1, <1>2, <1>3, Zenon DEF ExprNext

LEMMA ExprMoves ==
  ASSUME EInv, ExprNext
  PROVE  Moves
<1>1. outcome = "run" /\ Top.kind \in Kinds
  BY ExprRuns
<1>2. Entry(Top) /\ SetTop(Top) = calls
  BY <1>1, EFacts, SameTopE DEF Good
<1>3. \A how : Ends(how) => Moves
  BY Zenon DEF Ends, Moves
<1>4. \A n : Shift(n) => Moves
  BY <1>2, KindKept, Zenon DEF Shift, Moves, Goes
<1>5. \A n : Return(n) => Moves
  BY ReturnMoves
<1>6. \A kind \in Kinds : \A at, k : Begin(Call(kind, at), calls, k) => Moves
  BY <1>2, Zenon DEF Begin, Moves, Opens
<1>7. CASE Literal \/ Variable \/ BinOp \/ Not \/ Minus
  BY <1>1, <1>3, <1>4, <1>7, Zenon DEF Literal, Variable, BinOp, Not, Minus
<1>8. CASE FuncCall \/ Group \/ Dict \/ List \/ Item
  <2>1. {"FUNC_CALL", "PARS", "DICT", "LIST", "ARGS"} \subseteq Kinds
    BY DEF Kinds, Sequences, Expressions
  <2> QED
    BY <1>1, <1>6, <1>8, <2>1, Zenon DEF FuncCall, Group, Dict, List, Item
<1>9. CASE Index
  <2>1. Begin(Call("SQBRAS", pos), SetTop(With(Top, Bin("[", pos))), 1)
    BY <1>9, Zenon DEF Index
  <2>2. "SQBRAS" \in Kinds
    BY DEF Kinds, Expressions
  <2> QED
    BY <1>1, <1>2, <2>1, <2>2, KindKept, Zenon DEF Begin, Moves, Opens
<1>10. CASE Stopped \/ PassDone
  <2>1. \/ Return(NULL) \/ Ends("error")
        \/ calls' = SetTop([Top EXCEPT !.i = 1, !.before = Len(Nodes)])
    BY <1>10, Zenon DEF Stopped, PassDone
  <2>2. [Top EXCEPT !.i = 1, !.before = Len(Nodes)].kind = Top.kind
    BY <1>2, KindKept
  <2> QED
    BY <1>1, <1>3, <1>5, <2>1, <2>2, Zenon DEF Moves, Goes
<1>11. CASE Comma \/ Close \/ Single \/ Misplaced \/ IndexOfNull \/ Unexpected
  BY <1>1, <1>3, <1>5, <1>11, Zenon DEF Comma, Close, Single, Misplaced, IndexOfNull, Unexpected, Moves
<1>12. CASE SkipOp \/ Attach
  BY <1>1, <1>2, <1>12, KindKept, Zenon DEF SkipOp, Attach, Moves, Goes
<1> QED
  BY <1>1, <1>7, <1>8, <1>9, <1>10, <1>11, <1>12, Zenon DEF ExprNext

LEMMA InnerKinds ==
  ASSUME NEW kind \in Kinds
  PROVE  kind \notin Outer /\ kind \notin Bodies /\ kind # "Prog" /\ kind # "ArrowEq"
BY DEF Kinds, Sequences, Expressions, Outer, Statements, Bodies

LEMMA GoesS ==
  ASSUME SInv, outcome = "run", Top.kind \in Kinds, EInv', toks' = toks, Goes
  PROVE  Traced(calls', toks') /\ calls' # <<>> /\ Top'.kind # "ArrowEq"
<1>1. calls # <<>> /\ Listed(calls) /\ Traced(calls, toks) /\ Top = Last(calls)
  BY SFacts
<1>2. PICK c : c.kind = Top.kind /\ calls' = SetTop(c)
  BY DEF Goes
<1>3. calls' = Put(calls, Len(calls), c)
  BY <1>2 DEF SetTop, Put
<1>4. Entry(c)
  <2>1. Len(calls') = Len(calls) /\ calls'[Len(calls)] = c /\ Len(calls) \in 1 .. Len(calls)
    BY <1>1, <1>2, TopPut, ListedFacts
  <2>2. \A n \in 1 .. Len(calls') : Entry(calls'[n])
    BY DEF EInv, Good, Entry, Record
  <2> QED
    BY <2>1, <2>2
<1>5. Alike(c, Last(calls)) /\ c.kind # "ArrowEq"
  BY <1>1, <1>2, <1>4, InnerKinds DEF Alike
<1>6. Traced(calls', toks) /\ calls' # <<>> /\ Last(calls') = c
  BY <1>1, <1>3, <1>5, TracedTop
<1> QED
  BY <1>5, <1>6 DEF Top

LEMMA OpensS ==
  ASSUME SInv, outcome = "run", Top.kind \in Kinds, EInv', toks' = toks, Opens
  PROVE  Traced(calls', toks') /\ calls' # <<>> /\ Top'.kind # "ArrowEq"
<1>1. /\ calls # <<>> /\ Listed(calls) /\ Traced(calls, toks) /\ Top = Last(calls)
      /\ toks \in Seq(Token) /\ EInv /\ Len(calls) \in Nat /\ Len(calls) \in 1 .. Len(calls)
  BY SFacts, EFacts
<1>2. PICK c, kind, at : /\ c.kind = Top.kind /\ kind \in Kinds
                         /\ calls' = Append(SetTop(c), Call(kind, at))
  BY DEF Opens
<1> DEFINE s == SetTop(c)
           d == Call(kind, at)
<1>3. s = Put(calls, Len(calls), c) /\ Listed(s) /\ Len(s) = Len(calls) /\ s[Len(calls)] = c
  BY <1>1, TopPut DEF SetTop, Put
<1>4. d.kind = kind /\ Entry(d)
  BY GoodNew DEF Good
<1> HIDE DEF s, d
<1>5. calls' = Append(s, d)
  BY <1>2 DEF s, d
<1>6. /\ Len(calls') = Len(calls) + 1 /\ calls'[Len(calls) + 1] = d
      /\ calls'[Len(calls)] = c
  BY <1>1, <1>3, <1>5, ListedAppend
<1>7. Entry(c) /\ Adjacent(c, d)
  <2>1. Len(calls) \in 1 .. Len(calls') /\ Len(calls) \in 1 .. Len(calls') - 1
    BY <1>1, <1>6
  <2>2. \A n \in 1 .. Len(calls') : Entry(calls'[n])
    BY DEF EInv, Good, Entry, Record
  <2>3. \A n \in 1 .. Len(calls') - 1 : Adjacent(calls'[n], calls'[n + 1])
    BY DEF EInv, Adjacent
  <2> QED
    BY <1>6, <2>1, <2>2, <2>3
<1>8. c.kind \in Kinds /\ Alike(c, Last(calls))
  BY <1>1, <1>2, <1>7, InnerKinds DEF Alike
<1>9. Traced(s, toks) /\ s # <<>> /\ Last(s) = c
  BY <1>1, <1>3, <1>8, TracedTop
<1>10. Frame(d, toks) /\ Under(c, toks, d, toks) /\ d.kind \notin Outer /\ d.kind # "ArrowEq"
  BY <1>1, <1>2, <1>4, <1>7, <1>8, InnerKinds DEF Frame, Under
<1>11. Traced(calls', toks) /\ calls' # <<>> /\ Last(calls') = d
  BY <1>5, <1>9, <1>10, TracedPush
<1> QED
  BY <1>10, <1>11 DEF Top

LEMMA ReturnsS ==
  ASSUME SInv, outcome = "run", Top.kind \in Kinds, EInv', toks' = toks, Returns
  PROVE  Traced(calls', toks') /\ calls' # <<>> /\ Top'.kind # "ArrowEq"
<1> DEFINE below == Front(calls)
           caller == Last(below)
<1>1. calls # <<>> /\ Listed(calls) /\ Traced(calls, toks) /\ Top = Last(calls)
  BY SFacts
<1>2. PICK n : below # <<>> /\ calls' = Put(below, Len(below), With(caller, n))
  BY DEF Returns
<1> DEFINE c == With(caller, n)
<1>3. Top.kind # "Prog" /\ Top.kind \notin Statements
  BY InnerKinds DEF Outer
<1>4. Traced(below, toks) /\ Under(caller, toks, Top, toks)
  BY <1>1, <1>2, <1>3, TracedPop
<1> HIDE DEF below
<1>5. Entry(caller)
  BY <1>2, <1>4, TracedFacts DEF Frame
<1>6. Alike(c, Last(below))
  BY <1>5, AlikeWith
<1>7. caller.kind # "ArrowEq"
  BY <1>3, <1>4 DEF Under, Bodies
<1>8. c.kind # "ArrowEq"
  BY <1>6, <1>7 DEF Alike
<1>9. calls' = Put(below, Len(below), c)
  BY <1>2
<1> HIDE DEF c, caller
<1>10. Traced(calls', toks) /\ calls' # <<>> /\ Last(calls') = c
  BY <1>2, <1>4, <1>6, <1>9, TracedTop
<1> QED
  BY <1>8, <1>10 DEF Top

(* A step of the expression parser, inside a statement *)
LEMMA ExprS ==
  ASSUME SInv, ExprNext
  PROVE  SGoal
<1>1. toks' = toks
  BY TokensKept
<1>2. EInv /\ toks \in Seq(Token) /\ outcome = "run" /\ Traced(calls, toks) /\ calls # <<>>
  BY ExprRuns, SFacts
<1>3. Top.kind \in Kinds /\ Moves
  BY <1>2, ExprRuns, ExprMoves
<1>4. EInv' /\ (outcome' = "fault" => EmptyBrackets)
  BY <1>2, ExprE DEF EGoal
<1>5. Traced(calls', toks') /\ calls' # <<>> /\ Top'.kind # "ArrowEq"
  <2>1. CASE calls' = calls
    BY <1>1, <1>2, <1>3, <2>1, InnerKinds DEF Top
  <2> QED
    BY <1>1, <1>2, <1>3, <1>4, <2>1, GoesS, OpensS, ReturnsS DEF Moves
<1>6. Ready'
  BY <1>5 DEF Ready
<1>7. SInv'
  BY <1>4, <1>5, <1>6 DEF SInv, EInv
<1>8. FaultsOnStatement'
  BY <1>1, <1>4 DEF FaultsOnStatement, EmptyBrackets
<1> QED
  BY <1>7, <1>8 DEF SGoal

-----------------------------------------------------------------------------
LEMMA InitS ==
  ASSUME ParserInit
  PROVE  SInv /\ FaultsOnStatement
<1> DEFINE c == Call("Prog", 1)
<1>1. pos = 1 /\ calls = <<c>> /\ outcome = "run"
  BY DEF ParserInit
<1>2. toks \in Seq(Token) /\ pos \in Nat
  <2>1. PICK input \in Inputs : toks = Append(input, "EOF")
    BY DEF ParserInit
  <2>2. input \in Seq(Token)
    BY InputAssumption
  <2>3. "EOF" \in Token
    BY DEF Token, StmtToken
  <2>4. toks \in Seq(Token)
    BY <2>1, <2>2, <2>3, AppendProperties
  <2> QED
    BY <1>1, <2>4
<1>3. Good(c) /\ c.kind = "Prog" /\ c.i = 0
  BY GoodNew
<1> HIDE DEF c
<1>4. /\ <<c>> \in Seq({c}) /\ Len(<<c>>) = 1 /\ <<c>>[1] = c
      /\ <<toks>> \in Seq({toks}) /\ Len(<<toks>>) = 1 /\ <<toks>>[1] = toks
  OBVIOUS
<1> DEFINE F == <<toks>>
<1>5. /\ Listed(calls) /\ Len(calls) = 1 /\ calls[1] = c /\ calls # <<>>
      /\ Listed(F) /\ Len(F) = 1 /\ F[1] = toks /\ Last(F) = toks
  BY <1>1, <1>4, ListedIn, EmptySeq DEF Last
<1>6. Top = c
  BY <1>5 DEF Top, Last
<1> HIDE DEF F
<1>7. /\ \A n \in 1 .. 1 : n = 1
      /\ \A n \in 1 .. 1 - 1 : FALSE
  OBVIOUS
<1>8. c.kind \in Outer /\ c.kind # "ArrowEq" /\ c.kind \notin Expressions
  BY <1>3, OuterKinds DEF Outer, Bodies
<1>9. Traced(calls, toks)
  <2>1. Frame(c, toks)
    BY <1>2, <1>3, <1>8 DEF Frame, Good
  <2>2. Chain(calls, F)
    BY <1>3, <1>5, <1>7, <1>8, <2>1 DEF Chain
  <2> QED
    BY <1>5, <2>2 DEF Traced
<1>10. Began /\ DictReady /\ Ready
  BY <1>3, <1>6, <1>8, Zenon DEF Began, DictReady, Ready
<1>11. EInv
  BY <1>2, <1>3, <1>5, <1>7, <1>10 DEF EInv
<1> QED
  BY <1>1, <1>2, <1>9, <1>10, <1>11 DEF SInv, FaultsOnStatement

LEMMA RestsS ==
  ASSUME SInv, FaultsOnStatement, UNCHANGED vars
  PROVE  SGoal
<1>1. UNCHANGED <<toks, pos, calls, outcome>>
  BY DEF vars
<1>2. EInv => EInv'
  BY <1>1, SameE
<1>3. Ready' <=> Ready
  BY <1>1 DEF Ready, Top, Nodes, At
<1>4. SInv'
  BY <1>1, <1>2, <1>3 DEF SInv
<1>5. FaultsOnStatement'
  BY <1>1 DEF FaultsOnStatement, EmptyBrackets, At
<1> QED
  BY <1>4, <1>5 DEF SGoal

LEMMA NextS ==
  ASSUME SInv, FaultsOnStatement, ParserNext
  PROVE  SGoal
<1>1. CASE VarDef \/ VarMut \/ Ret \/ If \/ While \/ Jump \/ For \/ Fn \/ Import
  BY <1>1, SimpleS, JumpS, ForS, FnS, ImportS, Zenon
<1>2. CASE \/ Complete \/ NoElse \/ ArrowEnd \/ ForCond \/ ForMut \/ ElseIf
           \/ Param \/ BadParam \/ ParamsEnd \/ Body \/ Else
  BY <1>2, CompleteS, PartS, ParamS, BodyS, Zenon
<1>3. CASE \/ BodyEnd \/ ArrowEqEnd \/ StmtEnd \/ PastEnd
           \/ Unwind \/ UnwindPast \/ UnwindNull
  BY <1>3, LeaveS, ArrowEqS, StmtEndS, PastS, UnwindS, UnwindNullS, Zenon
<1>4. CASE ExprNext \/ Rests
  BY <1>4, ExprS, RestsS, Zenon DEF Rests
<1> QED
  BY <1>1, <1>2, <1>3, <1>4, Zenon DEF ParserNext

(* Whatever program is parsed, with whatever files it imports, NULL is     *)
(* read for a statement by parse_body only behind => (parser.c:790), when  *)
(* what follows it begins a statement that is no expression, or an import; *)
(* and for a node of an expression only where brackets are empty.          *)
THEOREM NullFromStatement == ParserSpec => []FaultsOnStatement
<1> DEFINE Inv == SInv /\ FaultsOnStatement
<1>1. ParserInit => Inv
  BY InitS
<1>2. ASSUME Inv, [ParserNext]_vars PROVE Inv'
  BY <1>2, NextS, RestsS DEF SGoal
<1> QED
  BY <1>1, <1>2, PTL DEF ParserSpec

-----------------------------------------------------------------------------
(***************************************************************************)
(* The end of the file: which tokens are skipped because of what they are, *)
(* and which are skipped unread, each of them with another one behind it.  *)
(***************************************************************************)
Filed(t)  == t \in Seq(Token) /\ Len(t) > 0 /\ t[Len(t)] = "EOF"
Ragged(t) == TokenAt(t, Len(t) - 1) = "break" \/ TokenAt(t, Len(t) - 2) = "import"

\* The tokens that the call of an imported file has put aside
Aside(c)  == /\ Imported(c) /\ Filed(c.from)
             /\ Ragged(c.from) \/ c.back < Len(c.from)

\* A call c that waits for a call d
Inside(c, d) == /\ c.kind \in Expressions => c.i = 0
                /\ d.kind \in {"PARS", "SQBRAS"} \cup Sequences => c.kind \in Expressions
                /\ d.kind = "Prog" => Aside(d)
Linked(s) == Listed(s) /\ \A n \in 1 .. Len(s) - 1 : Inside(s[n], s[n + 1])

\* Call c has got to the last token of a statement, or of a part of it.
Arrives(c) == \/ c.kind \in Bodies /\ c.i # 0
              \/ c.kind \in Statements \ {"FUNC_DEF"} /\ c.nodes # <<>>
              \/ c.kind = "FUNC_DEF" /\ c.i = 2
Place(c, t, k) == Ragged(t) \/ (k <= Len(t) /\ (Arrives(c) => k < Len(t)))
ReadOn == Top.kind \in Expressions /\ Top.i # 0 => Peek \in Stop(Top.kind)

QInv == outcome = "run" => Linked(calls) /\ Filed(toks) /\ ReadOn /\ Place(Top, toks, pos)

\* What every step of the parser shows
QGoal == QInv' /\ (outcome = "run" /\ outcome' = "past" => Unfinished)

LEMMA LinkedTop ==
  ASSUME NEW s, Linked(s), s # <<>>, NEW c, Alike(c, Last(s))
  PROVE  Linked(Put(s, Len(s), c)) /\ Put(s, Len(s), c) # <<>> /\ Last(Put(s, Len(s), c)) = c
<1> DEFINE k == Len(s)
           r == Put(s, k, c)
<1>1. k \in Nat /\ k > 0 /\ k # 0 /\ Listed(s) /\ k \in 1 .. k
  BY ListedFacts DEF Linked
<1>2. Listed(r) /\ Len(r) = k /\ \A m \in 1 .. k : r[m] = IF m = k THEN c ELSE s[m]
  BY <1>1, ListedExcept
<1>3. Last(s) = s[k]
  BY DEF Last
<1> HIDE DEF r
<1>4. ASSUME NEW m \in 1 .. k - 1 PROVE Inside(r[m], r[m + 1])
  <2>1. Inside(s[m], s[m + 1])
    BY DEF Linked
  <2>2. m \in 1 .. k /\ m # k /\ m + 1 \in 1 .. k
    BY <1>1
  <2>3. r[m] = s[m]
    BY <1>2, <2>2
  <2>4. CASE m + 1 # k
    BY <1>2, <2>1, <2>2, <2>3, <2>4
  <2>5. CASE m + 1 = k
    <3>1. r[m + 1] = c /\ Inside(s[m], Last(s))
      BY <1>1, <1>2, <1>3, <2>1, <2>5
    <3>2. Inside(s[m], c)
      BY <3>1 DEF Inside, Aside, Alike, Bodies
    <3> QED
      BY <2>3, <3>1, <3>2
  <2> QED
    BY <2>4, <2>5
<1>5. r # <<>> /\ Last(r) = c
  <2>1. r # <<>>
    BY <1>1, <1>2, EmptySeq
  <2> QED
    BY <1>1, <1>2, <2>1 DEF Last
<1>6. Linked(r)
  BY <1>2, <1>4 DEF Linked
<1> QED
  BY <1>5, <1>6 DEF r

LEMMA LinkedPush ==
  ASSUME NEW s, Linked(s), s # <<>>, NEW c, Inside(Last(s), c)
  PROVE  Linked(Append(s, c)) /\ Append(s, c) # <<>> /\ Last(Append(s, c)) = c
<1> DEFINE k == Len(s)
           r == Append(s, c)
<1>1. k \in Nat /\ k > 0 /\ k \in 1 .. k /\ Listed(s)
  BY ListedFacts DEF Linked
<1>2. Listed(r) /\ Len(r) = k + 1 /\ r[k + 1] = c /\ \A m \in 1 .. k : r[m] = s[m]
  BY <1>1, ListedAppend
<1>3. Last(s) = s[k]
  BY DEF Last
<1> HIDE DEF r
<1>4. ASSUME NEW m \in 1 .. k + 1 - 1 PROVE Inside(r[m], r[m + 1])
  <2>1. m \in 1 .. k /\ (m = k \/ (m \in 1 .. k - 1 /\ m + 1 \in 1 .. k))
    BY <1>1
  <2>2. CASE m = k
    BY <1>1, <1>2, <1>3, <2>2
  <2>3. CASE m \in 1 .. k - 1 /\ m + 1 \in 1 .. k
    <3>1. Inside(s[m], s[m + 1])
      BY <2>3 DEF Linked
    <3> QED
      BY <1>2, <2>1, <2>3, <3>1
  <2> QED
    BY <2>1, <2>2, <2>3
<1>5. r # <<>> /\ Last(r) = c
  <2>1. Len(r) # 0
    BY <1>1, <1>2
  <2>2. r # <<>>
    BY <2>1, EmptySeq
  <2> QED
    BY <1>2, <2>2 DEF Last
<1>6. Linked(r)
  BY <1>2, <1>4 DEF Linked
<1> QED
  BY <1>5, <1>6 DEF r

LEMMA LinkedPop ==
  ASSUME NEW s, Linked(s), s # <<>>
  PROVE  /\ Linked(Front(s))
         /\ Front(s) # <<>> => Inside(Last(Front(s)), Last(s))
<1> DEFINE k == Len(s) - 1
           r == Front(s)
<1>1. Len(s) \in Nat /\ Len(s) > 0 /\ Listed(s)
  BY ListedFacts DEF Linked
<1>2. /\ Listed(r) /\ Len(r) = k /\ k \in Nat /\ \A m \in 1 .. k : r[m] = s[m]
      /\ r # <<>> => k > 0 /\ k \in 1 .. k /\ Last(r) = s[k]
  BY <1>1, FrontFacts
<1>3. Last(s) = s[k + 1]
  BY <1>1 DEF Last
<1> HIDE DEF r
<1>4. \A m \in 1 .. k - 1 : m \in 1 .. k /\ m + 1 \in 1 .. k /\ m \in 1 .. Len(s) - 1
  BY <1>1
<1>5. \A m \in 1 .. k - 1 : Inside(r[m], r[m + 1])
  BY <1>2, <1>4 DEF Linked
<1>6. r # <<>> => Inside(Last(r), Last(s))
  BY <1>2, <1>3 DEF Linked
<1>7. Linked(r)
  BY <1>2, <1>5 DEF Linked
<1> QED
  BY <1>6, <1>7 DEF r

LEMMA QFacts ==
  ASSUME SInv, QInv, outcome = "run"
  PROVE  /\ calls # <<>> /\ Linked(calls) /\ Listed(calls) /\ Top = Last(calls) /\ Entry(Top)
         /\ Filed(toks) /\ ReadOn /\ Place(Top, toks, pos)
         /\ pos \in Nat /\ Len(toks) \in Nat
<1>1. Filed(toks) /\ Linked(calls) /\ ReadOn /\ Place(Top, toks, pos)
  BY DEF QInv
<1>2. Len(toks) \in Nat
  BY <1>1, LenProperties DEF Filed
<1> QED
  BY <1>1, <1>2, SFacts

(* A token that is there and does not end the file has one behind it. *)
LEMMA Onward ==
  ASSUME NEW t, Filed(t), NEW k \in Nat, TokenAt(t, k) \notin {"past", "EOF"}
  PROVE  Len(t) \in Nat /\ k < Len(t) /\ k + 1 <= Len(t)
<1>1. Len(t) \in Nat /\ DOMAIN t = 1 .. Len(t) /\ t[Len(t)] = "EOF"
  BY LenProperties, SMTT(30) DEF Filed
<1>2. k \in 1 .. Len(t) /\ k # Len(t)
  BY <1>1 DEF TokenAt
<1>3. \A n \in Nat : k \in 1 .. n /\ k # n => k < n /\ k + 1 <= n
  OBVIOUS
<1> QED
  BY <1>1, <1>2, <1>3, Zenon

LEMMA StopsQ ==
  ASSUME outcome' # "run", outcome' # "past"
  PROVE  QGoal
BY DEF QGoal, QInv

LEMMA RunsQ ==
  ASSUME QInv', outcome' # "past"
  PROVE  QGoal
BY DEF QGoal

(* The innermost call goes on. *)
LEMMA GoesQ ==
  ASSUME SInv, QInv, outcome = "run", NEW c, Alike(c, Top), calls' = SetTop(c), toks' = toks,
         c.kind \in Expressions /\ c.i # 0 => Peek' \in Stop(c.kind),
         Place(c, toks, pos')
  PROVE  QInv'
<1>1. calls # <<>> /\ Linked(calls) /\ Top = Last(calls) /\ Filed(toks)
  BY QFacts
<1>2. calls' = Put(calls, Len(calls), c)
  BY DEF SetTop, Put
<1>3. Linked(calls') /\ Last(calls') = c
  BY <1>1, <1>2, LinkedTop
<1>4. Top' = c
  BY <1>3 DEF Top
<1>5. ReadOn'
  BY <1>4, Zenon DEF ReadOn
<1> QED
  BY <1>1, <1>3, <1>4, <1>5 DEF QInv

(* A call begins. *)
LEMMA PushesQ ==
  ASSUME NEW s, Linked(s), s # <<>>, NEW c, Inside(Last(s), c), c.i = 0, c.nodes = <<>>,
         calls' = Append(s, c), Filed(toks'),
         Ragged(toks') \/ pos' <= Len(toks')
  PROVE  QInv'
<1>1. Linked(calls') /\ Last(calls') = c
  BY LinkedPush
<1>2. Top' = c
  BY <1>1 DEF Top
<1>3. ReadOn'
  BY <1>2, Zenon DEF ReadOn
<1>4. ~Arrives(c)
  BY DEF Arrives
<1> QED
  BY <1>1, <1>2, <1>3, <1>4 DEF QInv, Place

LEMMA PushQ ==
  ASSUME NEW s, Linked(s), s # <<>>, NEW kind, NEW at, Inside(Last(s), Call(kind, at)),
         calls' = Append(s, Call(kind, at)), Filed(toks'),
         Ragged(toks') \/ pos' <= Len(toks')
  PROVE  QInv'
BY GoodNew, PushesQ

Plain == Statements \cup (Bodies \ {"Prog"}) \cup {"STMT", "COND"}

LEMMA PlainPush ==
  ASSUME NEW c, c.kind \notin Expressions, NEW kind \in Plain, NEW at
  PROVE  Inside(c, Call(kind, at))
<1>1. Call(kind, at).kind = kind
  BY GoodNew
<1>2. kind \notin {"PARS", "SQBRAS"} \cup Sequences /\ kind # "Prog"
  BY DEF Plain, Statements, Bodies, Sequences
<1> QED
  BY <1>1, <1>2, Zenon DEF Inside

(* The innermost call returns n. *)
LEMMA GivesQ ==
  ASSUME SInv, QInv, outcome = "run", Front(calls) # <<>>, NEW n,
         calls' = Put(Front(calls), Len(Front(calls)), With(Last(Front(calls)), n)),
         toks' = toks,
         \/ Ragged(toks)
         \/ /\ pos' <= Len(toks)
            /\ Last(Front(calls)).kind \in Outer => pos' < Len(toks)
  PROVE  QInv'
<1> DEFINE below == Front(calls)
           caller == Last(below)
           c == With(caller, n)
<1>1. calls # <<>> /\ Linked(calls) /\ Filed(toks) /\ Listed(calls)
  BY QFacts
<1>2. Linked(below) /\ Inside(caller, Last(calls))
  BY <1>1, LinkedPop
<1>3. Entry(caller)
  <2>1. Len(calls) - 1 \in 1 .. Len(calls) - 1 /\ caller = calls[Len(calls) - 1] /\ Len(calls) \in Nat
    BY <1>1, FrontFacts, ListedFacts
  <2>2. \A m \in 1 .. Len(calls) : Entry(calls[m])
    BY <1>1, TracedFacts DEF SInv
  <2>3. Len(calls) - 1 \in 1 .. Len(calls)
    BY <2>1
  <2> QED
    BY <2>1, <2>2, <2>3
<1>4. Alike(c, Last(below)) /\ c.i = caller.i /\ c.kind = caller.kind
  BY <1>3, AlikeWith DEF Alike
<1>5. calls' = Put(below, Len(below), c)
  OBVIOUS
<1> HIDE DEF c
<1>6. Linked(calls') /\ Last(calls') = c
  BY <1>2, <1>4, <1>5, LinkedTop
<1>7. Top' = c
  BY <1>6 DEF Top
<1>8. ReadOn'
  BY <1>2, <1>4, <1>7, Zenon DEF ReadOn, Inside
<1>9. Arrives(c) => caller.kind \in Outer
  BY <1>4 DEF Arrives, Outer, Statements
<1> HIDE DEF below, caller
<1>10. Place(c, toks, pos')
  BY <1>9 DEF Place, caller, below
<1> QED
  BY <1>1, <1>6, <1>7, <1>8, <1>10 DEF QInv

(* Statements begin in the body that is the innermost call. *)
LEMMA ParsingQ ==
  ASSUME SInv, QInv, AtStmt
  PROVE  /\ outcome = "run" /\ Top.kind \in Bodies
         /\ Alike(Parsing, Top) /\ Parsing.i = 1
         /\ Linked(SetTop(Parsing)) /\ Listed(SetTop(Parsing)) /\ SetTop(Parsing) # <<>>
         /\ Last(SetTop(Parsing)) = Parsing /\ Parsing.kind \notin Expressions
<1>1. outcome = "run" /\ Top.kind \in Bodies
  BY DEF AtStmt, Looks
<1>2. calls # <<>> /\ Linked(calls) /\ Top = Last(calls) /\ Entry(Top)
  BY <1>1, QFacts
<1>3. Alike(Parsing, Top) /\ Parsing.i = 1
  BY <1>2, ParsingFacts
<1>4. SetTop(Parsing) = Put(calls, Len(calls), Parsing)
  BY DEF SetTop, Put
<1>5. /\ Linked(SetTop(Parsing)) /\ SetTop(Parsing) # <<>>
      /\ Last(SetTop(Parsing)) = Parsing
  BY <1>2, <1>3, <1>4, LinkedTop
<1>6. Parsing.kind \notin Expressions
  <2>1. Parsing.kind \in Outer
    BY <1>1, <1>3 DEF Alike, Outer
  <2> QED
    BY <2>1, OuterKinds
<1> QED
  BY <1>1, <1>3, <1>5, <1>6 DEF Linked

LEMMA StartQ ==
  ASSUME SInv, QInv, AtStmt, NEW skip \in Nat, NEW frames, Start(frames, skip),
         \/ \E kind \in Statements, at \in {pos, pos + 1} : frames = <<Call(kind, at)>>
         \/ \E kind \in Statements, kind2 \in Plain, at, at2 \in {pos, pos + 1} :
              frames = <<Call(kind, at), Call(kind2, at2)>>
         \/ \E kind \in Statements, kind2 \in Statements, at, at2, at3 \in {pos, pos + 1} :
              frames = <<Call(kind, at), Call(kind2, at2), Call("STMT", at3)>>,
         Ragged(toks) \/ pos + skip <= Len(toks)
  PROVE  QGoal
<1> DEFINE s == SetTop(Parsing)
<1>1. /\ outcome = "run" /\ Linked(s) /\ Listed(s) /\ s # <<>>
      /\ Last(s).kind \notin Expressions
  BY ParsingQ
<1>2. calls' = s \o frames /\ pos' = pos + skip /\ toks' = toks /\ outcome' = outcome
  BY DEF Start
<1> HIDE DEF s
<1>3. Filed(toks') /\ (Ragged(toks') \/ pos' <= Len(toks'))
  BY <1>1, <1>2, QFacts
<1>4. Statements \subseteq Plain /\ "STMT" \in Plain /\ \A k \in Statements : k \notin Expressions
  BY DEF Plain, Statements, Expressions
<1>5. ASSUME NEW r, Linked(r), r # <<>>, Last(r).kind \notin Expressions, NEW kind \in Statements, NEW at
      PROVE  /\ Linked(Append(r, Call(kind, at))) /\ Append(r, Call(kind, at)) # <<>>
             /\ Last(Append(r, Call(kind, at))).kind \notin Expressions
  <2>1. Inside(Last(r), Call(kind, at)) /\ Call(kind, at).kind = kind
    BY <1>4, <1>5, PlainPush, GoodNew
  <2> QED
    BY <1>4, <1>5, <2>1, LinkedPush
<1>6. ASSUME NEW r, Linked(r), r # <<>>, Last(r).kind \notin Expressions, NEW kind \in Plain, NEW at,
             calls' = Append(r, Call(kind, at))
      PROVE  QInv'
  BY <1>3, <1>6, PlainPush, PushQ
<1>7. CASE \E kind \in Statements, at \in {pos, pos + 1} : frames = <<Call(kind, at)>>
  <2>1. PICK kind \in Statements, at \in {pos, pos + 1} : frames = <<Call(kind, at)>>
    BY <1>7
  <2>2. calls' = Append(s, Call(kind, at))
    BY <1>1, <1>2, <2>1, Together
  <2>3. QInv'
    BY <1>1, <1>4, <1>6, <2>2
  <2> QED
    BY <1>1, <1>2, <2>3, RunsQ
<1>8. CASE \E kind \in Statements, kind2 \in Plain, at, at2 \in {pos, pos + 1} :
             frames = <<Call(kind, at), Call(kind2, at2)>>
  <2>1. PICK kind \in Statements, kind2 \in Plain, at, at2 \in {pos, pos + 1} :
               frames = <<Call(kind, at), Call(kind2, at2)>>
    BY <1>8
  <2>2. calls' = Append(Append(s, Call(kind, at)), Call(kind2, at2))
    BY <1>1, <1>2, <2>1, Together
  <2>3. QInv'
    BY <1>1, <1>5, <1>6, <2>2
  <2> QED
    BY <1>1, <1>2, <2>3, RunsQ
<1>9. CASE \E kind \in Statements, kind2 \in Statements, at, at2, at3 \in {pos, pos + 1} :
             frames = <<Call(kind, at), Call(kind2, at2), Call("STMT", at3)>>
  <2>1. PICK kind \in Statements, kind2 \in Statements, at, at2, at3 \in {pos, pos + 1} :
               frames = <<Call(kind, at), Call(kind2, at2), Call("STMT", at3)>>
    BY <1>9
  <2> DEFINE r == Append(s, Call(kind, at))
  <2>2. calls' = Append(Append(r, Call(kind2, at2)), Call("STMT", at3))
    BY <1>1, <1>2, <2>1, Together
  <2>3. Linked(r) /\ r # <<>> /\ Last(r).kind \notin Expressions
    BY <1>1, <1>5
  <2> HIDE DEF r
  <2>4. QInv'
    BY <1>4, <1>5, <1>6, <2>2, <2>3
  <2> QED
    BY <1>1, <1>2, <2>4, RunsQ
<1> QED
  BY <1>7, <1>8, <1>9

(* The tokens there are behind the one that peek() shows *)
LEMMA Reached ==
  ASSUME SInv, QInv, outcome = "run"
  PROVE  /\ Peek \notin {"past", "EOF"} => pos < Len(toks) /\ pos + 1 <= Len(toks)
         /\ Peek2 \notin {"past", "EOF"} => pos + 1 < Len(toks) /\ pos + 2 <= Len(toks)
         /\ At(pos + 2) \notin {"past", "EOF"} => pos + 2 < Len(toks) /\ pos + 3 <= Len(toks)
<1>1. Filed(toks) /\ pos \in Nat
  BY QFacts
<1>2. \A k : At(k) = TokenAt(toks, k)
  BY DEF At, TokenAt
<1>3. \A k \in Nat : At(k) \notin {"past", "EOF"} => k < Len(toks) /\ k + 1 <= Len(toks)
  BY <1>1, <1>2, Onward
<1>4. pos + 1 \in Nat /\ pos + 2 \in Nat /\ pos + 1 + 1 = pos + 2 /\ pos + 2 + 1 = pos + 3
  BY <1>1
<1> QED
  BY <1>1, <1>3, <1>4 DEF Peek, Peek2

LEMMA SimpleQ ==
  ASSUME SInv, QInv, VarDef \/ VarMut \/ Ret \/ If \/ While
  PROVE  QGoal
<1>1. AtStmt /\ outcome = "run"
  BY DEF VarDef, VarMut, Ret, If, While, AtStmt, Looks
<1>2. pos <= Len(toks) /\ pos + 0 = pos
  BY <1>1, QFacts DEF AtStmt, Looks
<1>3. "STMT" \in Plain /\ "COND" \in Plain
  BY DEF Plain
<1>4. CASE VarDef
  <2>1. Start(<<Call("VAR_DEF", pos), Call("STMT", pos)>>, 2) /\ Peek2 \notin {"past", "EOF"}
    BY <1>4 DEF VarDef
  <2>2. pos + 2 <= Len(toks)
    BY <1>1, <2>1, Reached
  <2>3. "VAR_DEF" \in Statements
    BY DEF Statements
  <2> QED
    BY <1>1, <1>3, <2>1, <2>2, <2>3, StartQ
<1>5. CASE VarMut
  <2>1. Start(<<Call("VAR_MUT", pos), Call("STMT", pos)>>, 0) /\ "VAR_MUT" \in Statements
    BY <1>5 DEF VarMut, Statements
  <2> QED
    BY <1>1, <1>2, <1>3, <2>1, StartQ
<1>6. ASSUME NEW kind \in Statements, NEW x \in {"STMT", "COND"}, Peek \notin {"past", "EOF"},
             Start(<<Call(kind, pos), Call(x, pos)>>, 1)
      PROVE  QGoal
  <2>1. pos + 1 <= Len(toks) /\ x \in Plain
    BY <1>1, <1>3, <1>6, Reached
  <2> QED
    BY <1>1, <1>6, <2>1, StartQ
<1>7. CASE Ret \/ If \/ While
  BY <1>6, <1>7 DEF Ret, If, While, Statements
<1> QED
  BY <1>4, <1>5, <1>7

LEMMA FailsQ ==
  ASSUME NEW frames, NEW skip, Fails(frames, skip)
  PROVE  QGoal
BY StopsQ DEF Fails

LEMMA ForQ ==
  ASSUME SInv, QInv, For
  PROVE  QGoal
<1>1. AtStmt /\ outcome = "run" /\ Peek \notin {"past", "EOF"}
  BY DEF For, AtStmt, Looks
<1>2. pos + 1 <= Len(toks)
  BY <1>1, Reached
<1>3. /\ "COND" \in Plain /\ "FOR" \in Statements /\ "FOREACH" \in Statements
      /\ "VAR_DEF" \in Statements /\ "VAR_MUT" \in Statements
  BY DEF Plain, Statements
<1>4. \/ Fails(<<Call("FOR", pos)>>, 1)
      \/ /\ At(pos + 2) \notin {"past", "EOF"}
         /\ \/ Start(<<Call("FOREACH", pos), Call("COND", pos)>>, 3)
            \/ Start(<<Call("FOR", pos), Call("VAR_DEF", pos + 1), Call("STMT", pos)>>, 3)
      \/ Start(<<Call("FOR", pos), Call("VAR_MUT", pos + 1), Call("STMT", pos)>>, 1)
  BY DEF For, IsForEach, Id
<1>5. CASE Fails(<<Call("FOR", pos)>>, 1)
  BY <1>5, FailsQ
<1>6. CASE At(pos + 2) \notin {"past", "EOF"} /\ Start(<<Call("FOREACH", pos), Call("COND", pos)>>, 3)
  BY <1>1, <1>3, <1>6, Reached, StartQ
<1>7. CASE At(pos + 2) \notin {"past", "EOF"}
           /\ Start(<<Call("FOR", pos), Call("VAR_DEF", pos + 1), Call("STMT", pos)>>, 3)
  BY <1>1, <1>3, <1>7, Reached, StartQ
<1>8. CASE Start(<<Call("FOR", pos), Call("VAR_MUT", pos + 1), Call("STMT", pos)>>, 1)
  BY <1>1, <1>2, <1>3, <1>8, StartQ
<1> QED
  BY <1>4, <1>5, <1>6, <1>7, <1>8

LEMMA FnQ ==
  ASSUME SInv, QInv, Fn
  PROVE  QGoal
<1>1. AtStmt /\ outcome = "run"
  BY DEF Fn, AtStmt, Looks
<1>2. \/ \E frames, skip : Fails(frames, skip)
      \/ At(pos + 2) = "(" /\ Start(<<Call("FUNC_DEF", pos)>>, 3)
  BY DEF Fn
<1>3. CASE At(pos + 2) = "(" /\ Start(<<Call("FUNC_DEF", pos)>>, 3)
  <2>1. pos + 3 <= Len(toks) /\ "FUNC_DEF" \in Statements
    BY <1>1, <1>3, Reached DEF Statements
  <2> QED
    BY <1>1, <1>3, <2>1, StartQ
<1> QED
  BY <1>2, <1>3, FailsQ

LEMMA JumpQ ==
  ASSUME SInv, QInv, Jump
  PROVE  QGoal
<1> DEFINE c == With(Parsing, Node("JUMP", "", pos, <<>>))
<1>1. /\ AtStmt /\ outcome = "run" /\ Peek = "break" /\ calls' = SetTop(c) /\ toks' = toks
      /\ pos' = pos + 1 /\ outcome' = outcome
  BY DEF Jump, AtStmt, Looks
<1>2. Alike(Parsing, Top) /\ Parsing.i = 1 /\ Parsing.kind \notin Expressions
  BY <1>1, ParsingQ
<1>3. Alike(c, Parsing) /\ c.i = 1
  BY <1>2, AlikeWith DEF Alike
<1> HIDE DEF c
<1>4. Alike(c, Top) /\ c.kind \notin Expressions
  BY <1>2, <1>3 DEF Alike
<1>5. pos + 1 <= Len(toks) /\ pos \in Nat /\ Len(toks) \in Nat
  BY <1>1, QFacts, Reached
<1>6. Len(toks) - 1 = pos => Ragged(toks)
  BY <1>1 DEF Ragged, Peek, At, TokenAt
<1>7. Ragged(toks) \/ (pos' <= Len(toks) /\ pos' < Len(toks))
  BY <1>1, <1>5, <1>6
<1>8. Place(c, toks, pos')
  BY <1>7 DEF Place
<1>9. QInv'
  BY <1>1, <1>4, <1>8, GoesQ
<1> QED
  BY <1>1, <1>9, RunsQ

LEMMA ImportQ ==
  ASSUME SInv, QInv, Import
  PROVE  QGoal
<1> DEFINE s == SetTop(Parsing)
           c == [kind |-> "Prog", at |-> 1, nodes |-> <<>>, i |-> 0, before |-> 0,
                 from |-> toks, back |-> pos + 2]
           file == Files[Peek2]
<1>1. AtStmt /\ outcome = "run" /\ Peek = "import"
  BY DEF Import, AtStmt, Looks
<1>2. \/ outcome' = "error" \/ outcome' = "overflow"
      \/ Peek2 \in DOMAIN Files /\ calls' = s \o <<c>> /\ toks' = file /\ pos' = 1 /\ outcome' = outcome
  BY DEF Import, Fails, Ends
<1>3. CASE Peek2 \in DOMAIN Files /\ calls' = s \o <<c>> /\ toks' = file /\ pos' = 1 /\ outcome' = outcome
  <2>1. Linked(s) /\ Listed(s) /\ s # <<>> /\ Last(s) = Parsing /\ Parsing.kind \notin Expressions
    BY <1>1, ParsingQ
  <2>2. Filed(file) /\ 1 <= Len(file)
    <3>1. file \in Seq(Token) /\ file # <<>> /\ Last(file) = "EOF"
      BY <1>3, FileAssumption
    <3> HIDE DEF file
    <3>2. Len(file) \in Nat /\ Len(file) # 0
      BY <3>1, LenProperties, EmptySeq
    <3> QED
      BY <3>1, <3>2 DEF Filed, Last
  <2>3. Peek2 \notin {"past", "EOF"}
    BY <1>3, FileAssumption DEF Lit
  <2>4. pos + 2 <= Len(toks) /\ pos \in Nat /\ Len(toks) \in Nat /\ Filed(toks)
    BY <1>1, <2>3, QFacts, Reached
  <2>5. Len(toks) - 2 = pos => Ragged(toks)
    BY <1>1 DEF Ragged, Peek, At, TokenAt
  <2>6. Ragged(toks) \/ pos + 2 < Len(toks)
    BY <2>4, <2>5
  <2>7. /\ c.kind = "Prog" /\ c.from = toks /\ c.nodes = <<>> /\ c.i = 0
        /\ {"from", "back"} \subseteq DOMAIN c /\ c.back = pos + 2
    OBVIOUS
  <2> HIDE DEF c, file, s
  <2>8. Aside(c)
    BY <2>4, <2>6, <2>7 DEF Aside, Imported, Filed
  <2>9. Inside(Parsing, c)
    BY <2>1, <2>7, <2>8, Zenon DEF Inside, Sequences
  <2>10. calls' = Append(s, c)
    BY <1>3, <2>1, Together
  <2>11. Filed(toks') /\ pos' <= Len(toks')
    BY <1>3, <2>2
  <2>12. QInv'
    BY <2>1, <2>7, <2>9, <2>10, <2>11, PushesQ
  <2> QED
    BY <1>1, <1>3, <2>12, RunsQ
<1> QED
  BY <1>2, <1>3, StopsQ

(* A call of a statement or a body returns. *)
LEMMA GiveQ ==
  ASSUME SInv, QInv, outcome = "run", Top.kind \in Outer \ {"Prog"}, NEW n, Give(n),
         Ragged(toks) \/ pos < Len(toks)
  PROVE  QGoal
<1>1. /\ calls # <<>> /\ Listed(calls) /\ Traced(calls, toks) /\ toks \in Seq(Token)
      /\ pos \in Nat /\ Top = Last(calls) /\ Len(toks) \in Nat
  BY SFacts, QFacts
<1>2. Front(calls) # <<>>
  BY <1>1, TracedPop
<1>3. /\ calls' = Put(Front(calls), Len(Front(calls)), With(Last(Front(calls)), n))
      /\ pos' = pos /\ toks' = toks /\ outcome' = outcome
  BY DEF Give, Put, Last
<1>4. Ragged(toks) \/ (pos' <= Len(toks) /\ pos' < Len(toks))
  BY <1>1, <1>3
<1>5. QInv'
  BY <1>2, <1>3, <1>4, GivesQ
<1> QED
  BY <1>3, <1>5, RunsQ

LEMMA GivenQ ==
  ASSUME SInv, QInv, outcome = "run", Top.kind \in Outer \ {"Prog"}, NEW n, Give(n), Arrives(Top)
  PROVE  QGoal
BY QFacts, GiveQ DEF Place

LEMMA CompleteQ ==
  ASSUME SInv, QInv, Complete \/ NoElse \/ ArrowEnd \/ ArrowEqEnd
  PROVE  QGoal
<1>1. Len(<<>>) = 0
  OBVIOUS
<1>2. CASE Complete
  <2>1. outcome = "run" /\ Top.kind \in Statements /\ \E n : Give(n)
    BY <1>2 DEF Complete, Arity, Statements
  <2>2. \/ Top.kind \in DOMAIN Arity /\ Len(Nodes) = Arity[Top.kind]
        \/ Top.kind = "FUNC_DEF" /\ Top.i = 2
        \/ Top.kind = "IF" /\ Len(Nodes) = 3
    BY <1>2 DEF Complete
  <2>3. Top.kind \in DOMAIN Arity => Top.kind # "FUNC_DEF" /\ Arity[Top.kind] # 0
    BY DEF Arity
  <2>4. Arrives(Top)
    BY <1>1, <2>1, <2>2, <2>3 DEF Arrives, Nodes
  <2>5. Top.kind \in Outer \ {"Prog"}
    BY <2>1 DEF Outer, Statements
  <2> QED
    BY <2>1, <2>4, <2>5, GivenQ
<1>3. CASE NoElse
  <2>1. outcome = "run" /\ Top.kind = "IF" /\ Len(Nodes) = 2 /\ \E n : Give(n)
    BY <1>3 DEF NoElse, Has
  <2>2. Top.kind \in Statements /\ Top.kind \in Outer \ {"Prog"}
    BY <2>1 DEF Outer, Statements
  <2>3. Nodes # <<>>
    BY <1>1, <2>1
  <2>4. Arrives(Top)
    BY <2>1, <2>2, <2>3, Zenon DEF Arrives, Nodes
  <2> QED
    BY <2>1, <2>2, <2>4, GivenQ
<1>4. CASE ArrowEnd \/ ArrowEqEnd
  <2>1. /\ outcome = "run" /\ Top.kind \in {"Arrow", "ArrowEq"} /\ Top.i = 1
        /\ \/ \E n : Give(n)
           \/ outcome' = "fault" \/ outcome' = "error"
    BY <1>4 DEF ArrowEnd, ArrowEqEnd, Parsed1, Ends
  <2>2. Arrives(Top) /\ Top.kind \in Outer \ {"Prog"}
    BY <2>1 DEF Arrives, Outer, Bodies
  <2> QED
    BY <2>1, <2>2, GivenQ, StopsQ
<1> QED
  BY <1>2, <1>3, <1>4

LEMMA LeaveQ ==
  ASSUME SInv, QInv, BodyEnd
  PROVE  QGoal
<1> DEFINE below == Front(calls)
           caller == Last(below)
           t == caller.nodes \o Nodes
           c == [caller EXCEPT !.nodes = t]
<1>1. outcome = "run" /\ Top.kind \in Bodies /\ AtClose /\ Leave
  BY Zenon DEF BodyEnd, Looks
<1>2. /\ calls # <<>> /\ Listed(calls) /\ Traced(calls, toks) /\ Linked(calls)
      /\ Top = Last(calls) /\ Listed(Nodes)
  BY <1>1, SFacts, QFacts
<1>3. CASE below = <<>>
  <2>1. outcome' = "done"
    BY <1>1, <1>3 DEF Leave
  <2> QED
    BY <2>1, StopsQ
<1>4. CASE below # <<>> /\ Top.kind # "Prog"
  <2>1. \E n : Give(n)
    BY <1>1, <1>4 DEF Leave
  <2>2. Peek \notin {"past", "EOF"}
    BY <1>1, <1>4, Zenon DEF AtClose
  <2>3. pos < Len(toks)
    BY <1>1, <2>2, Reached
  <2>4. Top.kind \in Outer \ {"Prog"}
    BY <1>1, <1>4 DEF Outer
  <2> QED
    BY <1>1, <2>1, <2>3, <2>4, GiveQ
<1>5. CASE below # <<>> /\ Top.kind = "Prog"
  <2>1. /\ calls' = Put(below, Len(below), c) /\ toks' = Top.from /\ pos' = Top.back
        /\ outcome' = outcome
    BY <1>1, <1>5 DEF Leave, Put, Last
  <2>2. Traced(below, toks') /\ Linked(below) /\ Inside(caller, Top)
    BY <1>2, <1>5, <2>1, TracedPop, LinkedPop
  <2>3. Entry(caller)
    BY <1>5, <2>2, TracedFacts DEF Frame
  <2>4. Listed(t)
    BY <1>2, <2>3, ListedConcat DEF Entry
  <2> HIDE DEF t
  <2>5. Alike(c, caller) /\ c.i = caller.i /\ c.kind = caller.kind
    BY <2>3, <2>4, AlikeSet DEF Alike
  <2> HIDE DEF below, caller, c
  <2>6. Linked(calls') /\ calls' # <<>> /\ Last(calls') = c
    BY <1>5, <2>1, <2>2, <2>5, LinkedTop DEF caller
  <2>7. Top' = c
    BY <2>6 DEF Top
  <2>8. ReadOn'
    BY <2>2, <2>5, <2>7, Zenon DEF ReadOn, Inside
  <2>9. Aside(Top)
    BY <1>5, <2>2 DEF Inside
  <2>10. Filed(toks') /\ (Ragged(toks') \/ (pos' <= Len(toks') /\ pos' < Len(toks')))
    <3>1. /\ Filed(toks') /\ pos' \in Nat
          /\ Ragged(toks') \/ pos' < Len(toks')
      BY <2>1, <2>9 DEF Aside, Imported
    <3>2. Len(toks') \in Nat
      BY <3>1, LenProperties DEF Filed
    <3> QED
      BY <3>1, <3>2
  <2>11. Place(c, toks', pos')
    BY <2>10 DEF Place
  <2>12. QInv'
    BY <2>6, <2>7, <2>8, <2>10, <2>11 DEF QInv
  <2> QED
    BY <1>1, <2>1, <2>12, RunsQ
<1> QED
  BY <1>3, <1>4, <1>5

LEMMA PartQ ==
  ASSUME SInv, QInv, ForCond \/ ForMut \/ ElseIf
  PROVE  QGoal
<1>1. outcome = "run" /\ Top.kind \in {"FOR", "IF"} /\ Nodes # <<>>
  <2>1. Len(<<>>) = 0
    OBVIOUS
  <2> QED
    BY <2>1 DEF ForCond, ForMut, ElseIf, Has
<1>2. /\ calls # <<>> /\ Linked(calls) /\ Top = Last(calls) /\ Filed(toks)
      /\ Place(Top, toks, pos) /\ pos \in Nat /\ Len(toks) \in Nat
  BY <1>1, QFacts
<1>3. Top.kind \in Statements \ {"FUNC_DEF"} /\ Top.kind \notin Expressions
  BY <1>1, OuterKinds DEF Statements, Outer
<1>4. Ragged(toks) \/ pos + 1 <= Len(toks)
  <2>1. Ragged(toks) \/ pos < Len(toks)
    BY <1>1, <1>3, <1>2 DEF Place, Arrives, Nodes
  <2> QED
    BY <1>2, <2>1
<1>5. "STMT" \in Plain /\ "COND" \in Plain
  BY DEF Plain
<1>6. CASE ForCond
  <2>1. /\ calls' = Append(calls, Call("STMT", pos)) /\ pos' = pos + 1
        /\ toks' = toks /\ outcome' = outcome
    BY <1>6 DEF ForCond, Begin
  <2>2. Inside(Last(calls), Call("STMT", pos))
    BY <1>2, <1>3, <1>5, PlainPush
  <2>3. QInv'
    BY <1>2, <1>4, <2>1, <2>2, PushQ
  <2> QED
    BY <1>1, <2>1, <2>3, RunsQ
<1>7. ASSUME NEW kind \in {"VAR_MUT", "IF"}, NEW at, NEW skip \in Nat,
             Ragged(toks) \/ pos + skip <= Len(toks),
             Begin(Call("COND", pos), Append(calls, Call(kind, at)), skip)
      PROVE  QGoal
  <2> DEFINE r == Append(calls, Call(kind, at))
  <2>1. /\ calls' = Append(r, Call("COND", pos)) /\ pos' = pos + skip
        /\ toks' = toks /\ outcome' = outcome
    BY <1>7 DEF Begin
  <2>2. kind \in Plain /\ kind \notin Expressions /\ Call(kind, at).kind = kind
    BY GoodNew, OuterKinds DEF Plain, Outer, Statements
  <2>3. Inside(Last(calls), Call(kind, at))
    BY <1>2, <1>3, <2>2, PlainPush
  <2>4. Linked(r) /\ r # <<>> /\ Last(r) = Call(kind, at)
    BY <1>2, <2>3, LinkedPush
  <2> HIDE DEF r
  <2>5. Inside(Last(r), Call("COND", pos))
    BY <1>5, <2>2, <2>4, PlainPush
  <2>6. QInv'
    BY <1>2, <1>7, <2>1, <2>4, <2>5, PushQ
  <2> QED
    BY <1>1, <2>1, <2>6, RunsQ
<1>8. CASE ForMut
  BY <1>4, <1>7, <1>8 DEF ForMut
<1>9. CASE ElseIf
  <2>1. At(pos + 2) = "if" /\ Begin(Call("COND", pos), Append(calls, Call("IF", pos + 2)), 3)
    BY <1>9 DEF ElseIf
  <2>2. pos + 3 <= Len(toks)
    BY <1>1, <2>1, Reached
  <2> QED
    BY <1>7, <2>1, <2>2
<1> QED
  BY <1>6, <1>8, <1>9

LEMMA OpenQ ==
  ASSUME SInv, QInv, outcome = "run", Top.kind \in Statements, NEW at \in {pos, pos + 2}, OpenBody(at)
  PROVE  QGoal
<1> DEFINE c == [Top EXCEPT !.i = 2]
           s == SetTop(c)
           kind == BodyOf(At(at))
<1>1. /\ calls # <<>> /\ Linked(calls) /\ Top = Last(calls) /\ Entry(Top) /\ Filed(toks)
  BY QFacts
<1>2. Alike(c, Top)
  <2>1. 2 \in Nat
    OBVIOUS
  <2> QED
    BY <1>1, <2>1, AlikeSet
<1>3. /\ At(at) = "{" => kind = "Block"
      /\ At(at) = "->" => kind = "Arrow"
      /\ At(at) = "=>" => kind = "ArrowEq"
  BY Zenon DEF BodyOf
<1>4. \/ /\ kind \in Bodies \ {"Prog"} /\ At(at) \notin {"past", "EOF"}
         /\ calls' = Append(s, Call(kind, at)) /\ pos' = at + 1 /\ toks' = toks /\ outcome' = outcome
      \/ outcome' = "error"
  <2>1. {"Block", "Arrow", "ArrowEq"} \subseteq Bodies \ {"Prog"}
    BY DEF Bodies
  <2>2. "{" \notin {"past", "EOF"} /\ "->" \notin {"past", "EOF"} /\ "=>" \notin {"past", "EOF"}
    BY Zenon
  <2> HIDE DEF kind
  <2>3. CASE At(at) \in {"{", "->", "=>"}
    <3>1. kind \in {"Block", "Arrow", "ArrowEq"} /\ At(at) \notin {"past", "EOF"}
      BY <1>3, <2>2, <2>3, Zenon
    <3>2. /\ calls' = Append(s, Call(kind, at)) /\ pos' = at + 1 /\ toks' = toks
          /\ outcome' = outcome
      BY <2>3, Zenon DEF OpenBody, kind
    <3> QED
      BY <2>1, <3>1, <3>2, Zenon
  <2>4. CASE At(at) \notin {"{", "->", "=>"}
    BY <2>4, Zenon DEF OpenBody
  <2> QED
    BY <2>3, <2>4, Zenon
<1>5. CASE /\ kind \in Bodies \ {"Prog"} /\ At(at) \notin {"past", "EOF"}
           /\ calls' = Append(s, Call(kind, at)) /\ pos' = at + 1 /\ toks' = toks /\ outcome' = outcome
  <2>1. kind \in Bodies \ {"Prog"} /\ At(at) \notin {"past", "EOF"}
    BY <1>5, Zenon
  <2>2. calls' = Append(s, Call(kind, at)) /\ pos' = at + 1 /\ toks' = toks /\ outcome' = outcome
    BY <1>5, Zenon
  <2> HIDE <1>5, <1>3, <1>4
  <2>3. s = Put(calls, Len(calls), c)
    BY DEF SetTop, Put
  <2> HIDE DEF c, s, kind
  <2>4. Linked(s) /\ s # <<>> /\ Last(s) = c
    BY <1>1, <1>2, <2>3, LinkedTop
  <2>5. kind \in Plain /\ Top.kind \in Outer
    BY <2>1 DEF Plain, Outer
  <2>6. Inside(Last(s), Call(kind, at))
    BY <1>2, <2>4, <2>5, OuterKinds, PlainPush DEF Alike
  <2>7. pos' <= Len(toks)
    <3>1. pos \in Nat /\ pos + 2 + 1 = pos + 3
      BY QFacts
    <3> QED
      BY <2>1, <2>2, <3>1, Reached DEF Peek
  <2>8. QInv'
    BY <1>1, <2>2, <2>4, <2>6, <2>7, PushQ
  <2> QED
    BY <2>2, <2>8, RunsQ
<1>6. CASE outcome' = "error"
  BY <1>6, StopsQ
<1> QED
  BY <1>4, <1>5, <1>6, Zenon

LEMMA BodyQ ==
  ASSUME SInv, QInv, Body \/ Else
  PROVE  QGoal
<1>1. outcome = "run" /\ Top.kind \in Statements
  BY DEF Body, Else, Has, Statements
<1>2. OpenBody(pos) \/ OpenBody(pos + 2)
  BY DEF Body, Else
<1> QED
  BY <1>1, <1>2, OpenQ

LEMMA ParamQ ==
  ASSUME SInv, QInv, Param \/ BadParam \/ ParamsEnd
  PROVE  QGoal
<1>1. outcome = "run" /\ Top.kind = "FUNC_DEF" /\ Top.i = 0
  BY Zenon DEF Param, BadParam, ParamsEnd, Params
<1>2. calls # <<>> /\ Listed(calls) /\ Entry(Top)
  BY <1>1, QFacts
<1>3. \/ Ends("error")
      \/ /\ Peek \notin {"past", "EOF"}
         /\ \/ \E n : Shift(n)
            \/ Begin(Top, Front(calls), 1)
            \/ Begin([Top EXCEPT !.i = 1], Front(calls), 1)
  <2>1. \A t \in Id \cup {"...", ",", ")"} : t \notin {"past", "EOF"}
    BY Zenon DEF Id
  <2> QED
    BY <2>1, Zenon DEF Param, BadParam, ParamsEnd
<1>4. ASSUME NEW c, Alike(c, Top), c.i \in {0, 1}, Peek \notin {"past", "EOF"},
             calls' = SetTop(c), toks' = toks, pos' = pos + 1, outcome' = outcome
      PROVE  QGoal
  <2>1. pos' <= Len(toks)
    BY <1>1, <1>4, Reached
  <2>2. c.kind = "FUNC_DEF" /\ c.kind \notin Expressions /\ c.i # 2
    BY <1>1, <1>4, OuterKinds DEF Alike, Outer, Statements
  <2>3. ~Arrives(c)
    BY <2>2 DEF Arrives, Bodies
  <2>4. QInv'
    BY <1>1, <1>4, <2>1, <2>2, <2>3, GoesQ DEF Place
  <2> QED
    BY <1>1, <1>4, <2>4, RunsQ
<1>5. CASE Ends("error")
  BY <1>5, StopsQ DEF Ends
<1>6. CASE Peek \notin {"past", "EOF"} /\ \E n : Shift(n)
  BY <1>1, <1>2, <1>4, <1>6, AlikeWith DEF Shift
<1>7. ASSUME NEW c, Alike(c, Top), c.i \in {0, 1}, Peek \notin {"past", "EOF"},
             Begin(c, Front(calls), 1)
      PROVE  QGoal
  <2>1. calls' = SetTop(c)
    BY <1>2, <1>7, FrontTop DEF Begin
  <2> QED
    BY <1>4, <1>7, <2>1 DEF Begin
<1>8. Alike(Top, Top)
  BY <1>2, AlikeSet
<1>9. Alike([Top EXCEPT !.i = 1], Top) /\ [Top EXCEPT !.i = 1].i = 1
  BY <1>2, ParsingFacts, Zenon DEF Parsing
<1> QED
  BY <1>1, <1>3, <1>5, <1>6, <1>7, <1>8, <1>9

LEMMA StmtEndQ ==
  ASSUME SInv, QInv, StmtEnd
  PROVE  QGoal
<1> DEFINE c == [Top EXCEPT !.i = 0]
<1>1. /\ outcome = "run" /\ Top.kind \in {"Prog", "Block"} /\ Top.i = 1
      /\ calls' = SetTop(c) /\ pos' = pos + 1 /\ toks' = toks /\ outcome' = outcome
  BY DEF StmtEnd, Parsed1
<1>2. Entry(Top) /\ Place(Top, toks, pos) /\ pos \in Nat /\ Len(toks) \in Nat
  BY <1>1, QFacts
<1>3. Alike(c, Top) /\ c.i = 0
  <2>1. 0 \in Nat
    OBVIOUS
  <2> QED
    BY <1>2, <2>1, AlikeSet
<1> HIDE DEF c
<1>4. c.kind \in Bodies /\ c.kind \notin Statements /\ c.kind \notin Expressions
  BY <1>1, <1>3, OuterKinds DEF Alike, Bodies, Statements, Outer
<1>5. ~Arrives(c)
  BY <1>3, <1>4 DEF Arrives, Statements
<1>6. Ragged(toks) \/ pos < Len(toks)
  BY <1>1, <1>2 DEF Place, Arrives, Bodies
<1>7. Ragged(toks) \/ pos' <= Len(toks)
  BY <1>1, <1>2, <1>6
<1>8. QInv'
  BY <1>1, <1>3, <1>4, <1>5, <1>7, GoesQ DEF Place
<1> QED
  BY <1>1, <1>8, RunsQ

LEMMA PastQ ==
  ASSUME SInv, QInv, PastEnd
  PROVE  QGoal
<1>1. /\ outcome = "run" /\ outcome' = "past"
      /\ \/ pos > Len(toks)
         \/ Has("IF", 2) /\ Peek2 = "past"
  BY DEF PastEnd, Ends
<1>2. /\ Filed(toks) /\ Place(Top, toks, pos) /\ pos \in Nat /\ Len(toks) \in Nat
      /\ Len(toks) > 0
  BY <1>1, QFacts DEF Filed
<1>3. Ragged(toks)
  <2>1. CASE pos > Len(toks)
    BY <1>2, <2>1 DEF Place
  <2>2. CASE Has("IF", 2) /\ Peek2 = "past"
    <3>1. Len(<<>>) = 0 /\ Top.kind = "IF" /\ Len(Nodes) = 2
      BY <2>2 DEF Has
    <3>2. Nodes # <<>> /\ Top.kind \in Statements \ {"FUNC_DEF"}
      BY <3>1 DEF Statements
    <3>3. Ragged(toks) \/ pos < Len(toks)
      BY <1>2, <3>2, Zenon DEF Place, Arrives, Nodes
    <3>4. pos < Len(toks) => pos + 1 \in DOMAIN toks
      <4>1. DOMAIN toks = 1 .. Len(toks)
        BY <1>2, LenProperties DEF Filed
      <4> QED
        BY <1>2, <4>1
    <3>5. pos < Len(toks) => toks[pos + 1] = "past" /\ toks[pos + 1] \in Token
      BY <1>2, <2>2, <3>4, ElementOfSeq, LenProperties DEF Peek2, At, Filed
    <3>6. "past" \notin Token
      BY Zenon DEF Token, ExprToken, StmtToken, Infix
    <3> QED
      BY <3>3, <3>5, <3>6
  <2> QED
    BY <1>1, <2>1, <2>2
<1>4. Unfinished
  BY <1>3 DEF Ragged, Unfinished, TokenAt, At
<1> QED
  BY <1>1, <1>4 DEF QGoal, QInv

LEMMA StutterQ ==
  ASSUME QInv, UNCHANGED vars
  PROVE  QInv' /\ QGoal
<1>1. UNCHANGED <<toks, pos, calls, outcome>>
  BY DEF vars
<1>2. QInv'
  BY <1>1 DEF QInv, ReadOn, Top, Peek, At, Place
<1> QED
  BY <1>1, <1>2 DEF QGoal

LEMMA UnwindQ ==
  ASSUME Unwind \/ UnwindPast \/ UnwindNull
  PROVE  QGoal
<1>1. outcome # "run" /\ outcome' # "run"
  BY DEF Unwind, UnwindPast, UnwindNull, Returning, Ends
<1> QED
  BY <1>1 DEF QGoal, QInv

(* The steps of the expression parser *)
LEMMA StopTokens ==
  /\ \A kind \in Expressions, t \in {"past", "EOF"} : t \notin Stop(kind)
  /\ \A kind \in Sequences, t \in {"past", "EOF"} : t # Closing(kind)
<1>1. ASSUME NEW kind \in Expressions, NEW t \in {"past", "EOF"} PROVE t \notin Stop(kind)
  BY <1>1, Zenon DEF Expressions, Stop
<1>2. ASSUME NEW kind \in Sequences, NEW t \in {"past", "EOF"} PROVE t # Closing(kind)
  BY <1>2, Zenon DEF Sequences, Closing
<1> QED
  BY <1>1, <1>2

LEMMA KeepsQ ==
  ASSUME SInv, QInv, outcome = "run", Top.kind \in Kinds, EInv', toks' = toks, outcome' = outcome,
         NEW c, c.kind = Top.kind, calls' = SetTop(c),
         c.kind \in Expressions /\ c.i # 0 => Peek' \in Stop(c.kind),
         Ragged(toks) \/ pos' <= Len(toks)
  PROVE  QGoal
<1>1. calls # <<>> /\ Listed(calls)
  BY QFacts
<1>2. Entry(c)
  <2>1. Len(calls') = Len(calls) /\ calls'[Len(calls)] = c /\ Len(calls) \in 1 .. Len(calls)
    BY <1>1, TopPut, ListedFacts
  <2>2. \A n \in 1 .. Len(calls') : Entry(calls'[n])
    BY DEF EInv, Good, Entry, Record
  <2> QED
    BY <2>1, <2>2
<1>3. c.kind \notin Bodies /\ c.kind \notin Outer
  BY InnerKinds
<1>4. Alike(c, Top)
  BY <1>2, <1>3 DEF Alike
<1>5. ~Arrives(c)
  BY <1>3 DEF Arrives, Outer, Statements
<1>6. QInv'
  BY <1>4, <1>5, GoesQ DEF Place
<1> QED
  BY <1>6, RunsQ

LEMMA TokenQ ==
  ASSUME SInv, QInv, EInv', toks' = toks, Literal \/ Variable \/ BinOp \/ Not \/ Minus
  PROVE  QGoal
<1>1. /\ outcome = "run" /\ Top.kind \in Expressions /\ Top.i = 0 /\ Top.kind \in Kinds
      /\ \/ outcome' = "fault"
         \/ Peek \notin {"past", "EOF"} /\ \E n : Shift(n)
  <2>1. \A t \in Lit \cup Id \cup Infix \cup {"!"} : t \notin {"past", "EOF"}
    BY Zenon DEF Lit, Id, Infix
  <2>2. "-" \in Infix
    BY DEF Infix
  <2>3. CASE Literal \/ Variable
    BY <2>1, <2>3, Zenon DEF Literal, Variable, Reads, Scans, Kinds
  <2>4. CASE BinOp \/ Not \/ Minus
    BY <2>1, <2>2, <2>4, Zenon DEF BinOp, Not, Minus, Reads, Scans, Ends, Kinds
  <2> QED
    BY <2>3, <2>4
<1>2. CASE outcome' = "fault"
  BY <1>2, StopsQ
<1>3. CASE Peek \notin {"past", "EOF"} /\ \E n : Shift(n)
  <2>1. PICK n : Shift(n)
    BY <1>3
  <2>2. Entry(Top) /\ pos + 1 <= Len(toks)
    BY <1>1, <1>3, QFacts, Reached
  <2> DEFINE c == With(Top, n)
  <2>3. c.kind = Top.kind /\ c.i = 0
    BY <1>1, <2>2, AlikeWith DEF Alike
  <2>4. calls' = SetTop(c) /\ pos' = pos + 1 /\ outcome' = outcome
    BY <2>1 DEF Shift
  <2> HIDE DEF c
  <2> QED
    BY <1>1, <2>2, <2>3, <2>4, KeepsQ
<1> QED
  BY <1>1, <1>2, <1>3

(* An expression, with its own d, begins a call of kind. *)
LEMMA InnerPush ==
  ASSUME SInv, QInv, outcome = "run", Top.kind \in Expressions, Top.i = 0,
         NEW d, Alike(d, Top), d.i = 0,
         NEW kind \in {"PARS", "SQBRAS"} \cup Sequences, NEW at, NEW skip \in {1, 2},
         Begin(Call(kind, at), SetTop(d), skip), pos + skip <= Len(toks)
  PROVE  QGoal
<1>1. calls # <<>> /\ Linked(calls) /\ Top = Last(calls) /\ Filed(toks)
  BY QFacts
<1>2. /\ calls' = Append(SetTop(d), Call(kind, at)) /\ pos' = pos + skip
      /\ toks' = toks /\ outcome' = outcome
  BY Zenon DEF Begin
<1>3. SetTop(d) = Put(calls, Len(calls), d)
  BY DEF SetTop, Put
<1>4. Linked(SetTop(d)) /\ SetTop(d) # <<>> /\ Last(SetTop(d)) = d
  BY <1>1, <1>3, LinkedTop
<1>5. Call(kind, at).kind = kind /\ kind # "Prog"
  BY GoodNew DEF Sequences
<1>6. Inside(d, Call(kind, at))
  BY <1>5, Zenon DEF Inside, Alike
<1>7. QInv'
  BY <1>1, <1>2, <1>4, <1>6, PushQ
<1> QED
  BY <1>2, <1>7, RunsQ

LEMMA BracketQ ==
  ASSUME SInv, QInv, FuncCall \/ Group \/ Dict \/ List \/ Index
  PROVE  QGoal
<1>1. outcome = "run" /\ Top.kind \in Expressions /\ Top.i = 0
  BY Zenon DEF FuncCall, Group, Dict, List, Index, Reads, Scans
<1>2. Entry(Top) /\ SetTop(Top) = calls
  BY <1>1, QFacts, SFacts, SameTopE
<1>3. Alike(Top, Top)
  BY <1>2, AlikeSet
<1>4. /\ "PARS" \in {"PARS", "SQBRAS"} \cup Sequences /\ "SQBRAS" \in {"PARS", "SQBRAS"} \cup Sequences
      /\ "FUNC_CALL" \in {"PARS", "SQBRAS"} \cup Sequences /\ "DICT" \in {"PARS", "SQBRAS"} \cup Sequences
      /\ "LIST" \in {"PARS", "SQBRAS"} \cup Sequences
  BY DEF Sequences
<1>5. \A t \in {"(", "{", "["} : t \notin {"past", "EOF"}
  BY Zenon
<1>6. Peek \notin {"past", "EOF"} => pos + 1 <= Len(toks)
  BY <1>1, Reached
<1>7. CASE FuncCall
  <2>1. Peek2 \notin {"past", "EOF"} /\ Begin(Call("FUNC_CALL", pos), SetTop(Top), 2)
    BY <1>2, <1>5, <1>7, Zenon DEF FuncCall
  <2>2. pos + 2 <= Len(toks)
    BY <1>1, <2>1, Reached
  <2> QED
    BY <1>1, <1>3, <1>4, <2>1, <2>2, InnerPush
<1>8. ASSUME NEW d, Alike(d, Top), d.i = 0, NEW kind \in {"PARS", "SQBRAS"} \cup Sequences,
             Begin(Call(kind, pos), SetTop(d), 1), Peek \notin {"past", "EOF"}
      PROVE  QGoal
  BY <1>1, <1>6, <1>8, InnerPush
<1>9. CASE Group \/ Dict \/ List
  <2>1. Peek \notin {"past", "EOF"}
    BY <1>5, <1>9, Zenon DEF Group, Dict, List, Reads
  <2>2. \E kind \in {"PARS", "SQBRAS"} \cup Sequences : Begin(Call(kind, pos), SetTop(Top), 1)
    BY <1>2, <1>4, <1>9, Zenon DEF Group, Dict, List
  <2> QED
    BY <1>1, <1>3, <1>8, <2>1, <2>2
<1>10. CASE Index
  <2> DEFINE d == With(Top, Bin("[", pos))
  <2>1. Peek \notin {"past", "EOF"} /\ Begin(Call("SQBRAS", pos), SetTop(d), 1)
    BY <1>5, <1>10, Zenon DEF Index, Reads
  <2>2. Alike(d, Top) /\ d.i = 0
    BY <1>1, <1>2, AlikeWith
  <2> HIDE DEF d
  <2> QED
    BY <1>4, <1>8, <2>1, <2>2
<1> QED
  BY <1>7, <1>9, <1>10

LEMMA ItemQ ==
  ASSUME SInv, QInv, Item
  PROVE  QGoal
<1>1. /\ outcome = "run" /\ Top.kind \in Sequences
      /\ Begin(Call("ARGS", pos), calls, 0)
  BY Zenon DEF Item, Collects
<1>2. /\ calls # <<>> /\ Linked(calls) /\ Top = Last(calls) /\ Filed(toks)
      /\ Place(Top, toks, pos) /\ pos \in Nat
  BY <1>1, QFacts
<1>3. /\ calls' = Append(calls, Call("ARGS", pos)) /\ pos' = pos
      /\ toks' = toks /\ outcome' = outcome
  BY <1>1, <1>2 DEF Begin
<1>4. Call("ARGS", pos).kind = "ARGS" /\ Top.kind \notin Expressions
  BY <1>1, GoodNew DEF Sequences, Expressions
<1>5. "ARGS" \notin {"PARS", "SQBRAS"} \cup Sequences /\ "ARGS" # "Prog"
  BY DEF Sequences
<1>6. Inside(Last(calls), Call("ARGS", pos))
  BY <1>2, <1>4, <1>5, Zenon DEF Inside
<1>7. QInv'
  BY <1>2, <1>3, <1>6, PushQ DEF Place
<1> QED
  BY <1>1, <1>3, <1>7, RunsQ

LEMMA ReturnQ ==
  ASSUME SInv, QInv, outcome = "run", toks' = toks, NEW n, Return(n),
         \/ Top.kind \in Expressions /\ Peek \in Stop(Top.kind)
         \/ Top.kind \in Sequences /\ Peek = Closing(Top.kind)
  PROVE  QGoal
<1> DEFINE below == Front(calls)
           caller == Last(below)
<1>1. Peek \notin {"past", "EOF"}
  BY StopTokens
<1>2. /\ calls # <<>> /\ Linked(calls) /\ Top = Last(calls)
      /\ pos \in Nat /\ Len(toks) \in Nat /\ pos < Len(toks) /\ pos + 1 <= Len(toks)
      /\ pos <= Len(toks)
  <2>1. pos < Len(toks) /\ pos + 1 <= Len(toks)
    BY <1>1, Reached
  <2> QED
    BY <2>1, QFacts
<1>3. \/ outcome' \in {"done", "fault", "error"}
      \/ /\ below # <<>> /\ outcome' = outcome
         /\ calls' = Put(below, Len(below), With(caller, n))
         /\ \/ pos' = pos
            \/ Top.kind \notin {"STMT", "COND", "ARGS"} /\ pos' = pos + 1
  <2>1. CASE below = <<>>
    BY <2>1, Zenon DEF Return
  <2>2. CASE below # <<>> /\ Top.kind # "ARGS"
    BY <2>2, Zenon DEF Return, Put
  <2>3. CASE below # <<>> /\ Top.kind = "ARGS"
    BY <2>3, Zenon DEF Return, Ends, Put
  <2> QED
    BY <2>1, <2>2, <2>3
<1>4. CASE outcome' \in {"done", "fault", "error"}
  BY <1>4, StopsQ
<1>5. CASE /\ below # <<>> /\ outcome' = outcome
           /\ calls' = Put(below, Len(below), With(caller, n))
           /\ \/ pos' = pos
              \/ Top.kind \notin {"STMT", "COND", "ARGS"} /\ pos' = pos + 1
  <2>1. Inside(caller, Top)
    BY <1>2, <1>5, LinkedPop
  <2>2. \/ pos' = pos
        \/ caller.kind \notin Outer /\ pos' = pos + 1
    <3>1. Top.kind \in {"STMT", "COND", "ARGS"} \cup {"PARS", "SQBRAS"} \cup Sequences
      BY DEF Expressions
    <3>2. Top.kind \notin {"STMT", "COND", "ARGS"} => caller.kind \notin Outer
      BY <2>1, <3>1, OuterKinds DEF Inside
    <3> QED
      BY <1>5, <3>2
  <2> HIDE DEF below, caller
  <2>3. pos' <= Len(toks) /\ (caller.kind \in Outer => pos' < Len(toks))
    BY <1>2, <2>2
  <2>4. QInv'
    BY <1>5, <2>3, GivesQ DEF below, caller
  <2> QED
    BY <1>5, <2>4, RunsQ
<1> QED
  BY <1>3, <1>4, <1>5

LEMMA ReturnsQ ==
  ASSUME SInv, QInv, Close \/ Single, toks' = toks
  PROVE  QGoal
<1>1. CASE Close
  <2>1. outcome = "run" /\ Top.kind \in Sequences /\ Peek = Closing(Top.kind) /\ \E n : Return(n)
    BY <1>1, Zenon DEF Close, Collects
  <2> QED
    BY <2>1, ReturnQ
<1>2. CASE Single
  <2>1. outcome = "run" /\ Top.kind \in Expressions /\ Top.i > 0 /\ \E n : Return(n)
    BY <1>2, Zenon DEF Single, Expands
  <2>2. Peek \in Stop(Top.kind)
    <3>1. Top.i # 0
      BY <2>1
    <3> QED
      BY <2>1, <3>1, QFacts DEF ReadOn
  <2> QED
    BY <2>1, <2>2, ReturnQ
<1> QED
  BY <1>1, <1>2

LEMMA EndingQ ==
  ASSUME Misplaced \/ IndexOfNull \/ Unexpected
  PROVE  QGoal
<1>1. \A j : Neighbour(j) \in {"run", "fault", "error"}
  BY Zenon DEF Neighbour
<1>2. Trouble \in {"run", "fault", "error"}
  BY <1>1, Zenon DEF Trouble
<1>3. outcome' \in {"fault", "error"}
  BY <1>2, Zenon DEF Misplaced, IndexOfNull, Unexpected, Ends
<1> QED
  BY <1>3, StopsQ

LEMMA ExpandQ ==
  ASSUME SInv, QInv, EInv', Stopped \/ PassDone \/ SkipOp \/ Attach, toks' = toks
  PROVE  QGoal
<1>1. /\ outcome = "run" /\ Top.kind \in Expressions /\ Top.kind \in Kinds
      /\ (Stopped /\ AtEnd) \/ Top.i > 0
      /\ \/ outcome' = "error"
         \/ Stopped /\ \E n : Return(n)
         \/ /\ pos' = pos /\ outcome' = outcome
            /\ \E s, b : \/ calls' = SetTop([Top EXCEPT !.i = s, !.before = b])
                         \/ calls' = SetTop([Top EXCEPT !.i = s])
                         \/ calls' = SetTop([Top EXCEPT !.nodes = s])
  <2>1. CASE Stopped \/ PassDone
    BY <2>1, Zenon DEF Stopped, PassDone, Scans, Expands, Ends, Kinds
  <2>2. CASE SkipOp \/ Attach
    BY <2>2, Zenon DEF SkipOp, Attach, Visits, Expands, Kinds
  <2> QED
    BY <2>1, <2>2
<1>2. Peek \in Stop(Top.kind)
  <2>1. CASE AtEnd
    BY <2>1 DEF AtEnd
  <2>2. CASE Top.i > 0
    <3>1. Top.i # 0
      BY <2>2
    <3> QED
      BY <1>1, <3>1, QFacts DEF ReadOn
  <2> QED
    BY <1>1, <2>1, <2>2
<1>3. CASE outcome' = "error"
  BY <1>3, StopsQ
<1>4. CASE Stopped /\ \E n : Return(n)
  BY <1>1, <1>2, <1>4, ReturnQ
<1>5. CASE /\ pos' = pos /\ outcome' = outcome
           /\ \E s, b : \/ calls' = SetTop([Top EXCEPT !.i = s, !.before = b])
                        \/ calls' = SetTop([Top EXCEPT !.i = s])
                        \/ calls' = SetTop([Top EXCEPT !.nodes = s])
  <2>1. Entry(Top) /\ Place(Top, toks, pos)
    BY <1>1, QFacts
  <2>2. PICK c : calls' = SetTop(c) /\ c.kind = Top.kind
    <3>1. PICK s, b : \/ calls' = SetTop([Top EXCEPT !.i = s, !.before = b])
                      \/ calls' = SetTop([Top EXCEPT !.i = s])
                      \/ calls' = SetTop([Top EXCEPT !.nodes = s])
      BY <1>5
    <3>2. /\ [Top EXCEPT !.i = s, !.before = b].kind = Top.kind
          /\ [Top EXCEPT !.i = s].kind = Top.kind /\ [Top EXCEPT !.nodes = s].kind = Top.kind
      BY <2>1, KindKept
    <3> QED
      BY <3>1, <3>2, Zenon
  <2>3. Peek' = Peek
    BY <1>5 DEF Peek, At
  <2>4. Ragged(toks) \/ pos' <= Len(toks)
    BY <1>5, <2>1 DEF Place
  <2> QED
    BY <1>1, <1>2, <1>5, <2>2, <2>3, <2>4, KeepsQ
<1> QED
  BY <1>1, <1>3, <1>4, <1>5

LEMMA CommaQ ==
  ASSUME SInv, QInv, EInv', Comma, toks' = toks
  PROVE  QGoal
<1>1. /\ outcome = "run" /\ Top.kind \in Sequences /\ Top.kind \in Kinds /\ Peek \notin {"past", "EOF"}
      /\ \/ outcome' = "error"
         \/ pos' = pos + 1 /\ calls' = calls /\ outcome' = outcome
  BY Zenon DEF Comma, Collects, Ends, Kinds
<1>2. pos + 1 <= Len(toks) /\ SetTop(Top) = calls
  BY <1>1, Reached, SFacts, SameTopE
<1>3. Top.kind \notin Expressions
  BY <1>1 DEF Sequences, Expressions
<1>4. CASE pos' = pos + 1 /\ calls' = calls /\ outcome' = outcome
  BY <1>1, <1>2, <1>3, <1>4, KeepsQ
<1> QED
  BY <1>1, <1>4, StopsQ

LEMMA ExprQ ==
  ASSUME SInv, QInv, ExprNext
  PROVE  QGoal
<1>1. toks' = toks
  BY TokensKept
<1>2. EInv'
  BY ExprRuns, SFacts, ExprE DEF EGoal
<1>3. CASE \/ Literal \/ Variable \/ BinOp \/ Not \/ Minus
           \/ FuncCall \/ Group \/ Dict \/ List \/ Index \/ Item
  BY <1>1, <1>2, <1>3, TokenQ, BracketQ, ItemQ, Zenon
<1>4. CASE \/ Close \/ Single \/ Misplaced \/ IndexOfNull \/ Unexpected
           \/ Stopped \/ PassDone \/ SkipOp \/ Attach \/ Comma
  BY <1>1, <1>2, <1>4, ReturnsQ, EndingQ, ExpandQ, CommaQ, Zenon
<1> QED
  BY <1>3, <1>4, Zenon DEF ExprNext

-----------------------------------------------------------------------------
LEMMA InitQ ==
  ASSUME ParserInit
  PROVE  QInv
<1> DEFINE c == Call("Prog", 1)
<1>1. PICK input \in Inputs : toks = Append(input, "EOF")
  BY DEF ParserInit
<1>2. pos = 1 /\ calls = <<c>>
  BY DEF ParserInit
<1>3. Filed(toks) /\ pos <= Len(toks)
  <2>1. input \in Seq(Token) /\ "EOF" \in Token
    BY InputAssumption DEF Token, StmtToken
  <2>2. /\ toks \in Seq(Token) /\ Len(toks) = Len(input) + 1 /\ toks[Len(input) + 1] = "EOF"
        /\ Len(input) \in Nat
    BY <1>1, <2>1, AppendProperties, LenProperties
  <2> QED
    BY <1>2, <2>2 DEF Filed
<1>4. c.i = 0 /\ c.nodes = <<>> /\ c.kind = "Prog"
  BY GoodNew
<1> HIDE DEF c
<1>5. /\ <<c>> \in Seq({c}) /\ Len(<<c>>) = 1 /\ <<c>>[1] = c
  OBVIOUS
<1>6. Listed(calls) /\ Len(calls) = 1 /\ calls # <<>> /\ Last(calls) = c
  BY <1>2, <1>5, ListedIn, EmptySeq DEF Last
<1>7. Linked(calls)
  <2>1. \A n \in 1 .. 1 - 1 : FALSE
    OBVIOUS
  <2> QED
    BY <1>6, <2>1 DEF Linked
<1>8. ReadOn /\ ~Arrives(Top)
  BY <1>4, <1>6 DEF ReadOn, Arrives, Top
<1> QED
  BY <1>3, <1>7, <1>8 DEF QInv, Place

LEMMA NextQ ==
  ASSUME SInv, QInv, ParserNext
  PROVE  QGoal
<1>1. CASE VarDef \/ VarMut \/ Ret \/ If \/ While \/ Jump \/ For \/ Fn \/ Import
  BY <1>1, SimpleQ, JumpQ, ForQ, FnQ, ImportQ, Zenon
<1>2. CASE \/ Complete \/ NoElse \/ ArrowEnd \/ ArrowEqEnd \/ ForCond \/ ForMut \/ ElseIf
           \/ Param \/ BadParam \/ ParamsEnd \/ Body \/ Else
  BY <1>2, CompleteQ, PartQ, ParamQ, BodyQ, Zenon
<1>3. CASE \/ BodyEnd \/ StmtEnd \/ PastEnd \/ Unwind \/ UnwindPast \/ UnwindNull
  BY <1>3, LeaveQ, StmtEndQ, PastQ, UnwindQ, Zenon
<1>4. CASE ExprNext \/ Rests
  BY <1>4, ExprQ, StutterQ, Zenon DEF Rests
<1> QED
  BY <1>1, <1>2, <1>3, <1>4, Zenon DEF ParserNext

(* Whatever program is parsed, with whatever files it imports, while there *)
(* is no error no token is asked for behind the end of a file: not by the  *)
(* calls that skip a token unread (parser.c:318, 804), nor by an if that   *)
(* looks behind its body for an else.  The one exception is a file that    *)
(* ends in a break or an import that lacks its ";", which are themselves   *)
(* skipped unread.                                                         *)
THEOREM ReadsWithinFile == ParserSpec => StaysInFile
<1> DEFINE Inv == SInv /\ FaultsOnStatement /\ QInv
<1>1. ParserInit => Inv
  BY InitS, InitQ
<1>2. ASSUME Inv, [ParserNext]_vars PROVE Inv'
  <2>1. CASE ParserNext
    BY <1>2, <2>1, NextS, NextQ DEF SGoal, QGoal
  <2>2. CASE UNCHANGED vars
    BY <1>2, <2>2, RestsS, StutterQ DEF SGoal
  <2> QED
    BY <1>2, <2>1, <2>2
<1>3. ASSUME Inv, [ParserNext]_vars
      PROVE  [outcome = "run" /\ outcome' = "past" => Unfinished]_vars
  BY <1>3, NextQ DEF QGoal
<1> QED
  BY <1>1, <1>2, <1>3, PTL DEF ParserSpec, StaysInFile
=============================================================================
