--------------------------- MODULE EpslEval_proofs ---------------------------
(***************************************************************************)
(* The protocol of EvalStack keeps the stack discipline and every value    *)
(* that has a TEMP alive.  The evaluator keeps its types and follows the   *)
(* protocol, so that what is shown of it holds of eval; nothing is         *)
(* evaluated while a jump or an error is on its way.                       *)
(***************************************************************************)
EXTENDS EpslEval, SequenceTheorems, FiniteSetTheorems, WellFoundedInduction, TLAPS

(***************************************************************************)
(* The protocol, whatever the language.                                    *)
(***************************************************************************)
(* What Append and SubSeq do to the sequence of activations. *)
LEMMA BelowFacts ==
  ASSUME frames \in Seq(Frame), frames # <<>>
  PROVE  /\ Depth \in Nat \ {0}
         /\ Top \in Frame
         /\ Below \in Seq(Frame) /\ Len(Below) = Depth - 1
         /\ \A i \in 1 .. Depth - 1 : Below[i] = frames[i]
<1>1. Depth \in Nat \ {0}
  BY EmptySeq DEF Depth
<1>2. \A i \in 1 .. Depth : frames[i] \in Frame
  BY ElementOfSeq DEF Depth
<1> QED
  BY <1>1, <1>2, SubSeqProperties DEF Top, Below

LEMMA EnterFacts ==
  ASSUME frames \in Seq(Frame), NEW f \in Frame, frames' = Append(frames, f)
  PROVE  /\ frames' \in Seq(Frame) /\ Depth' = Depth + 1
         /\ frames'[Depth + 1] = f
         /\ \A i \in 1 .. Depth : frames'[i] = frames[i]
  BY DEF Depth

LEMMA ResumeFacts ==
  ASSUME frames \in Seq(Frame), frames # <<>>, NEW f \in Frame, frames' = Append(Below, f)
  PROVE  /\ frames' \in Seq(Frame) /\ Depth' = Depth
         /\ frames'[Depth] = f
         /\ \A i \in 1 .. Depth - 1 : frames'[i] = frames[i]
  BY BelowFacts DEF Depth

LEMMA ContinueFacts ==
  ASSUME frames \in Seq(Frame), frames # <<>>, NEW f \in Frame, NEW g \in Frame,
         frames' = Append(Append(Below, f), g)
  PROVE  /\ frames' \in Seq(Frame) /\ Depth' = Depth + 1
         /\ frames'[Depth] = f /\ frames'[Depth + 1] = g
         /\ \A i \in 1 .. Depth - 1 : frames'[i] = frames[i]
<1> DEFINE s == Append(Below, f)
<1>1. Below \in Seq(Frame) /\ Len(Below) = Depth - 1 /\ Depth \in Nat \ {0}
      /\ \A i \in 1 .. Depth - 1 : Below[i] = frames[i]
  BY BelowFacts
<1>2. /\ s \in Seq(Frame) /\ Len(s) = Depth
      /\ s[Depth] = f /\ \A i \in 1 .. Depth - 1 : s[i] = frames[i]
  BY <1>1
<1>3. frames' = Append(s, g)
  OBVIOUS
<1> HIDE DEF s
<1> QED
  BY <1>1, <1>2, <1>3 DEF Depth

LEMMA LeaveFacts ==
  ASSUME frames \in Seq(Frame), frames # <<>>, frames' = Below
  PROVE  /\ frames' \in Seq(Frame) /\ Depth' = Depth - 1
         /\ \A i \in 1 .. Depth - 1 : frames'[i] = frames[i]
  BY BelowFacts DEF Depth
(* A value with a TEMP that is not gone *)
Protected(slot, h) ==
  slot.at # 0 => /\ slot.at <= h
                 /\ stack[slot.at] = Temp(slot.v)
                 /\ slot.v \in objs \cup Scalar

LEMMA CoveredHold ==
  ASSUME NEW i \in 1 .. Depth, NEW j \in 1 .. Len(frames[i].hold), frames[i].hold[j] \notin Bare(i)
  PROVE  Protected(frames[i].hold[j], Ceiling(i) - Loop(frames[i]))
<1>1. frames[i].hold[j] \in HeldBy(frames[i])
  BY DEF HeldBy
<1>2. frames[i].hold[j].at # 0 => Standing(frames[i].hold[j], Ceiling(i) - Loop(frames[i]))
  BY <1>1 DEF Bare
<1> QED
  BY <1>2 DEF Protected, Standing

LEMMA CoveredVal ==
  ASSUME Depth \in 1 .. Depth, val # Pending, val \notin Bare(Depth)
  PROVE  Protected(val, Len(stack))
<1>1. val \in InHand(Depth)
  BY DEF InHand
<1>2. val.at # 0 => Standing(val, Len(stack))
  BY <1>1 DEF Bare
<1> QED
  BY <1>2 DEF Protected, Standing

(* A protected slot stays protected by its TEMP when the stack keeps the   *)
(* symbols up to h and the collection spares what has a TEMP.              *)
LEMMA StaysProtected ==
  ASSUME StackTypeOK, StackTypeOK', NEW slot \in Slot, NEW h \in Nat,
         slot.at # 0, slot.at <= h, Agree(h), Spares,
         stack[slot.at] = Temp(slot.v), slot.v \in objs \cup Scalar
  PROVE  stack'[slot.at] = Temp(slot.v) /\ slot.v \in objs' \cup Scalar
<1>1. slot.at \in 1 .. h /\ h <= Len(stack) /\ slot.at \in 1 .. Len(stack)
  BY DEF Slot, Agree, StackTypeOK
<1>2. Same(stack[slot.at], stack'[slot.at])
  BY <1>1 DEF Agree
<1>3. stack[slot.at].kind = "TEMP" /\ stack[slot.at].v = slot.v
  BY DEF Temp
<1>4. stack'[slot.at] = stack[slot.at]
  BY <1>2, <1>3 DEF Same
<1>5. slot.v \in objs => slot.v \in objs'
  BY <1>1, <1>3 DEF Spares
<1> QED
  BY <1>4, <1>5

(* The protocol never lets the stack sink below what an activation left. *)
LEMMA ProtoDiscipline ==
  ASSUME StackTypeOK, StackTypeOK', StackDiscipline, ProtoNext
  PROVE  StackDiscipline'
<1>1. Depth \in Nat \ {0} /\ Top \in Frame
  BY BelowFacts DEF ProtoNext, StackTypeOK
<1>2. Len(stack) \in Nat /\ Len(stack') \in Nat /\ Depth' \in Nat
  BY DEF Depth, StackTypeOK
<1>3. \A i \in 1 .. Depth : frames[i] \in Frame
  BY ElementOfSeq DEF Depth, StackTypeOK
<1>4. \A i \in 1 .. Depth' : frames'[i] \in Frame
  BY ElementOfSeq DEF Depth, StackTypeOK
<1>5. \A i \in 1 .. Depth : frames[i].base \in Nat /\ frames[i].own \in Nat
  BY <1>3 DEF Frame
<1>6. \A i \in 1 .. Depth' : frames'[i].base \in Nat /\ frames'[i].own \in Nat
  BY <1>4 DEF Frame
<1>7. \A i \in 1 .. Depth - 1 : frames[i].base + frames[i].own <= Top.base
  BY <1>1 DEF StackDiscipline, Top
<1>8. /\ Top.base + Top.own <= Len(stack)
      /\ Top.base \in Nat /\ Top.own \in Nat
  BY <1>1, <1>5 DEF StackDiscipline, Top
<1>9. frames \in Seq(Frame) /\ frames # <<>>
  BY DEF StackTypeOK, ProtoNext
<1>10. \A i \in 1 .. Depth : frames[i].base + frames[i].own <= Len(stack)
  BY DEF StackDiscipline
<1>11. \A i \in 1 .. Depth : \A j \in i + 1 .. Depth : frames[i].base + frames[i].own <= frames[j].base
  BY DEF StackDiscipline
<1>12. SUFFICES ASSUME NEW i \in 1 .. Depth'
                PROVE  /\ frames'[i].base + frames'[i].own <= Len(stack')
                       /\ \A j \in i + 1 .. Depth' : frames'[i].base + frames'[i].own <= frames'[j].base
  BY DEF StackDiscipline
<1>13. CASE ProtoLeaf
  <2>1. Len(stack) <= Len(stack') /\ frames' = frames /\ Depth' = Depth
    BY <1>13 DEF ProtoLeaf, Agree, Depth
  <2> QED
    BY <2>1, <1>2, <1>5, <1>10, <1>11
<1>14. CASE ProtoEnter
  <2> DEFINE f == frames'[Depth + 1]
  <2>1. /\ frames' = Append(frames, f) /\ Depth' = Depth + 1
        /\ f.base = Len(stack) /\ f.own = 0 /\ Len(stack) <= Len(stack')
    BY <1>14 DEF ProtoEnter, Enter, Agree, Depth
  <2>2. f \in Frame
    BY <2>1, <1>1, <1>4
  <2>3. \A m \in 1 .. Depth : frames'[m] = frames[m]
    BY <2>1, <2>2, <1>9, EnterFacts
  <2>4. CASE i = Depth + 1
    BY <2>4, <2>1, <1>1
  <2>5. CASE i <= Depth
    <3>1. frames'[i] = frames[i] /\ frames[i].base + frames[i].own <= Len(stack)
      BY <2>5, <2>3, <1>1, <1>10
    <3>2. ASSUME NEW j \in i + 1 .. Depth'
          PROVE  frames[i].base + frames[i].own <= frames'[j].base
      <4>1. CASE j = Depth + 1
        BY <4>1, <3>1, <2>1
      <4>2. CASE j <= Depth
        BY <4>2, <3>1, <2>1, <2>3, <2>5, <1>1, <1>11
      <4> QED
        BY <4>1, <4>2, <2>1, <1>1
    <3> QED
      BY <3>1, <3>2, <2>1, <2>5, <1>1, <1>2, <1>5
  <2> QED
    BY <2>4, <2>5, <2>1, <1>1
<1>15. CASE ProtoResume
  <2> DEFINE f == frames'[Depth]
  <2>1. /\ frames' = Append(Below, f) /\ Depth' = Depth
        /\ f.base \in {Top.base, Len(stack')} /\ f.base + f.own <= Len(stack')
        /\ \E h \in 0 .. Len(stack) : h >= Top.base /\ Agree(h)
    BY <1>15 DEF ProtoResume, Resume, Depth
  <2>2. Top.base <= Len(stack')
    BY <2>1, <1>2, <1>8 DEF Agree
  <2>3. f \in Frame
    BY <2>1, <1>1, <1>4
  <2>4. \A m \in 1 .. Depth - 1 : frames'[m] = frames[m]
    BY <2>1, <2>3, <1>9, ResumeFacts
  <2>5. Top.base <= f.base /\ f.base \in Nat /\ f.own \in Nat
    BY <2>1, <2>2, <2>3, <1>8, SMTT(30) DEF Frame
  <2>6. CASE i = Depth
    BY <2>6, <2>1, <1>1
  <2>7. CASE i < Depth
    <3>1. frames'[i] = frames[i] /\ frames[i].base + frames[i].own <= Top.base
      BY <2>7, <2>4, <1>1, <1>7
    <3>2. ASSUME NEW j \in i + 1 .. Depth'
          PROVE  frames[i].base + frames[i].own <= frames'[j].base
      <4>1. CASE j = Depth
        BY <4>1, <3>1, <2>5, <1>1, <1>5, <1>8
      <4>2. CASE j < Depth
        BY <4>2, <2>4, <2>1, <1>1, <1>11
      <4> QED
        BY <4>1, <4>2, <2>1, <1>1
    <3> QED
      BY <3>1, <3>2, <2>1, <2>2, <1>1, <1>2, <1>5, <1>8
  <2> QED
    BY <2>6, <2>7, <2>1, <1>1
<1>16. CASE ProtoContinue
  <2> DEFINE f == frames'[Depth]
             g == frames'[Depth + 1]
  <2>1. /\ frames' = Append(Append(Below, f), g) /\ Depth' = Depth + 1
        /\ f.base = Top.base /\ f.base + f.own <= Len(stack')
        /\ g.base = Len(stack') /\ g.own = 0
        /\ Len(stack) <= Len(stack')
    BY <1>16 DEF ProtoContinue, Continue, Agree, Depth
  <2>2. f \in Frame /\ g \in Frame
    BY <2>1, <1>1, <1>4
  <2>3. \A m \in 1 .. Depth - 1 : frames'[m] = frames[m]
    BY <2>1, <2>2, <1>9, ContinueFacts
  <2>4. f.base \in Nat /\ f.own \in Nat
    BY <2>2 DEF Frame
  <2>5. CASE i >= Depth
    BY <2>5, <2>1, <2>4, <1>1, <1>2
  <2>6. CASE i < Depth
    <3>1. /\ frames'[i] = frames[i] /\ frames[i].base \in Nat /\ frames[i].own \in Nat
          /\ frames[i].base + frames[i].own <= Top.base
      BY <2>6, <2>3, <1>1, <1>5, <1>7
    <3>2. frames[i].base + frames[i].own <= Len(stack')
      BY <3>1, <2>1, <1>2, <1>8
    <3>3. ASSUME NEW j \in i + 1 .. Depth'
          PROVE  frames[i].base + frames[i].own <= frames'[j].base
      <4>1. CASE j < Depth
        BY <4>1, <2>3, <2>1, <1>1, <1>11
      <4>2. CASE j = Depth
        BY <4>2, <3>1, <2>1
      <4>3. CASE j = Depth + 1
        BY <4>3, <3>2, <2>1
      <4> QED
        BY <4>1, <4>2, <4>3, <2>1, <1>1
    <3> QED
      BY <3>1, <3>2, <3>3
  <2> QED
    BY <2>5, <2>6, <2>1, <1>1
<1>17. CASE ProtoLeave
  <2>1. PICK h \in 0 .. Len(stack) : h >= Top.base /\ Agree(h)
    BY <1>17 DEF ProtoLeave
  <2>2. Top.base <= Len(stack')
    BY <2>1, <1>2, <1>8 DEF Agree
  <2>3. Depth' = Depth - 1 /\ \A m \in 1 .. Depth - 1 : frames'[m] = frames[m]
    BY <1>17, <1>9, LeaveFacts DEF ProtoLeave, Leave
  <2>4. frames[i].base + frames[i].own <= Len(stack')
    BY <2>2, <2>3, <1>1, <1>2, <1>5, <1>7, <1>8
  <2> QED
    BY <2>3, <2>4, <1>1, <1>11
<1> QED
  BY <1>13, <1>14, <1>15, <1>16, <1>17 DEF ProtoNext

(* The protocol takes no TEMP from under a value, but for what it drops.   *)
Lasts == \A i \in 1 .. Depth' :
           Bare(i)' \subseteq Bare(i) \cup Bare(i + 1) \cup (IF Drops THEN {val'} ELSE {})

LEMMA ProtoTemps ==
  ASSUME StackTypeOK, StackTypeOK', StackDiscipline, ProtoNext
  PROVE  Lasts
<1>1. Depth \in Nat \ {0} /\ Top \in Frame
  BY BelowFacts DEF ProtoNext, StackTypeOK
<1>2. Len(stack) \in Nat /\ Len(stack') \in Nat /\ Depth' \in Nat
  BY DEF Depth, StackTypeOK
<1>3. \A i \in 1 .. Depth : frames[i] \in Frame
  BY ElementOfSeq DEF Depth, StackTypeOK
<1>4. \A i \in 1 .. Depth' : frames'[i] \in Frame
  BY ElementOfSeq DEF Depth, StackTypeOK
<1>5. frames \in Seq(Frame) /\ frames # <<>>
  BY DEF StackTypeOK, ProtoNext
<1>6. Spares
  BY DEF ProtoNext
<1>7. Top.base \in Nat /\ \A i \in 1 .. Depth : frames[i].base \in Nat /\ frames[i].own \in Nat
  BY <1>1, <1>3 DEF Frame
<1>8. Top = frames[Depth]
  BY DEF Top
<1> DEFINE Safe(slot, h) == slot.at # 0 => /\ slot.at <= h
                                            /\ stack'[slot.at] = Temp(slot.v)
                                            /\ slot.v \in objs' \cup Scalar
(* A frame below the innermost keeps its slots protected. *)
<1>9. ASSUME NEW h \in Nat, Agree(h), h >= Top.base,
             NEW i \in 1 .. Depth - 1, NEW j \in 1 .. Len(frames[i].hold),
             frames[i].hold[j] \notin Bare(i)
      PROVE  Safe(frames[i].hold[j], frames[i + 1].base - Loop(frames[i]))
  <2>1. frames[i].hold[j] \in Slot
    BY <1>3, <1>1, ElementOfSeq DEF Frame
  <2>2. Protected(frames[i].hold[j], frames[i + 1].base - Loop(frames[i]))
    <3>1. i \in 1 .. Depth /\ Ceiling(i) = frames[i + 1].base
      BY <1>1 DEF Ceiling
    <3> QED
      BY <3>1, <1>9, CoveredHold
  <2>3. frames[i + 1].base <= Top.base /\ frames[i + 1].base \in Nat
    BY <1>1, <1>7, <1>8 DEF StackDiscipline
  <2>4. Loop(frames[i]) \in {0, 1}
    BY DEF Loop
  <2>5. frames[i].hold[j].at # 0 => frames[i].hold[j].at <= h
    BY <2>1, <2>2, <2>3, <2>4, <1>7, <1>9 DEF Protected, Slot
  <2> QED
    BY <2>1, <2>2, <2>5, <1>9, <1>6, StaysProtected DEF Protected
(* What is handed on from before stays protected ... *)
<1>10. ASSUME NEW h \in Nat, Agree(h), NEW slot \in Slot, Kept(slot, h), slot \notin Bare(Depth)
       PROVE  Safe(slot, h)
  <2>1. SUFFICES ASSUME slot.at # 0
                 PROVE  Safe(slot, h)
    OBVIOUS
  <2>2. slot \in Old /\ slot.at <= h
    BY <2>1, <1>10 DEF Kept
  <2>3. CASE slot = val
    <3>1. Protected(slot, Len(stack))
      BY <2>3, <1>1, <1>10, StackAssumption, CoveredVal
    <3> QED
      BY <3>1, <2>1, <2>2, <1>10, <1>6, StaysProtected DEF Protected
  <2>4. CASE slot \in HeldBy(Top)
    <3>1. PICK i \in 1 .. Len(Top.hold) : slot = Top.hold[i]
      BY <2>4 DEF HeldBy
    <3>2. Protected(slot, Ceiling(Depth) - Loop(frames[Depth]))
      BY <3>1, <1>1, <1>8, <1>10, CoveredHold
    <3> QED
      BY <3>2, <2>1, <2>2, <1>10, <1>6, StaysProtected DEF Protected
  <2> QED
    BY <2>2, <2>3, <2>4 DEF Old
(* ... and what is protected anew is so from the start. *)
<1>11. ASSUME NEW slot \in Slot, Fresh(slot)
       PROVE  Safe(slot, Len(stack'))
  BY <1>11, <1>2 DEF Fresh
<1>12. val' # Pending => val' \in Slot
  BY DEF StackTypeOK
<1>13. \A i \in 1 .. Depth' : \A j \in 1 .. Len(frames'[i].hold) : frames'[i].hold[j] \in Slot
  BY <1>4, ElementOfSeq DEF Frame
<1> HIDE DEF Safe
<1>14. SUFFICES /\ \A i \in 1 .. Depth' : \A j \in 1 .. Len(frames'[i].hold) :
                      frames'[i].hold[j] \notin Bare(i) =>
                        Safe(frames'[i].hold[j], Ceiling(i)' - Loop(frames'[i]))
                /\ val' # Pending => \/ Safe(val', Len(stack')) \/ Drops
                                     \/ val' \in Bare(Depth) /\ Depth \in {Depth', Depth' + 1}
  <2> SUFFICES ASSUME NEW i \in 1 .. Depth', NEW slot \in Bare(i)'
               PROVE  slot \in Bare(i) \cup Bare(i + 1) \cup (IF Drops THEN {val'} ELSE {})
    BY DEF Lasts
  <2>1. /\ slot.at # 0
        /\ \/ slot \in HeldBy(frames'[i]) /\ ~Standing(slot, Ceiling(i) - Loop(frames[i]))'
           \/ i = Depth' /\ slot = val' /\ val' # Pending /\ ~Standing(slot, Len(stack))'
    BY DEF Bare, InHand
  <2>2. CASE slot \in HeldBy(frames'[i]) /\ ~Standing(slot, Ceiling(i) - Loop(frames[i]))'
    <3>1. PICK j \in 1 .. Len(frames'[i].hold) : slot = frames'[i].hold[j]
      BY <2>2 DEF HeldBy
    <3>2. slot \in Slot /\ Ceiling(i)' - Loop(frames'[i]) \in Int
      <4>1. Ceiling(i)' \in Int
        BY <1>2, <1>4 DEF Ceiling, Frame
      <4> QED
        BY <3>1, <4>1, <1>13 DEF Loop
    <3>3. ~Safe(slot, Ceiling(i)' - Loop(frames'[i]))
      BY <2>1, <2>2, <3>2 DEF Safe, Standing, Slot, Loop
    <3> QED
      BY <3>1, <3>3
  <2>3. CASE i = Depth' /\ slot = val' /\ val' # Pending /\ ~Standing(slot, Len(stack))'
    <3>1. slot \in Slot
      BY <2>3, <1>12
    <3>2. ~Safe(slot, Len(stack'))
      BY <2>1, <2>3, <3>1, <1>2 DEF Safe, Standing, Slot
    <3>3. Drops \/ val' \in Bare(i) \/ val' \in Bare(i + 1)
      BY <2>3, <3>2
    <3> QED
      BY <2>3, <3>3
  <2> QED
    BY <2>1, <2>2, <2>3
<1>15. ASSUME NEW h \in Int, NEW k \in Int, h <= k, NEW slot \in Slot, Safe(slot, h)
       PROVE  Safe(slot, k)
  BY <1>15 DEF Safe, Slot
<1>16. ASSUME NEW h \in Nat, Agree(h), NEW slot \in Slot, Kept(slot, h) \/ Fresh(slot),
              slot \notin Bare(Depth)
       PROVE  Safe(slot, Len(stack'))
  <2>1. h <= Len(stack')
    BY <1>16 DEF Agree
  <2> QED
    BY <2>1, <1>2, <1>10, <1>11, <1>15, <1>16
<1>17. Top.base <= Len(stack)
  BY <1>1, <1>7, <1>8, <1>2 DEF StackDiscipline
<1>18. \A i \in 1 .. Depth : frames[i].base \in Int /\ Loop(frames[i]) \in {0, 1}
  BY <1>7 DEF Loop
<1>19. ASSUME Agree(Len(stack)), NEW j \in 1 .. Len(Top.hold), Top.hold[j] \notin Bare(Depth)
       PROVE  Safe(Top.hold[j], Len(stack) - Loop(Top))
  <2>1. Protected(Top.hold[j], Len(stack) - Loop(Top))
    <3>1. Ceiling(Depth) = Len(stack) /\ Depth \in 1 .. Depth
      BY <1>1 DEF Ceiling
    <3> QED
      BY <3>1, <1>8, <1>19, CoveredHold
  <2>2. Top.hold[j] \in Slot
    BY <1>1, ElementOfSeq DEF Frame
  <2>3. Top.hold[j].at # 0 => Top.hold[j].at <= Len(stack)
    BY <2>1, <2>2, <1>1, <1>2, <1>8, <1>18 DEF Protected, Slot
  <2> QED
    BY <2>1, <2>2, <2>3, <1>2, <1>6, <1>19, StaysProtected DEF Protected, Safe
<1>20. CASE ProtoLeaf
  <2>1. frames' = frames /\ Depth' = Depth /\ Agree(Len(stack)) /\ Len(stack) <= Len(stack')
    BY <1>20 DEF ProtoLeaf, Agree, Depth
  <2>2. ASSUME NEW i \in 1 .. Depth, NEW j \in 1 .. Len(frames[i].hold),
               frames[i].hold[j] \notin Bare(i)
        PROVE  Safe(frames[i].hold[j], Ceiling(i)' - Loop(frames[i]))
    <3>1. CASE i < Depth
      <4>1. Ceiling(i)' = frames[i + 1].base /\ i \in 1 .. Depth - 1
        BY <3>1, <2>1, <1>1 DEF Ceiling
      <4> QED
        BY <2>2, <4>1, <2>1, <1>2, <1>9, <1>17
    <3>2. CASE i = Depth
      <4>1. Ceiling(i)' = Len(stack')
        BY <3>2, <2>1 DEF Ceiling
      <4>2. Safe(frames[i].hold[j], Len(stack) - Loop(frames[i]))
        BY <2>2, <3>2, <2>1, <1>8, <1>19
      <4>3. frames[i].hold[j] \in Slot
        BY <2>1, <1>13
      <4> QED
        BY <4>1, <4>2, <4>3, <2>1, <1>2, <1>15, <1>18
    <3> QED
      BY <3>1, <3>2, <1>1
  <2>3. val' # Pending /\ (Kept(val', Len(stack)) \/ Fresh(val'))
    BY <1>20 DEF ProtoLeaf
  <2> QED
    BY <2>1, <2>2, <2>3, <1>2, <1>12, <1>16
<1>21. CASE ProtoEnter
  <2> DEFINE f == frames'[Depth + 1]
  <2>1. /\ frames' = Append(frames, f) /\ Depth' = Depth + 1 /\ val' = Pending
        /\ f.base = Len(stack) /\ Loop(f) = 0 /\ Agree(Len(stack))
        /\ \A i \in 1 .. Len(f.hold) : f.hold[i].at = 0 \/ Fresh(f.hold[i])
    BY <1>21 DEF ProtoEnter, Enter, Depth
  <2>2. f \in Frame
    BY <2>1, <1>1, <1>4
  <2>3. \A m \in 1 .. Depth : frames'[m] = frames[m]
    BY <2>1, <2>2, <1>5, EnterFacts
  <2>4. ASSUME NEW i \in 1 .. Depth', NEW j \in 1 .. Len(frames'[i].hold),
               frames'[i].hold[j] \notin Bare(i)
        PROVE  Safe(frames'[i].hold[j], Ceiling(i)' - Loop(frames'[i]))
    <3>1. CASE i < Depth
      <4>1. Ceiling(i)' = frames[i + 1].base /\ i \in 1 .. Depth - 1 /\ frames'[i] = frames[i]
        BY <3>1, <2>1, <2>3, <1>1, SMTT(30) DEF Ceiling
      <4> QED
        BY <2>4, <4>1, <2>1, <1>2, <1>9, <1>17
    <3>2. CASE i = Depth
      <4>1. Ceiling(i)' = Len(stack) /\ frames'[i] = Top
        BY <3>2, <2>1, <2>3, <1>1, <1>8 DEF Ceiling
      <4> QED
        BY <2>4, <4>1, <2>1, <3>2, <1>19
    <3>3. CASE i = Depth + 1
      <4>1. Ceiling(i)' - Loop(frames'[i]) = Len(stack')
        BY <3>3, <2>1, <1>2 DEF Ceiling
      <4>2. frames'[i].hold[j] \in Slot /\ (frames'[i].hold[j].at = 0 \/ Fresh(frames'[i].hold[j]))
        BY <3>3, <2>1, <1>13
      <4> QED
        BY <4>1, <4>2, <1>11 DEF Safe
    <3> QED
      BY <3>1, <3>2, <3>3, <2>1, <1>1
  <2> QED
    BY <2>1, <2>4
<1>22. CASE ProtoResume
  <2> DEFINE f == frames'[Depth]
  <2>1. /\ frames' = Append(Below, f) /\ Depth' = Depth /\ val' = Pending
        /\ f.base \in {Top.base, Len(stack')} /\ Loop(f) = 0
    BY <1>22 DEF ProtoResume, Resume, Depth
  <2>2. PICK h \in 0 .. Len(stack) :
           /\ h >= Top.base /\ Agree(h)
           /\ \A i \in 1 .. Len(f.hold) : Kept(f.hold[i], h) \/ Fresh(f.hold[i])
    BY <1>22 DEF ProtoResume
  <2>3. f \in Frame
    BY <2>1, <1>1, <1>4
  <2>4. \A m \in 1 .. Depth - 1 : frames'[m] = frames[m]
    BY <2>1, <2>3, <1>5, ResumeFacts
  <2>5. Top.base <= f.base /\ f.base \in Int /\ h \in Nat
    BY <2>1, <2>2, <1>2, <1>7 DEF Agree
  <2>6. ASSUME NEW i \in 1 .. Depth, NEW j \in 1 .. Len(frames'[i].hold),
               frames'[i].hold[j] \notin Bare(i)
        PROVE  Safe(frames'[i].hold[j], Ceiling(i)' - Loop(frames'[i]))
    <3>1. CASE i < Depth
      <4>1. frames'[i] = frames[i] /\ i \in 1 .. Depth - 1 /\ Ceiling(i)' = frames'[i + 1].base
        BY <3>1, <2>1, <2>4, <1>1 DEF Ceiling
      <4>2. Safe(frames[i].hold[j], frames[i + 1].base - Loop(frames[i]))
        BY <2>6, <4>1, <2>2, <2>5, <1>9
      <4>3. frames[i + 1].base <= frames'[i + 1].base /\ frames'[i + 1].base \in Int
            /\ frames[i + 1].base \in Int
        <5>1. CASE i + 1 = Depth
          BY <5>1, <2>5, <1>7, <1>8
        <5>2. CASE i + 1 < Depth
          BY <5>2, <2>4, <1>1, <1>7
        <5> QED
          BY <5>1, <5>2, <4>1, <1>1
      <4>4. frames[i].hold[j] \in Slot
        BY <4>1, <2>1, <1>13
      <4> QED
        BY <4>1, <4>2, <4>3, <4>4, <1>15, <1>18
    <3>2. CASE i = Depth
      <4>1. Ceiling(i)' - Loop(frames'[i]) = Len(stack')
        BY <3>2, <2>1, <1>2 DEF Ceiling
      <4>2. frames'[i].hold[j] \in Slot /\ (Kept(frames'[i].hold[j], h) \/ Fresh(frames'[i].hold[j]))
        BY <3>2, <2>1, <2>2, <1>13
      <4> QED
        BY <2>6, <4>1, <4>2, <2>2, <2>5, <3>2, <1>16
    <3> QED
      BY <3>1, <3>2, <1>1
  <2> QED
    BY <2>1, <2>6
<1>23. CASE ProtoContinue
  <2> DEFINE f == frames'[Depth]
             g == frames'[Depth + 1]
  <2>1. /\ frames' = Append(Append(Below, f), g) /\ Depth' = Depth + 1 /\ val' = Pending
        /\ f.base = Top.base /\ g.base = Len(stack') /\ g.hold = <<>>
        /\ Agree(Len(stack)) /\ Len(stack') >= Len(stack) + Loop(f)
        /\ \A i \in 1 .. Len(f.hold) : Kept(f.hold[i], Len(stack))
    BY <1>23 DEF ProtoContinue, Continue, Depth
  <2>2. f \in Frame /\ g \in Frame
    BY <2>1, <1>1, <1>4
  <2>3. \A m \in 1 .. Depth - 1 : frames'[m] = frames[m]
    BY <2>1, <2>2, <1>5, ContinueFacts
  <2>4. Loop(f) \in {0, 1}
    BY DEF Loop
  <2>5. ASSUME NEW i \in 1 .. Depth', NEW j \in 1 .. Len(frames'[i].hold),
               frames'[i].hold[j] \notin Bare(i)
        PROVE  Safe(frames'[i].hold[j], Ceiling(i)' - Loop(frames'[i]))
    <3>1. CASE i < Depth
      <4>1. frames'[i] = frames[i] /\ i \in 1 .. Depth - 1 /\ Ceiling(i)' = frames'[i + 1].base
        BY <3>1, <2>1, <2>3, <1>1 DEF Ceiling
      <4>2. frames'[i + 1].base = frames[i + 1].base
        BY <3>1, <2>1, <2>3, <1>1, <1>8
      <4> QED
        BY <2>5, <4>1, <4>2, <2>1, <1>2, <1>9, <1>17
    <3>2. CASE i = Depth
      <4>1. Ceiling(i)' = Len(stack')
        BY <3>2, <2>1, <1>1 DEF Ceiling
      <4>2. frames'[i].hold[j] \in Slot /\ Kept(frames'[i].hold[j], Len(stack))
        BY <3>2, <2>1, <1>13
      <4>3. Safe(frames'[i].hold[j], Len(stack))
        BY <2>5, <4>2, <2>1, <1>2, <3>2, <1>10
      <4> QED
        BY <4>1, <4>2, <4>3, <3>2, <2>1, <2>4, <1>2, <1>15
    <3>3. CASE i = Depth + 1
      BY <3>3, <2>1
    <3> QED
      BY <3>1, <3>2, <3>3, <2>1, <1>1
  <2> QED
    BY <2>1, <2>5
<1>24. CASE ProtoLeave
  <2>1. frames' = Below /\ val' # Pending
    BY <1>24 DEF ProtoLeave, Leave
  <2>2. PICK h \in 0 .. Len(stack) : /\ h >= Top.base /\ Agree(h)
                                     /\ Kept(val', h) \/ Fresh(val') \/ Drops
    BY <1>24 DEF ProtoLeave
  <2>3. Depth' = Depth - 1 /\ \A m \in 1 .. Depth - 1 : frames'[m] = frames[m]
    BY <2>1, <1>5, LeaveFacts
  <2>4. Top.base <= Len(stack') /\ h \in Nat
    BY <2>2, <1>2, <1>7 DEF Agree
  <2>5. ASSUME NEW i \in 1 .. Depth', NEW j \in 1 .. Len(frames'[i].hold),
               frames'[i].hold[j] \notin Bare(i)
        PROVE  Safe(frames'[i].hold[j], Ceiling(i)' - Loop(frames'[i]))
    <3>1. frames'[i] = frames[i] /\ i \in 1 .. Depth - 1
      BY <2>3, <1>1
    <3>2. Safe(frames[i].hold[j], frames[i + 1].base - Loop(frames[i]))
      BY <2>5, <3>1, <2>2, <2>4, <1>9
    <3>3. frames[i + 1].base <= Ceiling(i)' /\ Ceiling(i)' \in Int /\ frames[i + 1].base \in Int
      <4>1. CASE i = Depth - 1
        BY <4>1, <2>3, <2>4, <1>1, <1>2, <1>7, <1>8 DEF Ceiling
      <4>2. CASE i < Depth - 1
        BY <4>2, <2>3, <1>1, <1>7 DEF Ceiling
      <4> QED
        BY <4>1, <4>2, <3>1, <1>1
    <3>4. frames[i].hold[j] \in Slot
      BY <3>1, <1>13
    <3>5. Loop(frames[i]) \in {0, 1}
      BY <3>1, <1>1, <1>18
    <3> DEFINE m == frames[i + 1].base - Loop(frames[i])
               n == Ceiling(i)' - Loop(frames[i])
    <3>6. m \in Int /\ n \in Int /\ m <= n
      BY <3>3, <3>5
    <3>7. Safe(frames[i].hold[j], n)
      BY <3>2, <3>4, <3>6, <1>15
    <3> QED
      BY <3>1, <3>7
  <2> QED
    BY <1>1, <2>1, <2>2, <2>3, <2>4, <2>5, <1>12, <1>16
<1> QED
  BY <1>20, <1>21, <1>22, <1>23, <1>24 DEF ProtoNext

(***************************************************************************)
(* The evaluator.                                                          *)
(***************************************************************************)
(* How many values an activation holds, and which of them are objects *)
Holds(k)    == IF k \in {"dict_v", "asg_k"} THEN 2
               ELSE IF k \in {"bin_r", "asg_c", "list", "dict_k", "any", "each_n", "each_b"} THEN 1
               ELSE 0
Containers  == {"list", "dict_k", "dict_v", "any", "each_n", "each_b"}
Shaped(f)   == /\ Len(f.hold) >= Holds(f.k)
               /\ f.k \in Containers => f.hold[1].v \in Obj
               /\ f.k = "each_b" => f.own = 1
FrameShape  == wild = "no" => \A i \in 1 .. Depth : Shaped(frames[i])

IInv == TypeOK /\ FrameShape /\ StackDiscipline

(* What a step must establish of stack, cap, frames and val *)
Moves     == ProtoLeaf \/ ProtoEnter \/ ProtoResume \/ ProtoContinue \/ ProtoLeave
StackGoal == StackTypeOK' /\ FrameShape' /\ Moves
(* ... of the heap ... *)
HeapGoal  == HeapTypeOK' /\ Spares
(* ... and of the rest *)
RestGoal  == /\ state' \in {"NONE", "RET", "BREAK", "CONT"}
             /\ err' \in BOOLEAN
             /\ wild' \in {"no", "scalar_temp", "dangling", "not_list", "stale_func", "assert", "outside"}

LEMMA TypedFacts ==
  ASSUME IInv, Running
  PROVE  /\ frames \in Seq(Frame) /\ frames # <<>> /\ Depth \in Nat \ {0}
         /\ Top \in Frame /\ Top.k \in Kinds /\ Top.base \in Nat /\ Top.own \in Nat
         /\ Top.n \in Nat /\ Top.buf \in Nat /\ Top.hold \in Seq(Slot)
         /\ stack \in Seq(Symbol) /\ Len(stack) \in Nat /\ cap \in Nat
         /\ Top.base + Top.own <= Len(stack)
         /\ Shaped(Top)
         /\ val # Pending => val \in Slot /\ val.v \in Val /\ val.at \in Nat
<1>1. frames \in Seq(Frame) /\ frames # <<>> /\ stack \in Seq(Symbol) /\ cap \in Nat
      /\ (val # Pending => val \in Slot)
  BY DEF IInv, TypeOK, StackTypeOK, Running
<1>2. Depth \in Nat \ {0} /\ Top \in Frame
  BY <1>1, BelowFacts
<1>3. Shaped(Top) /\ Top.base + Top.own <= Len(stack)
  BY <1>2 DEF IInv, Running, FrameShape, StackDiscipline, Top
<1> QED
  BY <1>1, <1>2, <1>3, SMTT(30) DEF Frame, Slot

LEMMA PushFacts ==
  ASSUME IInv, NEW sym \in Symbol, Push(sym)
  PROVE  /\ stack' \in Seq(Symbol) /\ cap' \in Nat
         /\ Len(stack') = Len(stack) + 1 /\ stack'[Len(stack) + 1] = sym
         /\ Agree(Len(stack))
<1>1. stack \in Seq(Symbol) /\ cap \in Nat
  BY DEF IInv, TypeOK, StackTypeOK
<1> QED
  BY <1>1 DEF Push, SetStack, Capacity, Agree, Same

LEMMA CutFacts ==
  ASSUME IInv, NEW n \in 0 .. Len(stack), Cut(n)
  PROVE  /\ stack' \in Seq(Symbol) /\ cap' \in Nat
         /\ Len(stack') = n /\ Agree(n)
<1>1. stack \in Seq(Symbol) /\ cap \in Nat
  BY DEF IInv, TypeOK, StackTypeOK
<1>2. \A i \in 1 .. Len(stack) : stack[i] \in Symbol
  BY <1>1
<1>3. /\ Prefix(n) \in Seq(Symbol) /\ Len(Prefix(n)) = n
      /\ \A i \in 1 .. n : Prefix(n)[i] = stack[i]
  BY <1>1, <1>2, SubSeqProperties DEF Prefix
<1> QED
  BY <1>1, <1>3 DEF Cut, SetStack, Capacity, Agree, Same

LEMMA StillFacts ==
  ASSUME IInv, Still
  PROVE  /\ stack' \in Seq(Symbol) /\ cap' \in Nat
         /\ Len(stack') = Len(stack) /\ Agree(Len(stack))
<1>1. stack \in Seq(Symbol) /\ cap \in Nat
  BY DEF IInv, TypeOK, StackTypeOK
<1> QED
  BY <1>1 DEF Still, Agree, Same

(* The shape of the activations after a push, a replacement and both. *)
LEMMA ShapeOneMore ==
  ASSUME NEW d \in Nat, NEW s, \A i \in 1 .. d : Shaped(s[i]), Shaped(s[d + 1])
  PROVE  \A i \in 1 .. d + 1 : Shaped(s[i])
<1>1. \A i \in 1 .. d + 1 : i \in 1 .. d \/ i = d + 1
  OBVIOUS
<1> QED
  BY <1>1

LEMMA ShapeEnter ==
  ASSUME frames \in Seq(Frame), NEW f \in Frame, frames' = Append(frames, f),
         FrameShape, wild = "no", wild' = "no" => Shaped(f)
  PROVE  FrameShape'
<1>1. /\ Depth' = Depth + 1 /\ frames'[Depth + 1] = f /\ Depth \in Nat
      /\ \A i \in 1 .. Depth : frames'[i] = frames[i]
  BY EnterFacts DEF Depth
<1>2. ASSUME wild' = "no"
      PROVE  \A i \in 1 .. Depth + 1 : Shaped(frames'[i])
  <2>1. \A i \in 1 .. Depth : Shaped(frames'[i])
    BY <1>1 DEF FrameShape
  <2>2. Shaped(frames'[Depth + 1])
    BY <1>1, <1>2
  <2> QED
    BY <1>1, <2>1, <2>2, ShapeOneMore
<1> QED
  BY <1>1, <1>2 DEF FrameShape

LEMMA ShapeResume ==
  ASSUME frames \in Seq(Frame), frames # <<>>, NEW f \in Frame, frames' = Append(Below, f),
         FrameShape, wild = "no", wild' = "no" => Shaped(f)
  PROVE  FrameShape'
<1>1. /\ Depth' = Depth /\ frames'[Depth] = f /\ Depth \in Nat \ {0}
      /\ \A i \in 1 .. Depth - 1 : frames'[i] = frames[i]
  BY ResumeFacts, BelowFacts
<1>2. ASSUME wild' = "no"
      PROVE  \A i \in 1 .. (Depth - 1) + 1 : Shaped(frames'[i])
  <2>1. \A i \in 1 .. Depth - 1 : Shaped(frames'[i])
    <3>1. \A i \in 1 .. Depth - 1 : i \in 1 .. Depth
      BY <1>1
    <3>2. \A i \in 1 .. Depth : Shaped(frames[i])
      BY DEF FrameShape
    <3> QED
      BY <1>1, <3>1, <3>2
  <2>2. Depth - 1 \in Nat /\ (Depth - 1) + 1 = Depth
    BY <1>1
  <2>3. Shaped(frames'[(Depth - 1) + 1])
    BY <1>1, <1>2, <2>2
  <2> QED
    BY <2>1, <2>2, <2>3, ShapeOneMore
<1>3. (Depth - 1) + 1 = Depth
  BY <1>1
<1> QED
  BY <1>1, <1>2, <1>3 DEF FrameShape

LEMMA ShapeContinue ==
  ASSUME frames \in Seq(Frame), frames # <<>>, NEW f \in Frame, NEW g \in Frame,
         frames' = Append(Append(Below, f), g),
         FrameShape, wild = "no", wild' = "no" => Shaped(f) /\ Shaped(g)
  PROVE  FrameShape'
<1>1. /\ Depth' = Depth + 1 /\ Depth \in Nat \ {0}
      /\ frames'[Depth] = f /\ frames'[Depth + 1] = g
      /\ \A i \in 1 .. Depth - 1 : frames'[i] = frames[i]
  BY ContinueFacts, BelowFacts
<1>2. ASSUME wild' = "no"
      PROVE  \A i \in 1 .. Depth + 1 : Shaped(frames'[i])
  <2>1. \A i \in 1 .. Depth - 1 : Shaped(frames'[i])
    <3>1. \A i \in 1 .. Depth - 1 : i \in 1 .. Depth
      BY <1>1
    <3>2. \A i \in 1 .. Depth : Shaped(frames[i])
      BY DEF FrameShape
    <3> QED
      BY <1>1, <3>1, <3>2
  <2>2. (Depth - 1) + 1 = Depth /\ Depth - 1 \in Nat /\ Depth \in Nat
    BY <1>1
  <2>3. Shaped(frames'[(Depth - 1) + 1]) /\ Shaped(frames'[Depth + 1])
    BY <1>1, <1>2, <2>2
  <2>4. \A i \in 1 .. (Depth - 1) + 1 : Shaped(frames'[i])
    BY <2>1, <2>2, <2>3, ShapeOneMore
  <2> QED
    BY <2>2, <2>3, <2>4, ShapeOneMore
<1> QED
  BY <1>1, <1>2 DEF FrameShape

(* The kinds of step the protocol allows, with what a step of each has to *)
(* show.                                                                   *)
LEMMA LeafGoal ==
  ASSUME IInv, Running, UNCHANGED frames, val' \in Slot,
         stack' \in Seq(Symbol), cap' \in Nat, Agree(Len(stack)),
         Kept(val', Len(stack)) \/ Fresh(val')
  PROVE  StackGoal
<1>1. val' # Pending
  BY StackAssumption
<1> QED
  BY <1>1, TypedFacts DEF StackGoal, StackTypeOK, Moves, ProtoLeaf, FrameShape, IInv, Depth, Running

LEMMA EnterGoal ==
  ASSUME IInv, Running, NEW f \in Frame, Enter(f), wild' = "no" => Shaped(f),
         f.base = Len(stack), f.own = 0, f.k # "each_b",
         stack' \in Seq(Symbol), cap' \in Nat, Agree(Len(stack)),
         \A i \in 1 .. Len(f.hold) : f.hold[i].at = 0 \/ Fresh(f.hold[i])
  PROVE  StackGoal
<1>1. frames \in Seq(Frame) /\ Depth \in Nat \ {0} /\ frames' = Append(frames, f)
  BY TypedFacts DEF Enter
<1>2. /\ frames' \in Seq(Frame) /\ Depth' = Depth + 1 /\ frames'[Depth + 1] = f
      /\ \A i \in 1 .. Depth : frames'[i] = frames[i]
  BY <1>1, EnterFacts
<1>3. FrameShape'
  BY <1>1, ShapeEnter DEF IInv, Running
<1>4. ProtoEnter
  BY <1>2 DEF ProtoEnter, Loop, Enter, Depth
<1> QED
  BY <1>2, <1>3, <1>4 DEF StackGoal, Moves, StackTypeOK, Enter

LEMMA ResumeGoal ==
  ASSUME IInv, Running, NEW f \in Frame, Resume(f), wild' = "no" => Shaped(f),
         f.base = Top.base \/ f.base = Len(stack'),
         f.base + f.own <= Len(stack'), f.k # "each_b",
         stack' \in Seq(Symbol), cap' \in Nat,
         NEW h \in 0 .. Len(stack), h >= Top.base, Agree(h),
         \A i \in 1 .. Len(f.hold) : Kept(f.hold[i], h) \/ Fresh(f.hold[i])
  PROVE  StackGoal
<1>1. frames \in Seq(Frame) /\ frames # <<>> /\ Depth \in Nat \ {0} /\ frames' = Append(Below, f)
  BY TypedFacts DEF Resume
<1>2. /\ frames' \in Seq(Frame) /\ Depth' = Depth /\ frames'[Depth] = f
      /\ \A i \in 1 .. Depth - 1 : frames'[i] = frames[i]
  BY <1>1, ResumeFacts
<1>3. FrameShape'
  BY <1>1, ShapeResume DEF IInv, Running
<1>4. ProtoResume
  BY <1>2 DEF ProtoResume, Loop, Resume, Depth
<1> QED
  BY <1>2, <1>3, <1>4 DEF StackGoal, Moves, StackTypeOK, Resume

LEMMA ContinueGoal ==
  ASSUME IInv, Running, NEW f \in Frame, NEW g \in Frame, Continue(f, g),
         wild' = "no" => Shaped(f) /\ Shaped(g),
         f.base = Top.base, f.base + f.own <= Len(stack'),
         g.base = Len(stack'), g.own = 0, g.k # "each_b", g.hold = <<>>,
         stack' \in Seq(Symbol), cap' \in Nat,
         Agree(Len(stack)), Len(stack') >= Len(stack) + Loop(f),
         \A i \in 1 .. Len(f.hold) : Kept(f.hold[i], Len(stack))
  PROVE  StackGoal
<1>1. /\ frames \in Seq(Frame) /\ frames # <<>> /\ Depth \in Nat \ {0}
      /\ frames' = Append(Append(Below, f), g)
  BY TypedFacts DEF Continue
<1>2. /\ frames' \in Seq(Frame) /\ Depth' = Depth + 1
      /\ frames'[Depth] = f /\ frames'[Depth + 1] = g
      /\ \A i \in 1 .. Depth - 1 : frames'[i] = frames[i]
  BY <1>1, ContinueFacts
<1>3. FrameShape'
  BY <1>1, ShapeContinue DEF IInv, Running
<1>4. Loop(g) = 0
  BY DEF Loop
<1>5. ProtoContinue
  BY <1>2, <1>4 DEF ProtoContinue, Continue, Depth
<1> QED
  BY <1>2, <1>3, <1>5 DEF StackGoal, Moves, StackTypeOK, Continue

LEMMA LeaveGoal ==
  ASSUME IInv, Running, NEW slot \in Slot, Leave(slot),
         stack' \in Seq(Symbol), cap' \in Nat,
         NEW h \in 0 .. Len(stack), h >= Top.base, Agree(h),
         Kept(slot, h) \/ Fresh(slot) \/ (Drops /\ slot = val)
  PROVE  StackGoal
<1>1. frames \in Seq(Frame) /\ frames # <<>> /\ Depth \in Nat \ {0} /\ frames' = Below
  BY TypedFacts DEF Leave
<1>2. /\ frames' \in Seq(Frame) /\ Depth' = Depth - 1
      /\ \A i \in 1 .. Depth - 1 : frames'[i] = frames[i]
  BY <1>1, LeaveFacts
<1>3. FrameShape'
  BY <1>1, <1>2 DEF FrameShape, IInv, Running
<1>4. val' = slot /\ val' # Pending
  BY StackAssumption DEF Leave
<1>5. ProtoLeave
  BY <1>1, <1>4 DEF ProtoLeave, Leave
<1> QED
  BY <1>2, <1>3, <1>4, <1>5 DEF StackGoal, Moves, StackTypeOK

(***************************************************************************)
(* Facts about the parts of the actions.                                   *)
(***************************************************************************)
LEMMA GreatestExists ==
  ASSUME NEW n \in Nat, NEW S, S \subseteq 1 .. n, S # {}
  PROVE  \E m \in S : \A i \in S : i <= m
<1> DEFINE T == {n - j : j \in S}
<1>1. T \subseteq Nat /\ T # {}
  <2>1. \A j \in S : n - j \in Nat
    OBVIOUS
  <2> QED
    BY <2>1
<1>2. PICK x \in T : \A y \in T : <<y, x>> \notin OpToRel(<, Nat)
  BY <1>1, NatLessThanWellFounded, WFMin
<1>3. PICK m \in S : x = n - m
  BY <1>2
<1>4. \A y \in T : ~(y < x)
  BY <1>1, <1>2 DEF OpToRel
<1>5. ASSUME NEW i \in S PROVE i <= m
  <2>1. n - i \in T /\ i \in Nat /\ m \in Nat
    BY <1>3
  <2>2. ~(n - i < n - m)
    BY <2>1, <1>3, <1>4
  <2> QED
    BY <2>1, <2>2
<1> QED
  BY <1>5

LEMMA NewestIsHit ==
  ASSUME stack \in Seq(Symbol), NEW id, Hits(id) # {}
  PROVE  Newest(id) \in Hits(id) /\ Newest(id) \in 1 .. Len(stack) /\ stack[Newest(id)] \in Symbol
<1>1. Len(stack) \in Nat /\ Hits(id) \subseteq 1 .. Len(stack)
  BY DEF Hits
<1>2. \E j \in Hits(id) : \A i \in Hits(id) : i <= j
  BY <1>1, GreatestExists
<1>3. Newest(id) \in Hits(id)
  BY <1>2 DEF Newest
<1> QED
  BY <1>1, <1>3, ElementOfSeq

LEMMA NewFrame ==
  ASSUME cap \in Nat, NEW k \in Kinds, NEW h \in Nat
  PROVE  /\ NewAt(k, h) \in Frame /\ NewAt(k, h).k = k /\ NewAt(k, h).base = h
         /\ NewAt(k, h).own = 0 /\ NewAt(k, h).hold = <<>>
  BY DEF NewAt, Frame

(* A value without protection, and what the innermost activation has *)
LEMMA Handed ==
  ASSUME IInv, Running
  PROVE  /\ \A v \in Val : Unrooted(v) \in Slot /\ \A h : Kept(Unrooted(v), h)
         /\ VNONE \in Slot /\ \A h : Kept(VNONE, h)
         /\ val # Pending => Kept(val, Len(stack))
         /\ \A i \in 1 .. Len(Top.hold) :
               /\ Top.hold[i] \in Slot /\ Kept(Top.hold[i], Len(stack))
               /\ Kept(Top.hold[i], Len(stack) - Loop(Top))
<1>1. \A v \in Val : Unrooted(v) \in Slot /\ \A h : Kept(Unrooted(v), h)
  BY DEF Unrooted, Slot, Kept
<1>2. VNONE \in Slot /\ \A h : Kept(VNONE, h)
  BY <1>1 DEF VNONE, Val, Scalar
<1>3. ASSUME val # Pending PROVE Kept(val, Len(stack))
  <2>1. Depth \in 1 .. Depth
    BY TypedFacts
  <2>2. val \notin Bare(Depth) => Protected(val, Len(stack))
    BY <1>3, <2>1, CoveredVal
  <2> QED
    BY <2>2 DEF Kept, Old, Protected
<1>4. ASSUME NEW i \in 1 .. Len(Top.hold)
      PROVE  /\ Top.hold[i] \in Slot /\ Kept(Top.hold[i], Len(stack))
             /\ Kept(Top.hold[i], Len(stack) - Loop(Top))
  <2>1. Top.hold[i] \in Slot
    <3>1. Top.hold \in Seq(Slot)
      BY TypedFacts
    <3> QED
      BY <3>1, ElementOfSeq
  <2>2. Top.hold[i] \notin Bare(Depth) => Protected(Top.hold[i], Len(stack) - Loop(Top))
    <3>1. Depth \in 1 .. Depth /\ Top = frames[Depth] /\ Ceiling(Depth) = Len(stack)
      BY TypedFacts DEF Ceiling, Top
    <3> QED
      BY <1>4, <3>1, CoveredHold
  <2>3. Loop(Top) \in {0, 1} /\ Len(stack) \in Nat
    BY TypedFacts DEF Loop
  <2>4. \/ Top.hold[i].at = 0 \/ Top.hold[i] \in Bare(Depth)
        \/ Top.hold[i].at <= Len(stack) - Loop(Top) /\ Top.hold[i].at <= Len(stack)
    BY <2>1, <2>2, <2>3 DEF Protected, Slot
  <2>5. Top.hold[i] \in Old
    BY <1>4 DEF Old, HeldBy
  <2> QED
    BY <2>1, <2>4, <2>5 DEF Kept
<1> QED
  BY <1>1, <1>2, <1>3, <1>4

(* A new object is protected. *)
LEMMA NewHeapFacts ==
  ASSUME IInv, Running, NEW o \in Obj, NewHeapVal(o)
  PROVE  /\ stack' \in Seq(Symbol) /\ cap' \in Nat
         /\ Len(stack') = Len(stack) + 1 /\ Agree(Len(stack))
         /\ Rooted(o) \in Slot /\ Fresh(Rooted(o))
<1>1. Temp(o) \in Symbol
  BY DEF Temp, Symbol, Val
<1>2. /\ stack' \in Seq(Symbol) /\ cap' \in Nat /\ Agree(Len(stack))
      /\ Len(stack') = Len(stack) + 1 /\ stack'[Len(stack) + 1] = Temp(o)
  BY <1>1, PushFacts DEF NewHeapVal
<1>3. o \in objs'
  BY DEF NewHeapVal, Alloc
<1>4. Len(stack) \in Nat
  BY TypedFacts
<1> QED
  BY <1>2, <1>3, <1>4 DEF Rooted, Slot, Val, Fresh

(* The kinds of activation a sub-tree is entered with *)
Entered == {"bin_l", "asg_r", "un", "arg", "reg", "def", "if", "while_0", "for_v", "each_c", "ret"}

LEMMA EnterStill ==
  ASSUME IInv, Running, Still, NEW k \in Entered, Enter(New(k))
  PROVE  StackGoal
<1>1. cap \in Nat /\ Len(stack) \in Nat /\ k \in Kinds
  BY TypedFacts DEF Entered, Kinds
<1>2. /\ New(k) \in Frame /\ New(k).base = Len(stack) /\ New(k).own = 0
      /\ New(k).k = k /\ New(k).hold = <<>>
  BY <1>1, NewFrame DEF New
<1>3. Shaped(New(k)) /\ New(k).k # "each_b" /\ Len(New(k).hold) = 0
  BY <1>2 DEF Shaped, Holds, Containers, Entered
<1> QED
  BY <1>2, <1>3, StillFacts, EnterGoal

(***************************************************************************)
(* Every action moves stack, cap, frames and val as the protocol allows.   *)
(***************************************************************************)
(* Only a running program takes a step. *)
LEMMA RunsOnly ==
  ASSUME Expression \/ Operator \/ Call \/ Stmt \/ Unwind
  PROVE  Running
<1>1. Expression => Running
  BY DEF Expression, ExprScalar, ExprVar, ExprStr, ExprContainer, ExprList, ExprDict,
         ExprBin, ExprAssign, ExprUn, ExprOp, ExprCall, Starts, Hole, Asked
<1>2. Operator => Running
  BY DEF Operator, UnDone, BinLeft, BinIndex, BinError, BinScalar, BinConcat, AssignVar,
         AssignElem, AssignDone, AssignError, ListItem, DictKey, DictVal, LiteralDone, Asked, Given
<1>3. Call => Running
  BY DEF Call, ArgParam, ArgAny, LibNew, AnyItem, CallBody, CallArity, CallReturn, LibScalar,
         RegArg, LibAppend, LibRemove, LibInsert, LibError, Asked, Given
<1>4. Stmt => Running
  BY DEF Stmt, StmtDef, StmtIf, StmtWhile, StmtFor, StmtEach, StmtRet, StmtRetNone, StmtBreak,
         StmtCont, StmtFn, DefDone, EachHead, If, CondError, WhileEnter, WhileHead, WhileNext,
         ForEnter, ForHead, ForNext, ForMut, EachEnter, EachNext, RetDone, BodyNext, BodyEnd,
         BodyUnwind, Opens, Statement, Asked, Given
<1>5. Unwind => Running
  BY DEF Unwind, ErrPlain, ErrPush, ErrAppend, ErrRet, Failed
<1> QED
  BY <1>1, <1>2, <1>3, <1>4, <1>5

LEMMA ExpressionMoves ==
  ASSUME IInv, Expression
  PROVE  StackGoal
<1>1. Running
  BY RunsOnly
<1>2. cap \in Nat /\ Len(stack) \in Nat /\ stack \in Seq(Symbol)
  BY <1>1, TypedFacts
<1>3. ASSUME NEW s \in Literals, ExprScalar(s) PROVE StackGoal
  <2>1. s \in Val
    BY EvalAssumption DEF Val
  <2>2. val' = Unrooted(s) /\ UNCHANGED frames /\ Still
    BY <1>3 DEF ExprScalar
  <2> QED
    BY <2>1, <2>2, <1>1, Handed, StillFacts, LeafGoal
<1>4. ASSUME Still, UNCHANGED frames, Garbage PROVE StackGoal
  <2>1. PICK v \in Val : val' = Unrooted(v)
    BY <1>4 DEF Garbage
  <2> QED
    BY <2>1, <1>1, <1>4, Handed, StillFacts, LeafGoal
<1>5. ASSUME NEW id \in Ids, ExprVar(id) PROVE StackGoal
  <2>1. UNCHANGED frames /\ Still
    BY <1>5 DEF ExprVar
  <2>2. CASE IsA(id, "VAR")
    <3>1. stack[Newest(id)] \in Symbol
      BY <2>2, <1>2, NewestIsHit DEF IsA
    <3>2. stack[Newest(id)].v \in Val /\ val' = Unrooted(stack[Newest(id)].v)
      BY <3>1, <2>2, <1>5 DEF ExprVar, Symbol
    <3> QED
      BY <2>1, <3>2, <1>1, Handed, StillFacts, LeafGoal
  <2>3. CASE ~IsA(id, "VAR")
    BY <2>1, <2>3, <1>4, <1>5 DEF ExprVar
  <2> QED
    BY <2>2, <2>3
<1>6. ASSUME NEW o \in Obj, ExprStr(o) PROVE StackGoal
  <2>1. NewHeapVal(o) /\ val' = Rooted(o) /\ UNCHANGED frames
    BY <1>6 DEF ExprStr
  <2> QED
    BY <2>1, <1>1, NewHeapFacts, LeafGoal
<1>7. ASSUME NEW o \in Obj, NEW form, NEW k \in {"list", "dict_k"}, ExprContainer(o, form, k)
      PROVE  StackGoal
  <2> DEFINE f == [New(k) EXCEPT !.hold = <<Rooted(o)>>]
  <2>1. NewHeapVal(o) /\ Enter(f)
    BY <1>7 DEF ExprContainer
  <2>2. /\ New(k) \in Frame /\ New(k).base = Len(stack) /\ New(k).own = 0
        /\ New(k).k = k /\ Rooted(o) \in Slot /\ Rooted(o).v = o
    BY <2>1, <1>1, <1>2, <1>7, NewFrame, NewHeapFacts DEF New, Kinds, Rooted
  <2>3. /\ f \in Frame /\ f.base = Len(stack) /\ f.own = 0 /\ f.k = k
        /\ f.hold = <<Rooted(o)>> /\ Len(f.hold) = 1 /\ f.hold[1] = Rooted(o)
    <3> DEFINE hold == <<Rooted(o)>>
    <3>1. hold \in Seq(Slot) /\ Len(hold) = 1 /\ hold[1] = Rooted(o)
      BY <2>2
    <3>2. f = [New(k) EXCEPT !.hold = hold]
      OBVIOUS
    <3> HIDE DEF hold
    <3>3. f \in Frame /\ f.base = Len(stack) /\ f.own = 0 /\ f.k = k /\ f.hold = hold
      BY <2>2, <3>1, <3>2 DEF Frame
    <3> QED
      BY <3>1, <3>3 DEF hold
  <2>4. Shaped(f) /\ f.k # "each_b"
    BY <2>2, <2>3, <1>7 DEF Shaped, Holds, Containers
  <2>5. \A i \in 1 .. Len(f.hold) : Fresh(f.hold[i])
    BY <2>1, <2>3, <1>1, NewHeapFacts
  <2> HIDE DEF f
  <2> QED
    BY <2>1, <2>3, <2>4, <2>5, <1>1, NewHeapFacts, EnterGoal
<1>9. ASSUME NEW id \in Ids \cup {Lib}, ExprCall(id) PROVE StackGoal
  <2>1. Still /\ (Enter(New("arg")) \/ Enter(New("reg")) \/ (UNCHANGED frames /\ Garbage))
    BY <1>9 DEF ExprCall
  <2> QED
    BY <2>1, <1>1, <1>4, EnterStill DEF Entered
<1>10. ASSUME ExprBin \/ ExprAssign \/ ExprUn PROVE StackGoal
  <2>1. Still /\ (Enter(New("bin_l")) \/ Enter(New("asg_r")) \/ Enter(New("un")))
    BY <1>10 DEF ExprBin, ExprAssign, ExprUn, ExprOp
  <2> QED
    BY <2>1, <1>1, EnterStill DEF Entered
<1> QED
  BY <1>3, <1>5, <1>6, <1>7, <1>9, <1>10 DEF Expression, ExprList, ExprDict

(* Steps that leave the stack alone *)
LEMMA LeaveStill ==
  ASSUME IInv, Running, Still, NEW slot \in Slot, Leave(slot), Kept(slot, Len(stack))
  PROVE  StackGoal
<1>1. Len(stack) \in 0 .. Len(stack) /\ Len(stack) >= Top.base
  BY TypedFacts
<1> QED
  BY <1>1, StillFacts, LeaveGoal

LEMMA LeaveScalar ==
  ASSUME IInv, Running, Still, NEW v \in Val, Leave(Unrooted(v))
  PROVE  StackGoal
  BY Handed, LeaveStill

LEMMA LeaveNone ==
  ASSUME IInv, Running, Still, Leave(VNONE)
  PROVE  StackGoal
  BY Handed, LeaveStill

LEMMA ThrowGoal ==
  ASSUME IInv, Running, Throw
  PROVE  StackGoal
<1>1. Still /\ Leave(VNONE)
  BY DEF Throw, Still
<1> QED
  BY <1>1, LeaveNone

LEMMA ResumeStill ==
  ASSUME IInv, Running, Still, NEW f \in Frame, Resume(f), wild' = "no" => Shaped(f),
         f.base = Top.base, f.base + f.own <= Len(stack), f.k # "each_b",
         \A i \in 1 .. Len(f.hold) : Kept(f.hold[i], Len(stack))
  PROVE  StackGoal
<1>1. Len(stack) \in 0 .. Len(stack) /\ Len(stack) >= Top.base
  BY TypedFacts
<1>2. Len(stack') = Len(stack)
  BY StillFacts
<1> QED
  BY <1>1, <1>2, StillFacts, ResumeGoal

(* The innermost activation goes on with what it held, or with one more. *)
LEMMA ResumeSame ==
  ASSUME IInv, Running, Still, NEW k \in Kinds, Resume([Top EXCEPT !.k = k]), k # "each_b",
         Holds(k) <= Holds(Top.k), k \in Containers => Top.k \in Containers
  PROVE  StackGoal
<1> DEFINE f == [Top EXCEPT !.k = k]
<1>1. Top \in Frame /\ Shaped(Top) /\ Top.base + Top.own <= Len(stack) /\ Top.hold \in Seq(Slot)
  BY TypedFacts
<1>2. f \in Frame /\ f.base = Top.base /\ f.own = Top.own /\ f.k = k /\ f.hold = Top.hold
  BY <1>1 DEF Frame
<1>3. Holds(k) \in Nat /\ Holds(Top.k) \in Nat /\ Len(Top.hold) \in Nat
  BY <1>1 DEF Holds
<1>4. Shaped(f)
  BY <1>1, <1>2, <1>3 DEF Shaped
<1>5. \A i \in 1 .. Len(f.hold) : Kept(f.hold[i], Len(stack))
  BY <1>2, Handed
<1>6. Resume(f)
  OBVIOUS
<1> HIDE DEF f
<1> QED
  BY <1>1, <1>2, <1>4, <1>5, <1>6, ResumeStill

LEMMA ResumeTop ==
  ASSUME IInv, Running, Still, Resume(Top), Top.k # "each_b"
  PROVE  StackGoal
<1>1. Top \in Frame /\ Shaped(Top) /\ Top.base + Top.own <= Len(stack)
  BY TypedFacts
<1> QED
  BY <1>1, Handed, ResumeStill

LEMMA ResumeWith ==
  ASSUME IInv, Running, Still, NEW k \in Kinds, NEW hold \in Seq(Slot),
         Resume([Top EXCEPT !.k = k, !.hold = hold]), k # "each_b",
         Len(hold) >= Holds(k),
         wild' = "no" /\ k \in Containers => hold[1].v \in Obj,
         \A i \in 1 .. Len(hold) : Kept(hold[i], Len(stack))
  PROVE  StackGoal
<1> DEFINE f == [Top EXCEPT !.k = k, !.hold = hold]
<1>1. Top \in Frame /\ Top.base + Top.own <= Len(stack)
  BY TypedFacts
<1>2. f \in Frame /\ f.base = Top.base /\ f.own = Top.own /\ f.k = k /\ f.hold = hold
  BY <1>1 DEF Frame
<1>3. wild' = "no" => Shaped(f)
  BY <1>2 DEF Shaped
<1>4. Resume(f)
  OBVIOUS
<1> HIDE DEF f
<1> QED
  BY <1>1, <1>2, <1>3, <1>4, ResumeStill

LEMMA ResumeMore ==
  ASSUME IInv, Running, Still, val # Pending, NEW k \in Kinds,
         Resume([Top EXCEPT !.k = k, !.hold = Append(@, val)]), k # "each_b",
         Holds(k) <= Holds(Top.k) + 1, k \in Containers => Top.k \in Containers
  PROVE  StackGoal
<1> DEFINE hold == Append(Top.hold, val)
<1>1. Top \in Frame /\ Shaped(Top) /\ Top.hold \in Seq(Slot) /\ val \in Slot
  BY TypedFacts
<1>2. Holds(k) \in Nat /\ Holds(Top.k) \in Nat /\ Len(Top.hold) \in Nat
  BY <1>1 DEF Holds
<1>3. /\ hold \in Seq(Slot) /\ Len(hold) = Len(Top.hold) + 1 /\ hold[Len(Top.hold) + 1] = val
      /\ \A i \in 1 .. Len(Top.hold) : hold[i] = Top.hold[i]
  BY <1>1
<1>4. \A i \in 1 .. Len(hold) : Kept(hold[i], Len(stack))
  BY <1>2, <1>3, Handed
<1>5. Len(hold) >= Holds(k)
  BY <1>1, <1>2, <1>3 DEF Shaped
<1>6. ASSUME k \in Containers PROVE hold[1].v \in Obj
  <2>1. Len(Top.hold) >= 1 /\ Top.hold[1].v \in Obj
    BY <1>1, <1>2, <1>6 DEF Shaped, Holds, Containers
  <2> QED
    BY <1>2, <1>3, <2>1
<1>7. Resume([Top EXCEPT !.k = k, !.hold = hold])
  BY <1>1 DEF Frame
<1> HIDE DEF hold
<1> QED
  BY <1>3, <1>4, <1>5, <1>6, <1>7, ResumeWith

LEMMA ResumeOne ==
  ASSUME IInv, Running, Still, NEW k \in Kinds, NEW slot \in Slot, Kept(slot, Len(stack)),
         Resume([Top EXCEPT !.k = k, !.hold = <<slot>>]), k # "each_b",
         Holds(k) <= 1, wild' = "no" /\ k \in Containers => slot.v \in Obj
  PROVE  StackGoal
<1> DEFINE hold == <<slot>>
<1>1. hold \in Seq(Slot) /\ Len(hold) = 1 /\ hold[1] = slot
  OBVIOUS
<1>2. Resume([Top EXCEPT !.k = k, !.hold = hold])
  OBVIOUS
<1>3. \A i \in 1 .. Len(hold) : Kept(hold[i], Len(stack))
  BY <1>1
<1> HIDE DEF hold
<1>4. Len(hold) >= Holds(k)
  BY <1>1 DEF Holds
<1> QED
  BY <1>1, <1>2, <1>3, <1>4, ResumeWith

LEMMA OperatorMoves ==
  ASSUME IInv, Operator
  PROVE  StackGoal
<1>1. Running
  BY RunsOnly
<1>2. /\ cap \in Nat /\ Len(stack) \in Nat /\ stack \in Seq(Symbol)
      /\ Top \in Frame /\ Shaped(Top) /\ Top.hold \in Seq(Slot)
      /\ (val # Pending => val \in Slot /\ val.v \in Val)
  BY <1>1, TypedFacts
<1>3. ASSUME UnDone PROVE StackGoal
  <2>1. "num" \in Val /\ "bool" \in Val
    BY DEF Val, Scalar
  <2> QED
    BY <2>1, <1>1, <1>3, LeaveScalar, ThrowGoal DEF UnDone
<1>4. ASSUME BinLeft PROVE StackGoal
  <2>1. Still /\ val # Pending /\ Resume([Top EXCEPT !.k = "bin_r", !.hold = <<val>>])
    BY <1>4 DEF BinLeft, Given
  <2>2. "bin_r" \in Kinds /\ Holds("bin_r") <= 1 /\ "bin_r" \notin Containers
    BY DEF Kinds, Holds, Containers
  <2> QED
    BY <2>1, <2>2, <1>1, <1>2, Handed, ResumeOne
<1>5. ASSUME BinIndex PROVE StackGoal
  <2>1. Still /\ Top.hold[1].v \in Obj
    BY <1>5 DEF BinIndex
  <2>2. PICK e \in Items(Top.hold[1].v) \cup {"none"} : Leave(Unrooted(e))
    BY <1>5 DEF BinIndex
  <2>3. items[Top.hold[1].v] \in Seq(Val)
    BY <2>1 DEF IInv, TypeOK, HeapTypeOK
  <2>4. e \in Val
    BY <2>2, <2>3, ElementOfSeq DEF Items, Val, Scalar
  <2> QED
    BY <2>1, <2>2, <2>4, <1>1, LeaveScalar
<1>6. ASSUME BinError \/ AssignError PROVE StackGoal
  BY <1>1, <1>6, ThrowGoal DEF BinError, AssignError
<1>7. ASSUME NEW s \in Literals, BinScalar(s) PROVE StackGoal
  <2>1. s \in Val
    BY EvalAssumption DEF Val
  <2> QED
    BY <2>1, <1>1, <1>7, LeaveScalar DEF BinScalar
<1>8. ASSUME NEW o \in Obj, BinConcat(o) PROVE StackGoal
  <2>1. NewHeapVal(o) /\ Leave(Rooted(o))
    BY <1>8 DEF BinConcat
  <2>2. Len(stack) \in 0 .. Len(stack) /\ Len(stack) >= Top.base
    BY <1>1, TypedFacts
  <2> QED
    BY <2>1, <2>2, <1>1, NewHeapFacts, LeaveGoal
<1>9. ASSUME NEW id \in Ids, AssignVar(id) PROVE StackGoal
  <2>1. Leave(VNONE) /\ cap' = cap /\ val.v \in Val /\ IsA(id, "VAR")
    BY <1>2, <1>9 DEF AssignVar, Given
  <2>2. CASE stack' = stack
    BY <2>1, <2>2, <1>1, LeaveNone DEF Still
  <2>3. CASE stack' = [stack EXCEPT ![Newest(id)].v = val.v]
    <3> DEFINE n == Newest(id)
               sym == [stack[n] EXCEPT !.v = val.v]
    <3>1. n \in 1 .. Len(stack) /\ stack[n] \in Symbol /\ stack[n].kind = "VAR"
      BY <2>1, <1>2, NewestIsHit DEF IsA
    <3>2. sym \in Symbol /\ Same(stack[n], sym)
      BY <2>1, <3>1 DEF Symbol, Same
    <3>3. stack' = [stack EXCEPT ![n] = sym]
      BY <2>3
    <3> HIDE DEF n, sym
    <3>4. /\ stack' \in Seq(Symbol) /\ Len(stack') = Len(stack)
          /\ \A j \in 1 .. Len(stack) : stack'[j] = IF j = n THEN sym ELSE stack[j]
      BY <3>1, <3>2, <3>3, <1>2, ExceptSeq
    <3>5. Agree(Len(stack))
      BY <3>2, <3>4, <1>2 DEF Agree, Same
    <3>6. Len(stack) \in 0 .. Len(stack) /\ Len(stack) >= Top.base
      BY <1>1, TypedFacts
    <3> QED
      BY <2>1, <3>4, <3>5, <3>6, <1>1, <1>2, Handed, LeaveGoal
  <2> QED
    BY <2>2, <2>3, <1>9 DEF AssignVar
<1>10. ASSUME AssignElem PROVE StackGoal
  <2>1. Still /\ val # Pending
    BY <1>10 DEF AssignElem, Given
  <2>2. /\ "asg_c" \in Kinds /\ "asg_k" \in Kinds
        /\ Holds("asg_c") <= 1 /\ Holds("asg_k") <= Holds("asg_c") + 1
        /\ "asg_c" \notin Containers /\ "asg_k" \notin Containers
    BY DEF Kinds, Holds, Containers
  <2>3. CASE Resume([Top EXCEPT !.k = "asg_c", !.hold = <<val>>])
    BY <2>1, <2>2, <2>3, <1>1, <1>2, Handed, ResumeOne
  <2>4. CASE Top.k = "asg_c" /\ Resume([Top EXCEPT !.k = "asg_k", !.hold = Append(@, val)])
    BY <2>1, <2>2, <2>4, <1>1, ResumeMore
  <2> QED
    BY <2>3, <2>4, <1>10 DEF AssignElem, At
<1>11. ASSUME AssignDone PROVE StackGoal
  BY <1>1, <1>11, LeaveNone DEF AssignDone
<1>12. ASSUME ListItem PROVE StackGoal
  BY <1>1, <1>12, ResumeTop DEF ListItem, At
<1>13. ASSUME DictKey PROVE StackGoal
  <2>1. Still /\ val # Pending /\ Top.k = "dict_k"
        /\ Resume([Top EXCEPT !.k = "dict_v", !.hold = Append(@, val)])
    BY <1>13 DEF DictKey, Given, At
  <2>2. /\ "dict_v" \in Kinds /\ Holds("dict_v") <= Holds("dict_k") + 1
        /\ "dict_k" \in Containers
    BY DEF Kinds, Holds, Containers
  <2> QED
    BY <2>1, <2>2, <1>1, ResumeMore
<1>14. ASSUME DictVal PROVE StackGoal
  <2>1. Still /\ Top.k = "dict_v"
        /\ Resume([Top EXCEPT !.k = "dict_k", !.hold = <<Top.hold[1]>>])
    BY <1>14 DEF DictVal, At
  <2>2. 1 \in 1 .. Len(Top.hold) /\ Top.hold[1].v \in Obj
    BY <2>1, <1>2 DEF Shaped, Holds, Containers
  <2>3. "dict_k" \in Kinds /\ Holds("dict_k") <= 1
    BY DEF Kinds, Holds
  <2>4. Top.hold[1] \in Slot /\ Kept(Top.hold[1], Len(stack))
    BY <2>2, <1>1, Handed
  <2> QED
    BY <2>1, <2>2, <2>3, <2>4, <1>1, ResumeOne
<1>15. ASSUME LiteralDone PROVE StackGoal
  <2>1. Still /\ Leave(Top.hold[1]) /\ Top.k \in {"list", "dict_k"}
    BY <1>15 DEF LiteralDone, At
  <2>2. 1 \in 1 .. Len(Top.hold)
    BY <2>1, <1>2 DEF Shaped, Holds
  <2>3. Top.hold[1] \in Slot /\ Kept(Top.hold[1], Len(stack))
    BY <2>2, <1>1, Handed
  <2> QED
    BY <2>1, <2>3, <1>1, LeaveStill
<1> QED
  BY <1>3, <1>4, <1>5, <1>6, <1>7, <1>8, <1>9, <1>10, <1>11, <1>12, <1>13, <1>14, <1>15 DEF Operator

(* Steps that push a symbol, or cut the stack as far as the activation may *)
LEMMA PushLeave ==
  ASSUME IInv, Running, NEW sym \in Symbol, Push(sym), Leave(VNONE)
  PROVE  StackGoal
<1>1. Len(stack) \in 0 .. Len(stack) /\ Len(stack) >= Top.base
  BY TypedFacts
<1> QED
  BY <1>1, PushFacts, Handed, LeaveGoal

LEMMA CutLeave ==
  ASSUME IInv, Running, NEW n \in 0 .. Len(stack), n >= Top.base, Cut(n),
         NEW slot \in Slot, Leave(slot), Kept(slot, n)
  PROVE  StackGoal
  BY CutFacts, LeaveGoal

(* ... and drop the TEMP of the result. *)
LEMMA CutDrops ==
  ASSUME IInv, Running, val # Pending, NEW n \in 0 .. Len(stack), n >= Top.base, Cut(n),
         Leave(val), Drops
  PROVE  StackGoal
<1>1. val \in Slot
  BY TypedFacts
<1> QED
  BY <1>1, CutFacts, LeaveGoal

(* A body is run above the innermost activation, which keeps what it holds. *)
LEMMA RunGoal ==
  ASSUME IInv, Running, NEW k \in Kinds, NEW own \in Nat, NEW h \in Nat,
         Continue([Top EXCEPT !.k = k, !.own = own], NewAt("body", h)), h = Len(stack'),
         stack' \in Seq(Symbol), cap' \in Nat, Agree(Len(stack)),
         Top.base + own <= Len(stack'),
         Len(stack') >= Len(stack) + (IF k = "each_b" THEN 1 ELSE 0),
         k = "each_b" => own = 1, Holds(k) <= Holds(Top.k), k \in Containers => Top.k \in Containers
  PROVE  StackGoal
<1> DEFINE f == [Top EXCEPT !.k = k, !.own = own]
           g == NewAt("body", h)
<1>1. /\ Top \in Frame /\ Shaped(Top) /\ Top.hold \in Seq(Slot) /\ Len(Top.hold) \in Nat
      /\ cap \in Nat /\ Len(stack) \in Nat
  BY TypedFacts
<1>2. /\ f \in Frame /\ f.base = Top.base /\ f.own = own /\ f.k = k /\ f.hold = Top.hold
  BY <1>1 DEF Frame
<1>3. /\ g \in Frame /\ g.base = Len(stack') /\ g.own = 0 /\ g.k = "body" /\ g.hold = <<>>
  BY <1>1, NewFrame DEF Kinds
<1>4. Continue(f, g)
  OBVIOUS
<1> HIDE DEF f, g
<1>5. Holds(k) \in Nat /\ Holds(Top.k) \in Nat
  BY DEF Holds
<1>6. Shaped(f) /\ Shaped(g)
  BY <1>1, <1>2, <1>3, <1>5 DEF Shaped, Holds, Containers
<1>7. \A i \in 1 .. Len(f.hold) : Kept(f.hold[i], Len(stack))
  BY <1>2, Handed
<1>8. Len(stack') >= Len(stack) + Loop(f)
  BY <1>2 DEF Loop
<1> QED
  BY <1>2, <1>3, <1>4, <1>6, <1>7, <1>8, ContinueGoal

LEMMA CallMoves ==
  ASSUME IInv, Call
  PROVE  StackGoal
<1>1. Running
  BY RunsOnly
<1>2. /\ cap \in Nat /\ Len(stack) \in Nat /\ stack \in Seq(Symbol)
      /\ Top \in Frame /\ Shaped(Top) /\ Top.hold \in Seq(Slot)
      /\ Top.k \in Kinds /\ Top.own \in Nat /\ Top.base \in Nat
      /\ Top.base + Top.own <= Len(stack)
      /\ (val # Pending => val \in Slot /\ val.v \in Val)
  BY <1>1, TypedFacts
<1>3. Len(stack) \in 0 .. Len(stack) /\ Len(stack) >= Top.base
  BY <1>2
<1>4. ASSUME NEW id \in Ids, ArgParam(id) PROVE StackGoal
  <2> DEFINE f == [Top EXCEPT !.own = @ + 1]
  <2>1. Push(Var(id, val.v)) /\ Resume(f) /\ Top.k = "arg" /\ val.v \in Val
    BY <1>2, <1>4 DEF ArgParam, Given, At
  <2>2. Var(id, val.v) \in Symbol
    BY <2>1, <1>4 DEF Var, Symbol
  <2>3. /\ f \in Frame /\ f.base = Top.base /\ f.own = Top.own + 1 /\ f.k = "arg" /\ f.hold = Top.hold
    BY <2>1, <1>2, SMTT(30) DEF Frame
  <2>4. Shaped(f)
    BY <2>1, <2>3, <1>2 DEF Shaped, Holds, Containers
  <2>5. \A i \in 1 .. Len(f.hold) : Kept(f.hold[i], Len(stack))
    BY <2>3, <1>1, Handed
  <2> HIDE DEF f
  <2>6. f.base + f.own <= Len(stack) + 1
    BY <2>3, <1>2
  <2> QED
    BY <2>1, <2>2, <2>3, <2>4, <2>5, <2>6, <1>1, <1>3, PushFacts, ResumeGoal
<1>5. ASSUME NEW o \in Obj, ArgAny(o) PROVE StackGoal
  <2> DEFINE hold == <<Rooted(o)>>
             f == [Top EXCEPT !.k = "any", !.hold = hold]
  <2>1. NewHeapVal(o) /\ Resume(f)
    BY <1>5 DEF ArgAny
  <2>2. Rooted(o) \in Slot /\ Rooted(o).v = o /\ Fresh(Rooted(o))
    BY <2>1, <1>1, NewHeapFacts DEF Rooted
  <2>3. hold \in Seq(Slot) /\ Len(hold) = 1 /\ hold[1] = Rooted(o)
    BY <2>2
  <2> HIDE DEF hold
  <2>4. /\ f \in Frame /\ f.base = Top.base /\ f.own = Top.own /\ f.k = "any" /\ f.hold = hold
    BY <2>3, <1>2 DEF Frame, Kinds
  <2>5. Shaped(f)
    <3>1. Holds("any") = 1
      BY DEF Holds
    <3>2. f.hold[1].v \in Obj /\ Len(f.hold) = 1 /\ f.k = "any"
      BY <1>5, <2>2, <2>3, <2>4
    <3> HIDE DEF f
    <3> QED
      BY <3>1, <3>2 DEF Shaped
  <2>7. \A i \in 1 .. Len(f.hold) : Fresh(f.hold[i])
    BY <2>2, <2>3, <2>4
  <2> HIDE DEF f
  <2>6. f.base + f.own <= Len(stack) + 1
    BY <2>4, <1>2
  <2> QED
    BY <2>1, <2>4, <2>5, <2>7, <2>6, <1>1, <1>3, NewHeapFacts, ResumeGoal
<1>6. ASSUME NEW o \in Obj, LibNew(o) PROVE StackGoal
  <2>1. NewHeapVal(o) /\ Leave(Rooted(o))
    BY <1>6 DEF LibNew
  <2> QED
    BY <2>1, <1>1, <1>3, NewHeapFacts, LeaveGoal
<1>7. ASSUME AnyItem PROVE StackGoal
  BY <1>1, <1>7, ResumeTop DEF AnyItem, At
<1>8. ASSUME CallBody PROVE StackGoal
  <2>1. "call" \in Kinds /\ Holds("call") = 0 /\ "call" \notin Containers /\ Holds(Top.k) \in Nat
    BY DEF Kinds, Holds, Containers
  <2>2. CASE Still /\ Continue([Top EXCEPT !.k = "call"], New("body"))
    <3>1. Continue([Top EXCEPT !.k = "call", !.own = Top.own], NewAt("body", Len(stack)))
      BY <2>2, <1>2 DEF Frame, New
    <3>2. /\ stack' \in Seq(Symbol) /\ cap' \in Nat /\ Agree(Len(stack))
          /\ Len(stack') = Len(stack) /\ Len(stack) \in Nat
      BY <2>2, <1>2, StillFacts
    <3>3. Top.base + Top.own <= Len(stack') /\ Len(stack') >= Len(stack) + 0 /\ Holds("call") <= Holds(Top.k)
      BY <3>2, <2>1, <1>2
    <3> QED
      BY <2>1, <3>1, <3>2, <3>3, <1>1, <1>2, RunGoal
  <2>3. CASE /\ Top.k = "any" /\ Push(Var(VaArgs, Literal))
             /\ Continue([Top EXCEPT !.k = "call", !.own = @ + 1], NewAt("body", Len(stack) + 1))
    <3>1. Continue([Top EXCEPT !.k = "call", !.own = Top.own + 1], NewAt("body", Len(stack) + 1))
      BY <2>3
    <3>2. Literal \in Val
      BY <2>3, <1>2 DEF Literal, Shaped, Containers, Val
    <3>3. Var(VaArgs, Literal) \in Symbol
      BY <3>2, EvalAssumption DEF Var, Symbol
    <3>4. /\ stack' \in Seq(Symbol) /\ cap' \in Nat /\ Agree(Len(stack))
          /\ Len(stack') = Len(stack) + 1
      BY <2>3, <3>3, PushFacts
    <3>5. /\ Top.own + 1 \in Nat /\ Len(stack) + 1 \in Nat
          /\ Top.base + (Top.own + 1) <= Len(stack')
          /\ Len(stack') >= Len(stack) + 0 /\ Holds("call") <= Holds(Top.k)
      BY <3>4, <2>1, <1>2
    <3> QED
      BY <2>1, <3>1, <3>4, <3>5, <1>1, RunGoal
  <2> QED
    BY <2>2, <2>3, <1>8 DEF CallBody, At
<1>9. ASSUME CallArity \/ LibError PROVE StackGoal
  BY <1>1, <1>9, ThrowGoal DEF CallArity, LibError
<1>10. ASSUME CallReturn PROVE StackGoal
  <2> DEFINE n == Len(stack) - Top.own
  <2>1. n \in 0 .. Len(stack) /\ n >= Top.base
    BY <1>2
  <2>2. Cut(n) /\ Leave(val) /\ val # Pending /\ Top.k = "call"
    BY <1>10 DEF CallReturn, Given, At
  <2>3. n = Len(stack) \/ Drops
    BY <2>2, <1>2 DEF Drops
  <2>4. val \in Slot /\ Kept(val, Len(stack))
    BY <2>2, <1>1, Handed, TypedFacts
  <2> HIDE DEF n
  <2> QED
    BY <2>1, <2>2, <2>3, <2>4, <1>1, CutDrops, CutLeave
<1>11. ASSUME NEW s \in Literals, LibScalar(s) PROVE StackGoal
  <2>1. s \in Val
    BY EvalAssumption DEF Val
  <2> QED
    BY <2>1, <1>1, <1>11, LeaveScalar DEF LibScalar
<1>12. ASSUME RegArg PROVE StackGoal
  <2>1. Still /\ val # Pending /\ Top.k = "reg" /\ Resume([Top EXCEPT !.hold = Append(@, val)])
    BY <1>12 DEF RegArg, Given, At
  <2>2. Resume([Top EXCEPT !.k = "reg", !.hold = Append(@, val)])
    BY <2>1, <1>2 DEF Frame
  <2>3. "reg" \in Kinds /\ Holds("reg") <= Holds("reg") + 1 /\ "reg" \notin Containers
    BY DEF Kinds, Holds, Containers
  <2> QED
    BY <2>1, <2>2, <2>3, <1>1, ResumeMore
<1>13. ASSUME LibAppend \/ LibRemove \/ LibInsert PROVE StackGoal
  BY <1>1, <1>13, LeaveNone DEF LibAppend, LibRemove, LibInsert, Edits
<1> QED
  BY <1>4, <1>5, <1>6, <1>7, <1>8, <1>9, <1>10, <1>11, <1>12, <1>13 DEF Call

LEMMA StmtMoves ==
  ASSUME IInv, Stmt
  PROVE  StackGoal
<1>1. Running
  BY RunsOnly
<1>2. /\ cap \in Nat /\ Len(stack) \in Nat /\ stack \in Seq(Symbol)
      /\ Top \in Frame /\ Shaped(Top) /\ Top.hold \in Seq(Slot)
      /\ Top.k \in Kinds /\ Top.own \in Nat /\ Top.base \in Nat /\ Top.n \in Nat
      /\ Top.base + Top.own <= Len(stack)
      /\ (val # Pending => val \in Slot /\ val.v \in Val)
  BY <1>1, TypedFacts
<1>3. Len(stack) \in 0 .. Len(stack) /\ Len(stack) >= Top.base
  BY <1>2
<1>4. ASSUME StmtDef \/ StmtIf \/ StmtWhile \/ StmtFor \/ StmtEach \/ StmtRet PROVE StackGoal
  <2>1. Still /\ \E k \in Entered : Enter(New(k))
    BY <1>4 DEF StmtDef, StmtIf, StmtWhile, StmtFor, StmtEach, StmtRet, Opens, Entered
  <2> QED
    BY <2>1, <1>1, EnterStill
<1>5. ASSUME Still, UNCHANGED frames, val' = VNONE PROVE StackGoal
  BY <1>1, <1>5, Handed, StillFacts, LeafGoal
<1>6. ASSUME StmtRetNone \/ StmtBreak \/ StmtCont PROVE StackGoal
  BY <1>5, <1>6 DEF StmtRetNone, StmtBreak, StmtCont, Jump, Returns
<1>7. ASSUME NEW id \in Ids, StmtFn(id) PROVE StackGoal
  <2> DEFINE sym == [kind |-> "FUNC", id |-> id, v |-> "none"]
  <2>1. sym \in Symbol
    BY <1>7 DEF Symbol, Val, Scalar
  <2>2. Push(sym) /\ val' = VNONE /\ UNCHANGED frames
    BY <1>7 DEF StmtFn
  <2> HIDE DEF sym
  <2> QED
    BY <2>1, <2>2, <1>1, PushFacts, Handed, LeafGoal
<1>8. ASSUME NEW id \in Ids, DefDone(id) PROVE StackGoal
  <2>1. Push(Var(id, val.v)) /\ Leave(VNONE) /\ val.v \in Val
    BY <1>2, <1>8 DEF DefDone, Given
  <2>2. Var(id, val.v) \in Symbol
    BY <2>1, <1>8 DEF Var, Symbol
  <2> QED
    BY <2>1, <2>2, <1>1, PushLeave
<1>9. ASSUME If PROVE StackGoal
  <2>1. Still /\ Top.k = "if"
    BY <1>9 DEF If, At
  <2>2. CASE Resume(New("body"))
    <3>1. /\ New("body") \in Frame /\ New("body").base = Len(stack) /\ New("body").own = 0
          /\ New("body").k = "body" /\ New("body").hold = <<>>
      BY <1>2, NewFrame DEF New, Kinds
    <3>2. Shaped(New("body")) /\ Len(New("body").hold) = 0
      BY <3>1 DEF Shaped, Holds, Containers
    <3>3. New("body").base + New("body").own <= Len(stack')
      BY <3>1, <2>1, <1>2, StillFacts
    <3> QED
      BY <2>1, <2>2, <3>1, <3>2, <3>3, <1>1, <1>3, StillFacts, ResumeGoal
  <2> QED
    BY <2>1, <2>2, <1>1, <1>9, ResumeTop, LeaveNone DEF If
<1>10. ASSUME CondError PROVE StackGoal
  BY <1>1, <1>10, ThrowGoal DEF CondError
<1>11. ASSUME Still, NEW k \in {"while_c", "for_m", "for_c"}, Resume([Top EXCEPT !.k = k])
       PROVE  StackGoal
  <2>1. k \in Kinds /\ k # "each_b" /\ Holds(k) <= Holds(Top.k) /\ k \notin Containers
    BY <1>11 DEF Kinds, Holds, Containers
  <2> QED
    BY <2>1, <1>1, <1>11, ResumeSame
<1>12. ASSUME Still, NEW k \in {"while_b", "for_b"}, RunBody([Top EXCEPT !.k = k])
       PROVE  StackGoal
  <2>1. k \in Kinds /\ k # "each_b" /\ Holds(k) <= Holds(Top.k) /\ k \notin Containers
    BY <1>12 DEF Kinds, Holds, Containers
  <2>2. Continue([Top EXCEPT !.k = k, !.own = Top.own], NewAt("body", Len(stack)))
    BY <1>2, <1>12 DEF RunBody, New, Frame
  <2>3. /\ stack' \in Seq(Symbol) /\ cap' \in Nat /\ Agree(Len(stack))
        /\ Len(stack') = Len(stack)
    BY <1>12, StillFacts
  <2>4. Top.base + Top.own <= Len(stack') /\ Len(stack') >= Len(stack) + 0
    BY <2>3, <1>2
  <2> QED
    BY <2>1, <2>2, <2>3, <2>4, <1>1, <1>2, RunGoal
<1>13. ASSUME Still, val # Pending, Leave(val) PROVE StackGoal
  BY <1>1, <1>2, <1>13, Handed, LeaveStill
<1>14. ASSUME WhileEnter \/ WhileHead PROVE StackGoal
  BY <1>1, <1>11, <1>12, <1>14, LeaveNone DEF WhileEnter, WhileHead
<1>15. ASSUME WhileNext PROVE StackGoal
  BY <1>1, <1>11, <1>13, <1>15, LeaveNone DEF WhileNext, Returned, Given
<1>16. ASSUME ForLeave PROVE StackGoal
  <2>1. Len(stack) - Top.own \in 0 .. Len(stack) /\ Len(stack) - Top.own >= Top.base
    BY <1>2
  <2> QED
    BY <2>1, <1>1, <1>16, Handed, CutLeave DEF ForLeave
<1>17. ASSUME ForEnter PROVE StackGoal
  <2> DEFINE own == IF Len(stack) # Top.base THEN 1 ELSE 0
             f == [Top EXCEPT !.k = "for_c", !.own = own]
  <2>1. Still /\ Resume(f) /\ Top.k = "for_v"
    BY <1>17 DEF ForEnter, At
  <2>2. own \in Nat /\ Top.base + own <= Len(stack)
    BY <1>2
  <2> HIDE DEF own
  <2>3. /\ f \in Frame /\ f.base = Top.base /\ f.own = own /\ f.k = "for_c" /\ f.hold = Top.hold
    BY <2>2, <1>2 DEF Frame, Kinds
  <2>4. Shaped(f)
    BY <2>1, <2>3, <1>2 DEF Shaped, Holds, Containers
  <2>5. \A i \in 1 .. Len(f.hold) : Kept(f.hold[i], Len(stack))
    BY <2>3, <1>1, Handed
  <2> HIDE DEF f
  <2> QED
    BY <2>1, <2>2, <2>3, <2>4, <2>5, <1>1, ResumeStill
<1>18. ASSUME ForHead \/ ForMut PROVE StackGoal
  BY <1>11, <1>12, <1>16, <1>18 DEF ForHead, ForMut
<1>19. ASSUME ForNext PROVE StackGoal
  BY <1>11, <1>13, <1>16, <1>19 DEF ForNext, Returned, Given
<1>20. ASSUME EachEnter PROVE StackGoal
  <2>1. Still /\ val # Pending /\ Resume([Top EXCEPT !.k = "each_n", !.hold = <<val>>])
        /\ (wild' = "no" => val.v \in Obj)
    BY <1>20 DEF EachEnter, Given
  <2>2. "each_n" \in Kinds /\ Holds("each_n") <= 1
    BY DEF Kinds, Holds
  <2> QED
    BY <2>1, <2>2, <1>1, <1>2, Handed, ResumeOne
<1>21. ASSUME NEW id \in Ids, EachHead(id) PROVE StackGoal
  <2>1. Top.k = "each_n" /\ Literal \in Obj
    BY <1>2, <1>21 DEF EachHead, At, Literal, Shaped, Containers
  <2>2. CASE Leave(VNONE) /\ Still
    BY <2>2, <1>1, LeaveNone
  <2>3. CASE Top.n < Len(items[Literal])
    <3> DEFINE sym == Var(id, items[Literal][Top.n + 1])
    <3>1. items[Literal] \in Seq(Val) /\ Top.n + 1 \in 1 .. Len(items[Literal])
      BY <2>1, <2>3, <1>2 DEF IInv, TypeOK, HeapTypeOK
    <3>2. sym \in Symbol
      BY <3>1, <1>21, ElementOfSeq DEF Var, Symbol
    <3>3. /\ Push(sym)
          /\ Continue([Top EXCEPT !.k = "each_b", !.own = 1], NewAt("body", Len(stack) + 1))
      BY <2>3, <1>21 DEF EachHead
    <3> HIDE DEF sym
    <3>4. /\ stack' \in Seq(Symbol) /\ cap' \in Nat /\ Agree(Len(stack))
          /\ Len(stack') = Len(stack) + 1
      BY <3>2, <3>3, PushFacts
    <3>5. /\ "each_b" \in Kinds /\ Holds("each_b") <= Holds("each_n")
          /\ "each_n" \in Containers
      BY DEF Kinds, Holds, Containers
    <3>6. /\ Len(stack) + 1 \in Nat /\ Top.base + 1 <= Len(stack')
          /\ Len(stack') >= Len(stack) + 1
      BY <3>4, <1>2
    <3> QED
      BY <2>1, <3>3, <3>4, <3>5, <3>6, <1>1, RunGoal
  <2> QED
    BY <2>2, <2>3, <1>21 DEF EachHead
<1>22. ASSUME EachNext PROVE StackGoal
  <2> DEFINE n == Len(stack) - 1
  <2>1. Top.k = "each_b" /\ Top.own = 1 /\ Cut(n) /\ val # Pending
    BY <1>2, <1>22 DEF EachNext, At, Shaped, Given
  <2>2. n \in 0 .. Len(stack) /\ n >= Top.base
    BY <2>1, <1>2
  <2>3. CASE Leave(VNONE) \/ Leave(val)
    <3>1. Drops
      BY <2>1 DEF Drops
    <3> QED
      BY <2>1, <2>2, <2>3, <3>1, <1>1, Handed, CutLeave, CutDrops
  <2>4. CASE Resume([Top EXCEPT !.k = "each_n", !.own = 0, !.n = @ + 1])
    <3> DEFINE m == Top.n + 1
               f == [Top EXCEPT !.k = "each_n", !.own = 0, !.n = m]
    <3>1. /\ f \in Frame /\ f.base = Top.base /\ f.own = 0 /\ f.k = "each_n" /\ f.hold = Top.hold
      <4>1. m \in Nat
        BY <1>2
      <4> HIDE DEF m
      <4> QED
        BY <4>1, <1>2 DEF Frame, Kinds
    <3>2. Shaped(f)
      BY <2>1, <3>1, <1>2 DEF Shaped, Holds, Containers
    <3>3. ASSUME NEW i \in 1 .. Len(Top.hold) PROVE Kept(Top.hold[i], n)
      <4>1. Kept(Top.hold[i], Len(stack) - Loop(Top))
        BY <1>1, <3>3, Handed
      <4>2. Loop(Top) = 1
        BY <2>1 DEF Loop
      <4> QED
        BY <4>1, <4>2
    <3>4. \A i \in 1 .. Len(f.hold) : Kept(f.hold[i], n)
      BY <3>1, <3>3
    <3>5. Resume(f)
      BY <2>4, <1>2 DEF Frame
    <3>6. stack' \in Seq(Symbol) /\ cap' \in Nat /\ Len(stack') = n /\ Agree(n)
      BY <2>1, <2>2, CutFacts
    <3> HIDE DEF f, n
    <3>7. f.base + f.own <= Len(stack')
      BY <3>1, <3>6, <2>2, <1>2
    <3> QED
      BY <2>2, <3>1, <3>2, <3>4, <3>5, <3>6, <3>7, <1>1, ResumeGoal
  <2> QED
    BY <2>3, <2>4, <1>22 DEF EachNext
<1>23. ASSUME RetDone PROVE StackGoal
  BY <1>13, <1>23 DEF RetDone, Returns, Given
<1>24. ASSUME BodyNext PROVE StackGoal
  BY <1>1, <1>24, ResumeTop DEF BodyNext, At
<1>25. ASSUME Cut(Top.base), Leave(VNONE) PROVE StackGoal
  <2>1. Top.base \in 0 .. Len(stack) /\ Top.base >= Top.base
    BY <1>2
  <2> QED
    BY <2>1, <1>1, <1>25, Handed, CutLeave
<1>26. ASSUME BodyUnwind PROVE StackGoal
  <2> DEFINE slot == [v |-> val.v, at |-> IF val.v \in objs \cup Scalar THEN Top.base + 1 ELSE 0]
             b == Top.base
  <2>1. CASE SetStack(Append(Prefix(b), Temp(val.v))) /\ Leave(slot)
    <3>1. val.v \in Val /\ objs' = objs
      BY <1>2, <1>26 DEF BodyUnwind, Given, Quiet, heapVars
    <3>2. slot \in Slot /\ Temp(val.v) \in Symbol
      BY <3>1, <1>2 DEF Slot, Temp, Symbol
    <3>3. b \in 0 .. Len(stack) /\ b >= Top.base /\ b \in Nat
      BY <1>2
    <3> HIDE DEF b
    <3>4. \A i \in 1 .. b : stack[i] \in Symbol
      BY <3>3, <1>2, ElementOfSeq
    <3>5. /\ Prefix(b) \in Seq(Symbol) /\ Len(Prefix(b)) = b
          /\ \A i \in 1 .. b : Prefix(b)[i] = stack[i]
      BY <3>3, <3>4, SubSeqProperties DEF Prefix
    <3>6. /\ stack' \in Seq(Symbol) /\ Len(stack') = b + 1 /\ stack'[b + 1] = Temp(val.v)
          /\ \A i \in 1 .. b : stack'[i] = stack[i]
      BY <2>1, <3>2, <3>3, <3>5 DEF SetStack
    <3>7. cap' \in Nat
      BY <2>1, <1>2 DEF SetStack, Capacity
    <3>8. Agree(b)
      BY <3>3, <3>6 DEF Agree, Same
    <3>9. Kept(slot, b) \/ Fresh(slot)
      BY <3>1, <3>3, <3>6 DEF Kept, Fresh, b
    <3> HIDE DEF slot
    <3> QED
      BY <2>1, <3>2, <3>3, <3>6, <3>7, <3>8, <3>9, <1>1, LeaveGoal
  <2> QED
    BY <2>1, <1>25, <1>26 DEF BodyUnwind
<1>27. ASSUME BodyEnd PROVE StackGoal
  BY <1>25, <1>27 DEF BodyEnd
<1> QED
  BY <1>4, <1>6, <1>7, <1>8, <1>9, <1>10, <1>14, <1>15, <1>17, <1>18, <1>19, <1>20, <1>21,
     <1>22, <1>23, <1>24, <1>26, <1>27 DEF Stmt

LEMMA UnwindMoves ==
  ASSUME IInv, Unwind
  PROVE  StackGoal
<1>1. Running /\ val # Pending
  BY DEF Unwind, ErrPlain, ErrPush, ErrAppend, ErrRet, Failed
<1>2. ASSUME NEW id \in Ids, ErrPush(id) PROVE StackGoal
  <2>1. Push(Var(id, val.v)) /\ Leave(VNONE) /\ val.v \in Val
    BY <1>1, <1>2, TypedFacts DEF ErrPush
  <2>2. Var(id, val.v) \in Symbol
    BY <2>1, <1>2 DEF Var, Symbol
  <2> QED
    BY <2>1, <2>2, <1>1, PushLeave
<1>3. ASSUME ErrPlain \/ ErrAppend PROVE StackGoal
  BY <1>1, <1>3, LeaveNone DEF ErrPlain, ErrAppend
<1>4. ASSUME ErrRet PROVE StackGoal
  BY <1>1, <1>4, TypedFacts, Handed, LeaveStill DEF ErrRet
<1> QED
  BY <1>2, <1>3, <1>4 DEF Unwind

(***************************************************************************)
(* Every action keeps the types of the heap, and no collection takes away  *)
(* an object that has a TEMP.                                              *)
(***************************************************************************)
LEMMA ReachesItself ==
  ASSUME NEW R, NEW o \in R, o \in Obj
  PROVE  o \in Reach(R)
  BY DEF Reach

LEMMA AllocHeap ==
  ASSUME IInv, NEW o \in Obj, NewHeapVal(o), items' \in [Obj -> Seq(Val)]
  PROVE  HeapGoal
<1> DEFINE kept == IF Full /\ state # "RET" THEN objs \cap Reach(Roots) ELSE objs
<1>1. objs \subseteq Obj /\ freed \subseteq Obj /\ objs \cap freed = {} /\ threshold \in Nat
      /\ stack \in Seq(Symbol)
  BY DEF IInv, TypeOK, HeapTypeOK, StackTypeOK
<1>2. /\ o \in Unused /\ objs' = kept \cup {o} /\ freed' = freed \cup (objs \ kept)
      /\ threshold' = IF ~Full THEN Threshold
                      ELSE IF kept = {} THEN GC_INIT_THRESHOLD
                      ELSE Grown(Cardinality(kept))
  BY DEF NewHeapVal, Alloc
<1>3. kept \subseteq objs
  OBVIOUS
<1>4. Spares
  <2>1. SUFFICES ASSUME NEW j \in 1 .. Len(stack), stack[j].kind = "TEMP", stack[j].v \in objs
                 PROVE  stack[j].v \in kept
    BY <1>2 DEF Spares
  <2>2. stack[j].v \in Roots
    BY <2>1, <1>1 DEF Roots
  <2>3. stack[j].v \in Reach(Roots)
    BY <2>1, <2>2, <1>1, ReachesItself
  <2> QED
    BY <2>1, <2>3
<1> HIDE DEF kept
<1>5. Cardinality(kept) \in Nat
  <2>1. IsFiniteSet(kept)
    BY <1>1, <1>3, ObjAssumption, FS_Subset
  <2> QED
    BY <2>1, FS_CardinalityType
<1>6. threshold' \in Nat
  BY <1>1, <1>2, <1>5, ThresholdAssumption DEF Threshold, Grown
<1>7. objs' \subseteq Obj /\ freed' \subseteq Obj /\ objs' \cap freed' = {}
  BY <1>1, <1>2, <1>3 DEF Unused
<1> QED
  BY <1>4, <1>6, <1>7 DEF HeapGoal, HeapTypeOK

LEMMA SameHeap ==
  ASSUME IInv, UNCHANGED <<objs, freed, threshold>>, items' \in [Obj -> Seq(Val)]
  PROVE  HeapGoal
  BY DEF HeapGoal, HeapTypeOK, IInv, TypeOK, Spares

LEMMA InsertItem ==
  ASSUME IInv, NEW o \in Obj, NEW v \in Val, Insert(o, v)
  PROVE  items' \in [Obj -> Seq(Val)]
<1>1. items \in [Obj -> Seq(Val)]
  BY DEF IInv, TypeOK, HeapTypeOK
<1>2. Append(items[o], v) \in Seq(Val)
  BY <1>1
<1> QED
  BY <1>1, <1>2 DEF Insert

LEMMA PutItems ==
  ASSUME IInv, NEW o \in Obj, NEW k \in Val, NEW v \in Val, Put(o, k, v)
  PROVE  items' \in [Obj -> Seq(Val)]
<1>1. items \in [Obj -> Seq(Val)]
  BY DEF IInv, TypeOK, HeapTypeOK
<1>2. CASE items' = [items EXCEPT ![o] = @ \o <<k, v>>]
  <2>1. items[o] \o <<k, v>> \in Seq(Val)
    BY <1>1, ConcatProperties
  <2> QED
    BY <1>1, <1>2, <2>1
<1>3. CASE \E i \in 1 .. Len(items[o]) : items' = [items EXCEPT ![o][i] = v]
  <2>1. PICK i \in 1 .. Len(items[o]) : items' = [items EXCEPT ![o][i] = v]
    BY <1>3
  <2>2. [items[o] EXCEPT ![i] = v] \in Seq(Val)
    BY <1>1, ExceptSeq
  <2> QED
    BY <1>1, <2>1, <2>2
<1> QED
  BY <1>2, <1>3 DEF Put

LEMMA HeapSteps ==
  ASSUME IInv, Expression \/ Operator \/ Call \/ Stmt \/ Unwind
  PROVE  HeapGoal
<1>1. items \in [Obj -> Seq(Val)]
  BY DEF IInv, TypeOK, HeapTypeOK
<1>2. ASSUME UNCHANGED heapVars PROVE HeapGoal
  BY <1>1, <1>2, SameHeap DEF heapVars
<1>3. ASSUME Running
      PROVE  /\ Top.hold \in Seq(Slot)
             /\ \A i \in 1 .. Len(Top.hold) : Top.hold[i].v \in Val
             /\ (Top.k \in Containers => Literal \in Obj)
             /\ (val # Pending => val.v \in Val)
             /\ Len(Top.hold) >= Holds(Top.k)
  <2>1. /\ Top.hold \in Seq(Slot) /\ Shaped(Top)
        /\ (val # Pending => val.v \in Val)
    BY <1>3, TypedFacts
  <2>2. ASSUME NEW i \in 1 .. Len(Top.hold) PROVE Top.hold[i].v \in Val
    <3>1. Top.hold[i] \in Slot
      BY <2>1, <2>2, ElementOfSeq
    <3> QED
      BY <3>1 DEF Slot
  <2> QED
    BY <2>1, <2>2 DEF Literal, Shaped
<1>4. ASSUME Expression PROVE HeapGoal
  <2>1. CASE UNCHANGED heapVars
    BY <1>2, <2>1
  <2>2. ASSUME NEW o \in Obj, ExprStr(o) \/ ExprList(o) \/ ExprDict(o) PROVE HeapGoal
    BY <1>1, <2>2, AllocHeap DEF ExprStr, ExprList, ExprDict, ExprContainer
  <2> QED
    BY <1>4, <2>1, <2>2 DEF Expression, ExprScalar, ExprVar, ExprBin, ExprAssign, ExprUn, ExprOp, ExprCall, Quiet
<1>5. ASSUME Operator PROVE HeapGoal
  <2>1. CASE UNCHANGED heapVars
    BY <1>2, <2>1
  <2>2. ASSUME NEW o \in Obj, BinConcat(o) PROVE HeapGoal
    <3>1. Running /\ Top.hold[1].v \in Obj /\ val.v \in Obj
      BY <2>2 DEF BinConcat, Given, Operands
    <3>2. items[Top.hold[1].v] \o items[val.v] \in Seq(Val)
      BY <1>1, <3>1, ConcatProperties
    <3>3. items' \in [Obj -> Seq(Val)] /\ NewHeapVal(o)
      BY <1>1, <2>2, <3>2 DEF BinConcat
    <3> QED
      BY <3>3, AllocHeap
  <2>3. ASSUME AssignDone PROVE HeapGoal
    <3>1. Running /\ Top.k = "asg_k" /\ val # Pending
      BY <2>3 DEF AssignDone, Given, At
    <3>2. Top.hold[1].v \in Val /\ val.v \in Val
      BY <1>3, <3>1 DEF Holds
    <3>3. \/ Top.hold[2].v \in Obj /\ Put(Top.hold[2].v, val.v, Top.hold[1].v)
          \/ items' = items
      BY <2>3 DEF AssignDone
    <3>4. items' \in [Obj -> Seq(Val)]
      BY <1>1, <3>2, <3>3, PutItems
    <3> QED
      BY <2>3, <3>4, SameHeap DEF AssignDone
  <2>4. ASSUME ListItem PROVE HeapGoal
    <3>1. Running /\ Top.k \in Containers /\ val # Pending /\ Insert(Literal, val.v)
      BY <2>4 DEF ListItem, Given, At, Containers
    <3> QED
      BY <1>3, <2>4, <3>1, InsertItem, SameHeap DEF ListItem
  <2>5. ASSUME DictVal PROVE HeapGoal
    <3>1. /\ Running /\ Top.k = "dict_v" /\ Top.k \in Containers /\ val # Pending
          /\ Put(Literal, Top.hold[2].v, val.v)
      BY <2>5 DEF DictVal, Given, At, Containers
    <3>2. Top.hold[2].v \in Val
      BY <1>3, <3>1 DEF Holds
    <3> QED
      BY <1>3, <2>5, <3>1, <3>2, PutItems, SameHeap DEF DictVal
  <2> QED
    BY <1>5, <2>1, <2>2, <2>3, <2>4, <2>5
       DEF Operator, UnDone, BinLeft, BinIndex, BinError, BinScalar, AssignVar, AssignElem,
           AssignError, DictKey, LiteralDone, Quiet, Throw
<1>6. ASSUME Call PROVE HeapGoal
  <2>1. CASE UNCHANGED heapVars
    BY <1>2, <2>1
  <2>2. ASSUME NEW o \in Obj, ArgAny(o) \/ LibNew(o) PROVE HeapGoal
    BY <1>1, <2>2, AllocHeap DEF ArgAny, LibNew
  <2>3. ASSUME AnyItem PROVE HeapGoal
    <3>1. Running /\ Top.k \in Containers /\ val # Pending /\ Insert(Literal, val.v)
      BY <2>3 DEF AnyItem, Given, At, Containers
    <3> QED
      BY <1>3, <2>3, <3>1, InsertItem, SameHeap DEF AnyItem
  <2>4. ASSUME LibAppend PROVE HeapGoal
    <3>1. Running /\ Len(Top.hold) >= 2 /\ Literal \in Obj
          /\ items' = [items EXCEPT ![Literal] = @ \o Values]
      BY <2>4 DEF LibAppend, Asked
    <3>2. Values \in Seq(Val)
      <4>1. Len(Top.hold) \in Nat /\ \A i \in 1 .. Len(Top.hold) : Top.hold[i].v \in Val
        BY <3>1, <1>3, <1>1, TypedFacts
      <4>2. \A i \in 1 .. Len(Top.hold) - 1 : Top.hold[i + 1].v \in Val
        BY <4>1
      <4> QED
        BY <3>1, <4>1, <4>2 DEF Values
    <3>3. items \in [Obj -> Seq(Val)]
      BY <1>1 DEF IInv, TypeOK, HeapTypeOK
    <3>4. items[Literal] \o Values \in Seq(Val)
      BY <3>1, <3>2, <3>3
    <3> QED
      BY <2>4, <3>1, <3>3, <3>4, SameHeap DEF LibAppend
  <2>5. ASSUME LibRemove \/ LibInsert PROVE HeapGoal
    <3>1. Running /\ Literal \in Obj
      BY <2>5 DEF LibRemove, LibInsert, Asked
    <3> DEFINE s == items[Literal]
    <3>2. s \in Seq(Val) /\ "num" \in Val
      BY <1>1, <3>1 DEF Val, Scalar
    <3>3. PICK t : items' = [items EXCEPT ![Literal] = t] /\
                   (\/ \E i \in 1 .. Len(s) : t = SubSeq(s, 1, i - 1) \o SubSeq(s, i + 1, Len(s))
                    \/ \E i \in 0 .. Len(s) :
                         t = SubSeq(s, 1, i) \o <<"num">> \o SubSeq(s, i + 1, Len(s)))
      BY <2>5 DEF LibRemove, LibInsert, Edits
    <3> HIDE DEF s
    <3>4. t \in Seq(Val)
      <4>1. ASSUME NEW m \in 1 .. Len(s) + 1, NEW n \in 0 .. Len(s) PROVE SubSeq(s, m, n) \in Seq(Val)
        <5>1. m \in Int /\ n \in Int /\ \A i \in m .. n : s[i] \in Val
          BY <3>2, <4>1, ElementOfSeq
        <5> QED
          BY <5>1, SubSeqProperties
      <4>2. ASSUME NEW i \in 1 .. Len(s) PROVE SubSeq(s, 1, i - 1) \o SubSeq(s, i + 1, Len(s)) \in Seq(Val)
        <5>1. 1 \in 1 .. Len(s) + 1 /\ i - 1 \in 0 .. Len(s) /\ i + 1 \in 1 .. Len(s) + 1 /\ Len(s) \in 0 .. Len(s)
          BY <3>2, <4>2
        <5>2. SubSeq(s, 1, i - 1) \in Seq(Val) /\ SubSeq(s, i + 1, Len(s)) \in Seq(Val)
          BY <5>1, <4>1
        <5> QED
          BY <5>2, ConcatProperties
      <4>3. ASSUME NEW i \in 0 .. Len(s)
            PROVE  SubSeq(s, 1, i) \o <<"num">> \o SubSeq(s, i + 1, Len(s)) \in Seq(Val)
        <5>1. 1 \in 1 .. Len(s) + 1 /\ i + 1 \in 1 .. Len(s) + 1 /\ Len(s) \in 0 .. Len(s)
          BY <3>2, <4>3
        <5>2. SubSeq(s, 1, i) \in Seq(Val) /\ SubSeq(s, i + 1, Len(s)) \in Seq(Val)
              /\ <<"num">> \in Seq(Val)
          BY <5>1, <4>1, <3>2
        <5>3. SubSeq(s, 1, i) \o <<"num">> \in Seq(Val)
          BY <5>2, ConcatProperties
        <5> QED
          BY <5>2, <5>3, ConcatProperties
      <4> QED
        BY <3>3, <4>2, <4>3
    <3>5. items' \in [Obj -> Seq(Val)]
      BY <1>1, <3>1, <3>3, <3>4
    <3> QED
      BY <2>5, <3>5, SameHeap DEF LibRemove, LibInsert, Edits
  <2> QED
    BY <1>6, <2>1, <2>2, <2>3, <2>4, <2>5
       DEF Call, ArgParam, CallBody, CallArity, CallReturn, LibScalar, RegArg, LibError, Quiet, Throw
<1>7. ASSUME Stmt PROVE HeapGoal
  BY <1>2, <1>7
     DEF Stmt, StmtDef, StmtIf, StmtWhile, StmtFor, StmtEach, StmtRet, StmtRetNone, StmtBreak,
         StmtCont, StmtFn, DefDone, EachHead, If, CondError, WhileEnter, WhileHead, WhileNext,
         ForEnter, ForHead, ForNext, ForMut, EachEnter, EachNext, RetDone, BodyNext, BodyEnd,
         BodyUnwind, Opens, Jump, Returns, Returned, Looped, Quiet, Throw
<1>8. ASSUME Unwind PROVE HeapGoal
  <2>1. CASE UNCHANGED heapVars
    BY <1>2, <2>1
  <2>2. ASSUME ErrAppend PROVE HeapGoal
    <3>1. Running /\ Top.k \in Containers /\ val # Pending /\ Insert(Literal, val.v)
      BY <2>2 DEF ErrAppend, Failed, At, Containers
    <3> QED
      BY <1>3, <2>2, <3>1, InsertItem, SameHeap DEF ErrAppend
  <2> QED
    BY <1>8, <2>1, <2>2 DEF Unwind, ErrPlain, ErrPush, ErrRet, Quiet
<1> QED
  BY <1>4, <1>5, <1>6, <1>7, <1>8

(* The scalar variables keep their types. *)
Reasons == {"no", "scalar_temp", "dangling", "not_list", "stale_func", "assert", "outside"}

LEMMA RestSteps ==
  ASSUME IInv, Expression \/ Operator \/ Call \/ Stmt \/ Unwind
  PROVE  RestGoal
<1>1. state \in {"NONE", "RET", "BREAK", "CONT"} /\ err \in BOOLEAN /\ wild \in Reasons
  BY DEF IInv, TypeOK, Reasons
<1>2. /\ MarkFault \in Reasons
      /\ \A V : Fault(V) \in Reasons
      /\ \A V : Reads(V) => wild' \in Reasons
  BY DEF MarkFault, Fault, Reads, Reasons
<1>3. ASSUME Expression PROVE RestGoal
  BY <1>1, <1>2, <1>3
     DEF RestGoal, Reasons, Expression, ExprScalar, ExprVar, ExprStr, ExprList, ExprDict,
         ExprContainer, ExprBin, ExprAssign, ExprUn, ExprOp, ExprCall, Quiet
<1>4. ASSUME Operator PROVE RestGoal
  BY <1>1, <1>2, <1>4, ZenonT(30)
     DEF RestGoal, Reasons, Operator, UnDone, BinLeft, BinIndex, BinError, BinScalar, BinConcat,
         AssignVar, AssignElem, AssignDone, AssignError, ListItem, DictKey, DictVal, LiteralDone,
         Quiet, Throw
<1>5. ASSUME Call PROVE RestGoal
  BY <1>1, <1>2, <1>5
     DEF RestGoal, Reasons, Call, ArgParam, ArgAny, AnyItem, CallBody, CallArity, CallReturn,
         RegArg, Stale, LibScalar, LibNew, LibAppend, LibRemove, LibInsert, Edits, LibError, Quiet, Throw
<1>6. ASSUME Stmt PROVE RestGoal
  BY <1>1, <1>2, <1>6
     DEF RestGoal, Reasons, Stmt, StmtDef, StmtIf, StmtWhile, StmtFor, StmtEach, StmtRet,
         StmtRetNone, StmtBreak, StmtCont, StmtFn, DefDone, EachHead, If, CondError, WhileEnter,
         WhileHead, WhileNext, ForEnter, ForHead, ForNext, ForMut, EachEnter, EachNext, RetDone,
         BodyNext, BodyEnd, BodyUnwind, Opens, Jump, Returns, Returned, Looped, Quiet, Throw
<1>7. ASSUME Unwind PROVE RestGoal
  BY <1>1, <1>7 DEF RestGoal, Reasons, Unwind, ErrPlain, ErrPush, ErrAppend, ErrRet, Quiet
<1> QED
  BY <1>3, <1>4, <1>5, <1>6, <1>7

-----------------------------------------------------------------------------
(***************************************************************************)
(* The theorems.                                                           *)
(***************************************************************************)
LEMMA Initially == Init => IInv
<1>1. SUFFICES ASSUME Init PROVE IInv
  OBVIOUS
<1> DEFINE sym == [kind |-> "REG", id |-> Lib, v |-> "none"]
           f == [k |-> "body", base |-> 1, own |-> 0, n |-> 0, buf |-> CP_DA_INIT_CAP, hold |-> <<>>]
<1>2. /\ HeapInit /\ stack = <<sym>> /\ cap = CP_DA_INIT_CAP /\ frames = <<f>> /\ val = Pending
      /\ state = "NONE" /\ err = FALSE /\ wild = "no"
  BY <1>1 DEF Init, StackInit, NewAt
<1>3. sym \in Symbol
  BY DEF Symbol, Val, Scalar
<1>4. /\ f \in Frame /\ f.k = "body" /\ f.base = 1 /\ f.own = 0 /\ f.hold = <<>>
  BY StackAssumption DEF Frame, Kinds
<1> HIDE DEF sym, f
<1>5. Depth = 1 /\ frames[1] = f /\ Len(stack) = 1
  BY <1>2 DEF Depth
<1>6. TypeOK
  <2>1. HeapTypeOK
    BY <1>2 DEF HeapTypeOK, HeapInit
  <2>2. stack \in Seq(Symbol) /\ frames \in Seq(Frame)
    BY <1>2, <1>3, <1>4
  <2> QED
    BY <1>2, <2>1, <2>2, StackAssumption DEF TypeOK, StackTypeOK
<1>7. FrameShape
  BY <1>4, <1>5 DEF FrameShape, Shaped, Holds, Containers
<1>8. StackDiscipline
  BY <1>4, <1>5 DEF StackDiscipline
<1> QED
  BY <1>6, <1>7, <1>8 DEF IInv

(* A step either does nothing or is a step of the protocol. *)
LEMMA Steps ==
  ASSUME IInv, [Next]_vars
  PROVE  /\ TypeOK' /\ FrameShape'
         /\ UNCHANGED vars \/ ProtoNext
<1>1. CASE UNCHANGED vars
  BY <1>1 DEF vars, heapVars, stackVars, IInv, TypeOK, HeapTypeOK, StackTypeOK, FrameShape, Depth
<1>2. CASE Expression \/ Operator \/ Call \/ Stmt \/ Unwind
  <2>1. StackGoal /\ HeapGoal /\ RestGoal
    BY <1>2, ExpressionMoves, OperatorMoves, CallMoves, StmtMoves, UnwindMoves, HeapSteps, RestSteps
  <2>2. frames # <<>>
    BY <1>2, RunsOnly DEF Running
  <2>3. TypeOK' /\ FrameShape'
    BY <2>1 DEF StackGoal, HeapGoal, RestGoal, TypeOK
  <2>4. ProtoNext
    BY <2>1, <2>2 DEF StackGoal, HeapGoal, Moves, ProtoNext
  <2> QED
    BY <2>3, <2>4
<1> QED
  BY <1>1, <1>2 DEF Next, Stopped

LEMMA Inductive == IInv /\ [Next]_vars => IInv'
<1>1. SUFFICES ASSUME IInv, [Next]_vars PROVE IInv'
  OBVIOUS
<1>2. TypeOK' /\ FrameShape' /\ (UNCHANGED vars \/ ProtoNext)
  BY <1>1, Steps
<1>3. CASE UNCHANGED vars
  BY <1>1, <1>2, <1>3
     DEF vars, heapVars, stackVars, IInv, StackDiscipline, Depth
<1>4. CASE ProtoNext
  <2>1. StackTypeOK /\ StackTypeOK' /\ StackDiscipline
    BY <1>1, <1>2 DEF IInv, TypeOK
  <2>2. StackDiscipline'
    BY <2>1, <1>4, ProtoDiscipline
  <2> QED
    BY <1>2, <2>2 DEF IInv
<1> QED
  BY <1>2, <1>3, <1>4

LEMMA Invariant == Spec => []IInv
  BY Initially, Inductive, PTL DEF Spec

(* Every variable of the evaluator keeps its type, whatever the program. *)
THEOREM TypeCorrect == Spec => []TypeOK
<1>1. IInv => TypeOK
  BY DEF IInv
<1> QED
  BY <1>1, Invariant, PTL

(* Whatever a program does, every activation of eval finds its own symbols *)
(* on the stack when it pops them.                                         *)
THEOREM DisciplineKept == Spec => []StackDiscipline
<1>1. IInv => StackDiscipline
  BY DEF IInv
<1> QED
  BY <1>1, Invariant, PTL

(* Whatever a program does, no step takes the TEMP from under a value that *)
(* a C local variable of eval or the result in flight names, and no        *)
(* collection frees its object, but for a call with parameters and a       *)
(* foreach left by a return: these pop the TEMP of the result they pass on.*)
THEOREM ProtectedStayAlive == Spec => TempsStay
<1>1. ASSUME IInv, IInv', [Next]_vars
      PROVE  [Lasts]_<<objs, stack, frames, val>>
  <2>1. CASE UNCHANGED vars
    BY <2>1 DEF vars, heapVars, stackVars
  <2>2. CASE ProtoNext
    BY <1>1, <2>2, ProtoTemps DEF IInv, TypeOK
  <2> QED
    BY <1>1, <2>1, <2>2, Steps
<1>2. IInv /\ IInv' /\ [Next]_vars =>
        [\A i \in 1 .. Depth' :
           Bare(i)' \subseteq Bare(i) \cup Bare(i + 1) \cup (IF Drops THEN {val'} ELSE {})
        ]_<<objs, stack, frames, val>>
  BY <1>1 DEF Lasts
<1> QED
  BY <1>2, Invariant, PTL DEF Spec, TempsStay

(* The evaluator implements the protocol of the stack. *)
THEOREM FollowsProtocol == Spec => Protocol
<1>1. Init => StackInit
  BY DEF Init
<1>2. IInv /\ [Next]_vars => [ProtoNext]_<<stack, frames, val, objs>>
  BY Steps DEF vars, heapVars, stackVars
<1> QED
  BY <1>1, <1>2, Invariant, PTL DEF Spec, Protocol

(* No activation changes the symbols below it, except the value of a variable. *)
THEOREM ScopeUntouched == Spec => EnclosingScopeUntouched
<1>1. ASSUME IInv, ProtoNext PROVE Agree(Top.base)
  <2>1. /\ Depth \in Nat \ {0} /\ Top.base \in Nat /\ Top.own \in Nat /\ Len(stack) \in Nat
        /\ Len(stack') \in Nat \/ Len(stack') \notin Nat
    BY <1>1, BelowFacts DEF IInv, TypeOK, StackTypeOK, ProtoNext, Frame
  <2>2. Top.base <= Len(stack)
    BY <1>1, <2>1 DEF IInv, StackDiscipline, Top
  <2>3. PICK h \in 0 .. Len(stack) : h >= Top.base /\ Agree(h)
    BY <1>1, <2>1, <2>2
       DEF ProtoNext, ProtoLeaf, ProtoEnter, ProtoResume, ProtoContinue, ProtoLeave
  <2> QED
    BY <2>1, <2>3 DEF Agree
<1>2. IInv /\ [Next]_vars => [frames # <<>> => Agree(Top.base)]_<<stack, frames, val>>
  BY <1>1, Steps DEF vars, heapVars, stackVars
<1> QED
  BY <1>2, Invariant, PTL DEF Spec, EnclosingScopeUntouched

(***************************************************************************)
(* The threshold of the collector.                                         *)
(***************************************************************************)
(* An allocation leaves room up to the threshold, collecting or not. *)
LEMMA AllocBounded ==
  ASSUME HeapTypeOK, HeapBounded, NEW o \in Obj, NEW roots, NEW may, Alloc(o, roots, may)
  PROVE  HeapBounded'
<1> DEFINE kept == IF Full /\ may THEN objs \cap Reach(roots) ELSE objs
<1>1. /\ objs' = kept \cup {o}
      /\ threshold' = IF ~Full THEN Threshold
                      ELSE IF kept = {} THEN GC_INIT_THRESHOLD
                      ELSE Grown(Cardinality(kept))
  BY DEF Alloc
<1>2. IsFiniteSet(objs) /\ kept \subseteq objs /\ threshold \in Nat
  BY ObjAssumption, FS_Subset DEF HeapTypeOK
<1>3. ~Full => kept = objs
  OBVIOUS
<1> HIDE DEF kept
<1>4. IsFiniteSet(kept) /\ Cardinality(kept) \in Nat /\ Cardinality(objs) \in Nat
  BY <1>2, FS_Subset, FS_CardinalityType
<1>5. Cardinality(objs') \in Nat /\ Cardinality(objs') <= Cardinality(kept) + 1
  BY <1>1, <1>4, FS_AddElement
<1>6. CASE ~Full
  <2>1. Cardinality(kept) < Threshold /\ Threshold \in Nat /\ threshold' = Threshold
    BY <1>1, <1>2, <1>3, <1>4, <1>6, ThresholdAssumption DEF Full, Threshold
  <2> QED
    BY <1>4, <1>5, <2>1 DEF HeapBounded
<1>7. CASE Full /\ kept = {}
  <2>1. Cardinality(kept) = 0 /\ threshold' = GC_INIT_THRESHOLD
    BY <1>1, <1>7, FS_EmptySet
  <2> QED
    BY <1>5, <2>1, ThresholdAssumption DEF HeapBounded
<1>8. CASE Full /\ kept # {}
  <2> DEFINE n == Cardinality(kept)
  <2>1. threshold' = Grown(n) /\ n \in Nat
    BY <1>1, <1>4, <1>8
  <2> HIDE DEF n
  <2>2. threshold' \in Nat /\ threshold' >= n + 1
    <3>1. n * GC_GROWTH_FACTOR \in Nat /\ n + GC_MIN_GROWTH \in Nat /\ n + GC_MIN_GROWTH >= n + 1
      BY <2>1, ThresholdAssumption
    <3> QED
      BY <2>1, <3>1 DEF Grown
  <2> QED
    BY <1>5, <2>1, <2>2 DEF HeapBounded, n
<1> QED
  BY <1>6, <1>7, <1>8

(* Nothing but an allocation changes what is tracked or the threshold. *)
LEMMA AllocatesOnly ==
  ASSUME [Next]_vars
  PROVE  UNCHANGED <<objs, threshold>> \/ \E o \in Obj : NewHeapVal(o)
<1>1. CASE Expression
  BY <1>1 DEF Expression, ExprScalar, ExprVar, ExprStr, ExprContainer, ExprList, ExprDict,
         ExprBin, ExprAssign, ExprUn, ExprOp, ExprCall, Quiet, heapVars
<1>2. CASE Operator
  BY <1>2 DEF Operator, UnDone, BinLeft, BinIndex, BinError, BinScalar, BinConcat, AssignVar,
         AssignElem, AssignDone, AssignError, ListItem, DictKey, DictVal, LiteralDone, Quiet,
         Throw, heapVars
<1>3. CASE Call
  BY <1>3 DEF Call, ArgParam, ArgAny, LibNew, AnyItem, CallBody, CallArity, CallReturn, LibScalar,
         RegArg, LibAppend, LibRemove, LibInsert, LibError, Edits, Quiet, Throw, heapVars
<1>4. CASE Stmt
  BY <1>4 DEF Stmt, StmtDef, StmtIf, StmtWhile, StmtFor, StmtEach, StmtRet, StmtRetNone, StmtBreak,
         StmtCont, StmtFn, DefDone, EachHead, If, CondError, WhileEnter, WhileHead, WhileNext,
         ForEnter, ForHead, ForNext, ForMut, EachEnter, EachNext, RetDone, BodyNext, BodyEnd,
         BodyUnwind, Opens, Jump, Returns, Returned, Looped, Quiet, Throw, heapVars
<1>5. CASE Unwind
  BY <1>5 DEF Unwind, ErrPlain, ErrPush, ErrAppend, ErrRet, Quiet, heapVars
<1> QED
  BY <1>1, <1>2, <1>3, <1>4, <1>5 DEF Next, Stopped, vars, heapVars

(* The collector's threshold is never behind the objects it tracks, also   *)
(* when collections are put off because a return is on its way: the next   *)
(* one is always an allocation away that the threshold still allows.       *)
THEOREM ThresholdAhead == Spec => []HeapBounded
<1>1. Init => HeapBounded
  BY DEF Init, HeapInit, HeapBounded
<1>2. IInv /\ HeapBounded /\ [Next]_vars => HeapBounded'
  <2> SUFFICES ASSUME IInv, HeapBounded, [Next]_vars PROVE HeapBounded'
    OBVIOUS
  <2>1. CASE UNCHANGED <<objs, threshold>>
    BY <2>1 DEF HeapBounded
  <2>2. CASE \E o \in Obj : NewHeapVal(o)
    BY <2>2, AllocBounded DEF NewHeapVal, IInv, TypeOK
  <2> QED
    BY <2>1, <2>2, AllocatesOnly
<1> QED
  BY <1>1, <1>2, Invariant, PTL DEF Spec

-----------------------------------------------------------------------------
(***************************************************************************)
(* Nothing is evaluated while a return, break, continue or error is on its *)
(* way, whatever the program: only activations that ask for ctx->state ever*)
(* get a value while a jump is pending, because the statements that set it *)
(* are nowhere but directly in a body.                                     *)
(***************************************************************************)
\* The activations that look at ctx->state when they get a value: a body after a
\* statement, a call and a loop after the body.
Looking == {"body", "call", "while_b", "for_b", "each_b"}
Inner == {"body", "if", "while_0", "while_c", "while_b", "for_v", "for_c", "for_b",
          "for_m", "each_c", "each_n", "each_b", "ret"}

Nested == \A i \in 1 .. Depth - 1 : frames[i + 1].k \in Inner => frames[i].k \in Looking

\* What the innermost activation may be about to do.
Heeded == frames # <<>> =>
  IF val = Pending THEN state = "NONE" /\ ~err
  ELSE err \/ state = "NONE" \/ Top.k \in Looking

UInv == IInv /\ Nested /\ Heeded

Goal == Nested' /\ Heeded'
Calm == state' = "NONE" /\ ~err'

-----------------------------------------------------------------------------
(* Sequences of activations.                                               *)

(* The last one of a sequence that was appended to, whatever it is. *)
LEMMA Appended ==
  ASSUME NEW S, NEW s \in Seq(S), NEW f
  PROVE  /\ Len(Append(s, f)) = Len(s) + 1 /\ Append(s, f)[Len(s) + 1] = f
         /\ \A i \in 1 .. Len(s) : Append(s, f)[i] = s[i]
         /\ Append(s, f) \in Seq(S \cup {f})
<1>1. s \in Seq(S \cup {f})
  <2>1. \A i \in 1 .. Len(s) : s[i] \in S \cup {f}
    BY ElementOfSeq
  <2> QED
    BY <2>1, SeqDef, LenProperties
<1> QED
  BY <1>1, AppendProperties

(* The activation a running step works on. *)
LEMMA Here ==
  ASSUME UInv, Running
  PROVE  /\ frames \in Seq(Frame) /\ frames # <<>> /\ Depth \in Nat \ {0} /\ Depth = Len(frames)
         /\ Below \in Seq(Frame) /\ Len(Below) = Depth - 1
         /\ \A i \in 1 .. Depth - 1 : Below[i] = frames[i]
         /\ Top = frames[Depth] /\ Top \in Frame
<1>1. frames \in Seq(Frame) /\ frames # <<>>
  BY DEF UInv, IInv, TypeOK, StackTypeOK, Running
<1> QED
  BY <1>1, BelowFacts DEF Depth, Top

-----------------------------------------------------------------------------
(* What each kind of step has to show.                                     *)

(* An activation goes on to evaluate only what it may. *)
LEMMA LeafU ==
  ASSUME UInv, Running, UNCHANGED frames,
         Calm \/ \E v \in Val : val' = Unrooted(v),
         err' \/ state' = "NONE" \/ Top.k \in Looking
  PROVE  Goal
<1>1. Nested' /\ Top' = Top
  BY DEF UInv, Nested, Depth, Top
<1>2. Calm \/ val' # Pending
  BY StackAssumption DEF Unrooted, Slot
<1> QED
  BY <1>1, <1>2 DEF Goal, Heeded, Calm

(* A sub-tree is entered. *)
LEMMA EnterU ==
  ASSUME UInv, Running, Calm, NEW f, Enter(f), f.k \in Inner => Top.k \in Looking
  PROVE  Goal
<1>1. /\ Depth' = Depth + 1 /\ frames'[Depth + 1] = f
      /\ \A i \in 1 .. Depth : frames'[i] = frames[i]
  BY Here, Appended DEF Enter, Depth
<1>3. ASSUME NEW i \in 1 .. Depth, frames'[i + 1].k \in Inner
      PROVE  frames'[i].k \in Looking
  <2>1. CASE i = Depth
    BY <1>1, <1>3, <2>1, Here
  <2>2. CASE i # Depth
    <3>1. i \in 1 .. Depth - 1 /\ i + 1 \in 1 .. Depth /\ i \in 1 .. Depth
      BY <2>2, Here
    <3>2. frames'[i + 1] = frames[i + 1] /\ frames'[i] = frames[i]
      BY <1>1, <3>1
    <3> QED
      BY <1>3, <3>1, <3>2 DEF UInv, Nested
  <2> QED
    BY <2>1, <2>2
<1>4. Nested'
  <2>1. Depth' - 1 = Depth
    BY <1>1, Here
  <2> QED
    BY <1>3, <2>1 DEF Nested
<1> QED
  BY <1>4 DEF Goal, Heeded, Calm, Enter

(* The activation goes on. *)
LEMMA ResumeU ==
  ASSUME UInv, Running, Calm, NEW f, Resume(f), f.k \in Inner => Top.k \in Inner
  PROVE  Goal
<1>1. /\ Depth' = Depth /\ frames'[Depth] = f
      /\ \A i \in 1 .. Depth - 1 : frames'[i] = frames[i]
  BY Here, Appended DEF Resume, Depth
<1>2. \A i \in 1 .. Depth - 1 : i + 1 \in 1 .. Depth - 1 \/ i + 1 = Depth
  BY Here
<1>3. Nested'
  BY <1>1, <1>2, Here DEF UInv, Nested
<1> QED
  BY <1>3 DEF Goal, Heeded, Calm, Resume

(* A body runs above the activation. *)
LEMMA ContinueU ==
  ASSUME UInv, Running, Calm, NEW f, NEW g, Continue(f, g),
         f.k \in Inner => Top.k \in Inner, f.k \in Looking
  PROVE  Goal
<1> DEFINE s == Append(Below, f)
<1>1. /\ s \in Seq(Frame \cup {f}) /\ Len(s) = Depth /\ s[Depth] = f
      /\ \A i \in 1 .. Depth - 1 : s[i] = frames[i]
  BY Here, Appended
<1>2. frames' = Append(s, g)
  BY DEF Continue
<1> HIDE DEF s
<1>3. /\ Depth' = Depth + 1 /\ frames'[Depth + 1] = g /\ frames'[Depth] = f
      /\ \A i \in 1 .. Depth - 1 : frames'[i] = frames[i]
  BY <1>1, <1>2, Here, Appended DEF Depth
<1>4. ASSUME NEW i \in 1 .. Depth, frames'[i + 1].k \in Inner
      PROVE  frames'[i].k \in Looking
  <2>1. CASE i = Depth
    BY <1>3, <2>1
  <2>2. CASE i = Depth - 1
    <3>1. i \in 1 .. Depth - 1 /\ i + 1 = Depth
      BY <2>2, Here
    <3>2. frames'[i + 1] = f /\ frames'[i] = frames[i] /\ frames[i + 1] = Top
      BY <1>3, <3>1, Here
    <3> QED
      BY <1>4, <3>1, <3>2 DEF UInv, Nested
  <2>3. CASE i # Depth /\ i # Depth - 1
    <3>1. i \in 1 .. Depth - 1 /\ i + 1 \in 1 .. Depth - 1
      BY <2>3, Here
    <3>2. frames'[i + 1] = frames[i + 1] /\ frames'[i] = frames[i]
      BY <1>3, <3>1
    <3> QED
      BY <1>4, <3>1, <3>2 DEF UInv, Nested
  <2> QED
    BY <2>1, <2>2, <2>3
<1>5. Nested'
  <2>1. Depth' - 1 = Depth
    BY <1>3, Here
  <2> QED
    BY <1>4, <2>1 DEF Nested
<1> QED
  BY <1>5 DEF Goal, Heeded, Calm, Continue

(* The activation ends. *)
LEMMA LeaveU ==
  ASSUME UInv, Running, ProtoNext, frames' = Below,
         err' \/ state' = "NONE" \/ Top.k \in Inner
  PROVE  Goal
<1>1. Depth' = Depth - 1 /\ \A i \in 1 .. Depth - 1 : frames'[i] = frames[i]
  BY Here DEF Depth
<1>2. val' # Pending
  <2>1. Len(frames') = Depth - 1 /\ Depth \in Nat
    BY Here
  <2>2. frames' # frames /\ Len(frames') # Depth /\ Len(frames') # Depth + 1
    BY <2>1, Here
  <2> QED
    BY <2>2 DEF ProtoNext, ProtoLeaf, ProtoEnter, ProtoResume, ProtoContinue, ProtoLeave
<1>3. Nested'
  <2>1. ASSUME NEW i \in 1 .. Depth - 1 - 1, frames'[i + 1].k \in Inner
        PROVE  frames'[i].k \in Looking
    <3>1. i \in 1 .. Depth - 1 /\ i + 1 \in 1 .. Depth - 1
      BY Here
    <3>2. frames'[i + 1] = frames[i + 1] /\ frames'[i] = frames[i]
      BY <1>1, <3>1
    <3> QED
      BY <2>1, <3>1, <3>2 DEF UInv, Nested
  <2> QED
    BY <1>1, <2>1 DEF Nested
<1>4. ASSUME frames' # <<>>, Top.k \in Inner PROVE Top'.k \in Looking
  <2>1. Depth - 1 \in 1 .. Depth - 1 /\ (Depth - 1) + 1 = Depth
    BY <1>4, Here, EmptySeq
  <2>2. Top' = frames[Depth - 1]
    BY <1>1, <2>1 DEF Top
  <2> QED
    BY <1>4, <2>1, <2>2, Here DEF UInv, Nested
<1> QED
  BY <1>2, <1>3, <1>4 DEF Goal, Heeded

(* What is pending when an activation evaluates, and when it gets a value. *)
LEMMA Asking ==
  ASSUME UInv, Asked
  PROVE  Running /\ state = "NONE" /\ ~err
  BY DEF Asked, Running, UInv, Heeded

LEMMA Having ==
  ASSUME UInv, Given
  PROVE  Running /\ ~err /\ (state = "NONE" \/ Top.k \in Looking)
  BY DEF Given, Running, UInv, Heeded

-----------------------------------------------------------------------------
(* The actions.                                                            *)

(* The kind of an activation that is made or goes on. *)
LEMMA KindFacts ==
  ASSUME UInv, Running, NEW k
  PROVE  /\ New(k).k = k /\ \A h : NewAt(k, h).k = k
         /\ \A hold : [New(k) EXCEPT !.hold = hold].k = k
         /\ [Top EXCEPT !.k = k].k = k
         /\ \A hold : [Top EXCEPT !.k = k, !.hold = hold].k = k
         /\ \A own : [Top EXCEPT !.k = k, !.own = own].k = k
         /\ \A own, n : [Top EXCEPT !.k = k, !.own = own, !.n = n].k = k
         /\ \A own : [Top EXCEPT !.own = own].k = Top.k
         /\ \A hold : [Top EXCEPT !.hold = hold].k = Top.k
<1>1. Top \in [k : Kinds, base : Nat, own : Nat, n : Nat, buf : Nat, hold : Seq(Slot)]
  BY Here DEF Frame
<1> QED
  BY <1>1 DEF New, NewAt

LEMMA ExpressionU ==
  ASSUME UInv, ProtoNext, Expression
  PROVE  Goal
<1>1. Hole
  BY DEF Expression, ExprScalar, ExprVar, ExprStr, ExprContainer, ExprList, ExprDict,
         ExprBin, ExprAssign, ExprUn, ExprOp, ExprCall, Starts
<1>2. Running /\ state = "NONE" /\ ~err
  BY <1>1, Asking DEF Hole
<1>3. CASE \E s \in Literals : ExprScalar(s)
  <2>1. UNCHANGED frames /\ Calm
    BY <1>2, <1>3 DEF ExprScalar, Quiet, Calm
  <2> QED
    BY <1>2, <2>1, LeafU DEF Calm
<1>4. ASSUME UNCHANGED frames, err' = TRUE, Garbage PROVE Goal
  BY <1>2, <1>4, LeafU DEF Garbage
<1>5. CASE \E id \in Ids : ExprVar(id)
  <2>1. UNCHANGED <<frames, state>> /\ (UNCHANGED err \/ (err' = TRUE /\ Garbage))
    BY <1>5 DEF ExprVar
  <2>2. CASE UNCHANGED err
    BY <1>2, <2>1, <2>2, LeafU DEF Calm
  <2> QED
    BY <1>4, <2>1, <2>2
<1>6. CASE \E o \in Obj : ExprStr(o)
  BY <1>2, <1>6, LeafU DEF ExprStr, Calm
<1>7. ASSUME NEW o \in Obj, NEW form, NEW k \in {"list", "dict_k"}, ExprContainer(o, form, k)
      PROVE  Goal
  <2> DEFINE f == [New(k) EXCEPT !.hold = <<Rooted(o)>>]
  <2>1. Enter(f) /\ Calm
    BY <1>2, <1>7 DEF ExprContainer, Calm
  <2>2. f.k = k
    BY <1>2, KindFacts
  <2> HIDE DEF f
  <2> QED
    BY <1>2, <1>7, <2>1, <2>2, EnterU DEF Inner
<1>8. ASSUME NEW k \in {"bin_l", "asg_r", "un", "arg", "reg"}, Enter(New(k)), Calm PROVE Goal
  <2>1. New(k).k = k
    BY <1>2, KindFacts
  <2> QED
    BY <1>2, <1>8, <2>1, EnterU DEF Inner
<1>9. CASE ExprBin \/ ExprAssign \/ ExprUn
  BY <1>2, <1>8, <1>9 DEF ExprBin, ExprAssign, ExprUn, ExprOp, Quiet, Calm
<1>10. CASE \E id \in Ids \cup {Lib} : ExprCall(id)
  <2>1. /\ state' = state
        /\ \/ Enter(New("arg")) /\ UNCHANGED err
           \/ Enter(New("reg")) /\ UNCHANGED err
           \/ UNCHANGED frames /\ err' = TRUE /\ Garbage
    BY <1>10 DEF ExprCall
  <2>2. CASE UNCHANGED err /\ (Enter(New("arg")) \/ Enter(New("reg")))
    <3>1. Calm
      BY <1>2, <2>1, <2>2 DEF Calm
    <3> QED
      BY <1>8, <2>2, <3>1
  <2> QED
    BY <1>4, <2>1, <2>2
<1> QED
  BY <1>3, <1>5, <1>6, <1>7, <1>9, <1>10 DEF Expression, ExprList, ExprDict

LEMMA OperatorU ==
  ASSUME UInv, ProtoNext, Operator
  PROVE  Goal
<1>1. CASE LiteralDone
  <2>1. frames' = Below /\ state' = state
    BY <1>1 DEF LiteralDone, Leave, Quiet
  <2> QED
    BY <1>1, <2>1, Asking, LeaveU DEF LiteralDone
<1>2. ASSUME Given, Top.k \notin Looking, state' = state, frames' = Below PROVE Goal
  BY <1>2, Having, LeaveU
<1>3. ASSUME Given, Top.k \notin Looking, state' = state, err' = err,
             NEW f, Resume(f), f.k \notin Inner
      PROVE  Goal
  BY <1>3, Having, ResumeU DEF Calm
<1>4. CASE \/ UnDone \/ BinIndex \/ BinError \/ AssignDone \/ AssignError
           \/ \E s \in Literals \ {"none"} : BinScalar(s)
           \/ \E o \in Obj : BinConcat(o)
           \/ \E id \in Ids : AssignVar(id)
  <2>1. Given /\ state' = state /\ frames' = Below
    BY <1>4 DEF UnDone, BinIndex, BinError, AssignDone, AssignError, BinScalar, BinConcat,
                AssignVar, Leave, Throw, Quiet
  <2>2. Top.k \in {"un", "bin_r", "asg_k", "asg_r"}
    BY <1>4 DEF UnDone, BinIndex, BinError, AssignDone, AssignError, BinScalar, BinConcat,
                AssignVar, At
  <2> QED
    BY <1>2, <2>1, <2>2, SMTT(30) DEF Looking
<1>5. CASE BinLeft
  <2>1. [Top EXCEPT !.k = "bin_r", !.hold = <<val>>].k = "bin_r"
    BY <1>5, Having, KindFacts DEF BinLeft
  <2> QED
    BY <1>3, <1>5, <2>1 DEF BinLeft, At, Quiet, Looking, Inner
<1>6. CASE AssignElem
  <2>1. Running
    BY <1>6, Having DEF AssignElem
  <2>2. /\ [Top EXCEPT !.k = "asg_c", !.hold = <<val>>].k = "asg_c"
        /\ [Top EXCEPT !.k = "asg_k", !.hold = Append(@, val)].k = "asg_k"
    BY <2>1, KindFacts
  <2>3. /\ Given /\ state' = state /\ err' = err /\ Top.k \in {"asg_r", "asg_c"}
        /\ \/ Resume([Top EXCEPT !.k = "asg_c", !.hold = <<val>>])
           \/ Resume([Top EXCEPT !.k = "asg_k", !.hold = Append(@, val)])
    BY <1>6 DEF AssignElem, At, Quiet
  <2> QED
    BY <1>3, <2>2, <2>3 DEF Looking, Inner
<1>7. CASE ListItem
  BY <1>3, <1>7 DEF ListItem, At, Looking, Inner
<1>8. CASE DictKey
  <2>1. [Top EXCEPT !.k = "dict_v", !.hold = Append(@, val)].k = "dict_v"
    BY <1>8, Having, KindFacts DEF DictKey
  <2> QED
    BY <1>3, <1>8, <2>1 DEF DictKey, At, Quiet, Looking, Inner
<1>9. CASE DictVal
  <2>1. [Top EXCEPT !.k = "dict_k", !.hold = <<Top.hold[1]>>].k = "dict_k"
    BY <1>9, Having, KindFacts DEF DictVal
  <2> QED
    BY <1>3, <1>9, <2>1 DEF DictVal, At, Looking, Inner
<1> QED
  BY <1>1, <1>4, <1>5, <1>6, <1>7, <1>8, <1>9 DEF Operator

LEMMA CallU ==
  ASSUME UInv, ProtoNext, Call
  PROVE  Goal
<1>1. ASSUME Asked, state' = state, frames' = Below PROVE Goal
  BY <1>1, Asking, LeaveU
<1>2. ASSUME Given, Top.k \notin Looking, state' = state, err' = err,
             NEW f, Resume(f), f.k \notin Inner
      PROVE  Goal
  BY <1>2, Having, ResumeU DEF Calm
<1>3. CASE \/ CallArity \/ LibAppend \/ LibRemove \/ LibInsert \/ LibError
           \/ \E o \in Obj : LibNew(o)
           \/ \E s \in Literals : LibScalar(s)
  BY <1>1, <1>3 DEF CallArity, LibAppend, LibRemove, LibInsert, LibError, LibNew, LibScalar,
                    Edits, Throw, Leave
<1>4. CASE \E id \in Ids : ArgParam(id)
  <2>1. [Top EXCEPT !.own = Top.own + 1].k = Top.k
    BY <1>4, Having, KindFacts DEF ArgParam
  <2>2. Given /\ Top.k = "arg" /\ state' = state /\ err' = err
        /\ Resume([Top EXCEPT !.own = Top.own + 1])
    BY <1>4 DEF ArgParam, At, Quiet
  <2> QED
    BY <1>2, <2>1, <2>2 DEF Looking, Inner
<1>5. CASE \E o \in Obj : ArgAny(o)
  <2>1. PICK o \in Obj : ArgAny(o)
    BY <1>5
  <2>2. Running /\ state = "NONE" /\ ~err
    BY <2>1, Asking DEF ArgAny
  <2>3. [Top EXCEPT !.k = "any", !.hold = <<Rooted(o)>>].k = "any"
    BY <2>2, KindFacts
  <2>4. Calm /\ Resume([Top EXCEPT !.k = "any", !.hold = <<Rooted(o)>>])
    BY <2>1, <2>2 DEF ArgAny, Calm
  <2> QED
    BY <2>2, <2>3, <2>4, ResumeU DEF Inner
<1>6. CASE AnyItem
  BY <1>2, <1>6 DEF AnyItem, At, Looking, Inner
<1>7. CASE CallBody
  <2>1. Running /\ state = "NONE" /\ ~err
    BY <1>7, Asking DEF CallBody
  <2>2. Calm
    BY <1>7, <2>1 DEF CallBody, Calm
  <2>3. /\ [Top EXCEPT !.k = "call"].k = "call"
        /\ [Top EXCEPT !.k = "call", !.own = Top.own + 1].k = "call"
    BY <2>1, KindFacts
  <2>4. \/ Continue([Top EXCEPT !.k = "call"], New("body"))
        \/ Continue([Top EXCEPT !.k = "call", !.own = Top.own + 1], NewAt("body", Len(stack) + 1))
    BY <1>7 DEF CallBody
  <2> QED
    BY <2>1, <2>2, <2>3, <2>4, ContinueU DEF Looking, Inner
<1>8. CASE CallReturn
  <2>1. Running /\ frames' = Below /\ state' = "NONE"
    BY <1>8, Having DEF CallReturn, Leave
  <2> QED
    BY <2>1, LeaveU
<1>9. CASE RegArg
  <2>1. [Top EXCEPT !.hold = Append(Top.hold, val)].k = Top.k
    BY <1>9, Having, KindFacts DEF RegArg
  <2>2. Given /\ Top.k = "reg" /\ state' = state /\ err' = err
        /\ Resume([Top EXCEPT !.hold = Append(Top.hold, val)])
    BY <1>9 DEF RegArg, At, Quiet
  <2> QED
    BY <1>2, <2>1, <2>2 DEF Looking, Inner
<1> QED
  BY <1>3, <1>4, <1>5, <1>6, <1>7, <1>8, <1>9 DEF Call

(* Statements of a body, which is where a jump begins. *)
LEMMA StatementU ==
  ASSUME UInv, ProtoNext,
         \/ StmtDef \/ StmtIf \/ StmtWhile \/ StmtFor \/ StmtEach
         \/ StmtRet \/ StmtRetNone \/ StmtBreak \/ StmtCont
         \/ \E id \in Ids : StmtFn(id)
  PROVE  Goal
<1>1. Asked
  BY DEF StmtDef, StmtIf, StmtWhile, StmtFor, StmtEach, StmtRet, StmtRetNone, StmtBreak,
         StmtCont, StmtFn, Opens, Statement
<1>2. Running /\ state = "NONE" /\ ~err
  BY <1>1, Asking
<1>3. ASSUME NEW k, Enter(New(k)), Calm, k \in Inner => Top.k = "body" PROVE Goal
  <2>1. New(k).k = k
    BY <1>2, KindFacts
  <2> QED
    BY <1>2, <1>3, <2>1, EnterU DEF Looking
<1>4. ASSUME NEW form, NEW k, NEW n, Opens(form, k, n) PROVE Goal
  <2>1. Enter(New(k)) /\ Calm /\ Top.k = "body"
    BY <1>2, <1>4 DEF Opens, Statement, At, Quiet, Calm
  <2> QED
    BY <1>3, <2>1
<1>5. CASE StmtIf \/ StmtWhile \/ StmtFor \/ StmtEach \/ StmtRet
  BY <1>4, <1>5 DEF StmtIf, StmtWhile, StmtFor, StmtEach, StmtRet
<1>6. CASE StmtDef
  <2>1. Enter(New("def")) /\ Calm
    BY <1>2, <1>6 DEF StmtDef, Quiet, Calm
  <2> QED
    BY <1>3, <2>1 DEF Inner
<1>7. CASE \E id \in Ids : StmtFn(id)
  <2>1. UNCHANGED frames /\ Calm
    BY <1>2, <1>7 DEF StmtFn, Quiet, Calm
  <2> QED
    BY <1>2, <2>1, LeafU DEF Calm
<1>8. CASE StmtRetNone \/ StmtBreak \/ StmtCont
  <2>1. UNCHANGED frames /\ Top.k = "body" /\ val' = Unrooted("none") /\ "none" \in Val
    BY <1>8 DEF StmtRetNone, StmtBreak, StmtCont, Jump, Statement, At, VNONE, Val, Scalar
  <2> QED
    BY <1>2, <2>1, LeafU DEF Looking
<1> QED
  BY <1>5, <1>6, <1>7, <1>8

(* What they do with values and jumps. *)
LEMMA StmtU ==
  ASSUME UInv, ProtoNext, Stmt
  PROVE  Goal
<1>1. ASSUME Given, Top.k \notin Looking, state' = state, frames' = Below PROVE Goal
  BY <1>1, Having, LeaveU
<1>2. ASSUME Given, state' = "NONE" \/ Top.k \in Inner, frames' = Below PROVE Goal
  BY <1>2, Having, LeaveU
<1>3. ASSUME Given, Top.k \notin Looking \/ state' = "NONE", state' \in {"NONE", state}, err' = err,
             NEW f, Resume(f), f.k \in Inner => Top.k \in Inner
      PROVE  Goal
  BY <1>3, Having, ResumeU DEF Calm
<1>4. ASSUME Given, Top.k \notin Looking, state' = state, err' = err,
             NEW k \in Looking, Top.k \in Inner, RunBody([Top EXCEPT !.k = k])
      PROVE  Goal
  <2>1. Calm /\ Running
    BY <1>4, Having DEF Calm
  <2>2. [Top EXCEPT !.k = k].k = k
    BY <2>1, KindFacts
  <2>3. Continue([Top EXCEPT !.k = k], New("body"))
    BY <1>4 DEF RunBody
  <2> QED
    BY <1>4, <2>1, <2>2, <2>3, ContinueU
<1>5. CASE \E id \in Ids : DefDone(id)
  BY <1>1, <1>5 DEF DefDone, At, Leave, Quiet, Looking
<1>6. CASE If
  <2>1. Given /\ Top.k = "if" /\ state' = state /\ err' = err
        /\ (Resume(New("body")) \/ Resume(Top) \/ frames' = Below)
    BY <1>6 DEF If, At, Leave, Quiet
  <2>2. New("body").k = "body"
    BY <2>1, Having, KindFacts
  <2> QED
    BY <1>1, <1>3, <2>1, <2>2 DEF Looking, Inner
<1>7. CASE CondError
  BY <1>1, <1>7 DEF CondError, Throw, At, Leave, Looking
<1>8. CASE WhileEnter
  <2>1. [Top EXCEPT !.k = "while_c"].k = "while_c"
    BY <1>8, Having, KindFacts DEF WhileEnter
  <2> QED
    BY <1>3, <1>8, <2>1 DEF WhileEnter, At, Quiet, Looking, Inner
<1>9. CASE WhileHead
  BY <1>1, <1>4, <1>9 DEF WhileHead, At, Leave, Quiet, Looking, Inner
<1>10. CASE WhileNext
  <2>1. [Top EXCEPT !.k = "while_c"].k = "while_c"
    BY <1>10, Having, KindFacts DEF WhileNext
  <2> QED
    BY <1>2, <1>3, <1>10, <2>1 DEF WhileNext, Looped, Returned, At, Leave, Quiet, Inner
<1>11. CASE ForEnter
  <2> DEFINE own == IF Len(stack) # Top.base THEN 1 ELSE 0
  <2>1. [Top EXCEPT !.k = "for_c", !.own = own].k = "for_c"
    BY <1>11, Having, KindFacts DEF ForEnter
  <2>2. Given /\ Top.k = "for_v" /\ state' = state /\ err' = err
        /\ Resume([Top EXCEPT !.k = "for_c", !.own = own])
    BY <1>11 DEF ForEnter, At, Quiet
  <2> QED
    BY <1>3, <2>1, <2>2 DEF Looking, Inner
<1>12. CASE ForHead
  BY <1>1, <1>4, <1>12 DEF ForHead, ForLeave, At, Leave, Quiet, Looking, Inner
<1>13. CASE ForNext
  <2>1. [Top EXCEPT !.k = "for_m"].k = "for_m"
    BY <1>13, Having, KindFacts DEF ForNext
  <2> QED
    BY <1>2, <1>3, <1>13, <2>1 DEF ForNext, ForLeave, Looped, Returned, At, Leave, Quiet, Inner
<1>14. CASE ForMut
  <2>1. [Top EXCEPT !.k = "for_c"].k = "for_c"
    BY <1>14, Having, KindFacts DEF ForMut
  <2> QED
    BY <1>3, <1>14, <2>1 DEF ForMut, At, Quiet, Looking, Inner
<1>15. CASE EachEnter
  <2>1. [Top EXCEPT !.k = "each_n", !.hold = <<val>>].k = "each_n"
    BY <1>15, Having, KindFacts DEF EachEnter
  <2> QED
    BY <1>3, <1>15, <2>1 DEF EachEnter, At, Looking, Inner
<1>16. CASE \E id \in Ids : EachHead(id)
  <2>1. Asked /\ Top.k = "each_n" /\ state' = state /\ err' = err
        /\ \/ Continue([Top EXCEPT !.k = "each_b", !.own = 1], NewAt("body", Len(stack) + 1))
           \/ frames' = Below
    BY <1>16 DEF EachHead, At, Leave
  <2>2. Running /\ Calm
    BY <2>1, Asking DEF Calm
  <2>3. [Top EXCEPT !.k = "each_b", !.own = 1].k = "each_b"
    BY <2>2, KindFacts
  <2> QED
    BY <2>1, <2>2, <2>3, ContinueU, LeaveU DEF Looking, Inner, Calm
<1>17. CASE EachNext
  <2>1. [Top EXCEPT !.k = "each_n", !.own = 0, !.n = Top.n + 1].k = "each_n"
    BY <1>17, Having, KindFacts DEF EachNext
  <2>2. /\ Given /\ Top.k = "each_b" /\ err' = err
        /\ \/ frames' = Below
           \/ state' = "NONE" /\ Resume([Top EXCEPT !.k = "each_n", !.own = 0, !.n = Top.n + 1])
    BY <1>17 DEF EachNext, Looped, At, Leave, Quiet
  <2> QED
    BY <1>2, <1>3, <2>1, <2>2 DEF Inner
<1>18. CASE RetDone
  BY <1>2, <1>18 DEF RetDone, At, Leave, Inner
<1>19. CASE BodyNext
  BY <1>3, <1>19 DEF BodyNext, At, Quiet
<1>20. CASE BodyEnd
  <2>1. Running /\ Top.k = "body" /\ frames' = Below
    BY <1>20, Asking DEF BodyEnd, At, Leave
  <2> QED
    BY <2>1, LeaveU DEF Inner
<1>21. CASE BodyUnwind
  <2>1. Given /\ Top.k = "body" /\ frames' = Below
    BY <1>21 DEF BodyUnwind, At, Leave
  <2> QED
    BY <1>2, <2>1 DEF Inner
<1> QED
  BY StatementU, <1>5, <1>6, <1>7, <1>8, <1>9, <1>10, <1>11, <1>12, <1>13, <1>14, <1>15, <1>16,
     <1>17, <1>18, <1>19, <1>20, <1>21 DEF Stmt

(* Every step but those after an error works on an activation that asks for*)
(* a value or has been given one.                                          *)
LEMMA Forward ==
  ASSUME Expression \/ Operator \/ Call \/ Stmt
  PROVE  Asked \/ Given
<1>1. Expression => Asked
  BY DEF Expression, ExprScalar, ExprVar, ExprStr, ExprContainer, ExprList, ExprDict,
         ExprBin, ExprAssign, ExprUn, ExprOp, ExprCall, Starts, Hole
<1>2. Operator => Asked \/ Given
  BY DEF Operator, UnDone, BinLeft, BinIndex, BinError, BinScalar, BinConcat, AssignVar,
         AssignElem, AssignDone, AssignError, ListItem, DictKey, DictVal, LiteralDone
<1>3. Call => Asked \/ Given
  BY DEF Call, ArgParam, ArgAny, LibNew, AnyItem, CallBody, CallArity, CallReturn, LibScalar,
         RegArg, LibAppend, LibRemove, LibInsert, LibError
<1>4. Stmt => Asked \/ Given
  BY DEF Stmt, StmtDef, StmtIf, StmtWhile, StmtFor, StmtEach, StmtRet, StmtRetNone, StmtBreak,
         StmtCont, StmtFn, DefDone, EachHead, If, CondError, WhileEnter, WhileHead, WhileNext,
         ForEnter, ForHead, ForNext, ForMut, EachEnter, EachNext, RetDone, BodyNext, BodyEnd,
         BodyUnwind, Opens, Statement
<1> QED
  BY <1>1, <1>2, <1>3, <1>4

(* An activation that gets a value after an error ends. *)
LEMMA UnwindU ==
  ASSUME UInv, ProtoNext, Unwind
  PROVE  Goal
<1>1. Running /\ err' /\ frames' = Below
  BY DEF Unwind, ErrPlain, ErrPush, ErrAppend, ErrRet, Failed, Leave, Quiet
<1> QED
  BY <1>1, LeaveU

-----------------------------------------------------------------------------
(* The theorem.                                                            *)

LEMMA InitU == Init => UInv
<1> SUFFICES ASSUME Init PROVE UInv
  OBVIOUS
<1>1. frames = <<NewAt("body", 1)>> /\ val = Pending /\ state = "NONE" /\ err = FALSE
  BY DEF Init, StackInit
<1>2. Depth = 1
  BY <1>1 DEF Depth
<1>3. Nested /\ Heeded
  BY <1>1, <1>2 DEF Nested, Heeded
<1> QED
  BY <1>3, Initially DEF UInv

LEMMA NextU == UInv /\ [Next]_vars => UInv'
<1> SUFFICES ASSUME UInv, [Next]_vars PROVE UInv'
  OBVIOUS
<1>1. IInv' /\ (UNCHANGED vars \/ ProtoNext)
  BY Inductive, Steps DEF UInv
<1>2. CASE UNCHANGED vars
  BY <1>1, <1>2 DEF UInv, Nested, Heeded, vars, stackVars, Depth, Top
<1>3. CASE ProtoNext /\ (Expression \/ Operator \/ Call \/ Stmt \/ Unwind)
  <2>1. Goal
    BY <1>3, ExpressionU, OperatorU, CallU, StmtU, UnwindU
  <2> QED
    BY <1>1, <2>1 DEF UInv, Goal
<1> QED
  BY <1>1, <1>2, <1>3 DEF Next, Stopped

(* Whatever a program does, no sub-tree is evaluated, and so nothing is    *)
(* allocated or assigned, between a return, break, continue or error and   *)
(* the activation that ends it.                                            *)
THEOREM NothingWhileUnwinding == Spec => []NoEvalWhileUnwinding
<1>1. UInv => NoEvalWhileUnwinding
  BY DEF UInv, Heeded, NoEvalWhileUnwinding, Running
<1> QED
  BY <1>1, InitU, NextU, PTL DEF Spec
=============================================================================
