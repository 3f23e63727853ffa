---------------------------- MODULE KvnetRxProofs ----------------------------
(***************************************************************************)
(* For any number of writers, of batches and of tries: a batch reaches the *)
(* network stack in order, success means that the stack has all of it, a   *)
(* packet is delivered at most once for each try, no sk_buff leaks, and    *)
(* the unlocked rx_packets++ loses counts but never invents them.          *)
(***************************************************************************)
EXTENDS KvnetRx, SequenceTheorems, FiniteSetTheorems, TLAPS

(***************************************************************************)
(* The strengthening.  Progress: how far a call is, by the position of its *)
(* writer.  Trail: the last packet the stack got is the last one this call *)
(* gave away.  Tries: a packet this try has not come to yet was delivered  *)
(* by the earlier tries only, and no packet of a later batch is there.     *)
(* Skbs: the sk_buffs are those of the writers that copy.  Counts: what a  *)
(* writer loaded before another one stored is too small, never too large.  *)
(***************************************************************************)
\* Packets of its batch that the call of w has given to the stack.
Given(w) == IF wpc[w] \in {"load", "store"} THEN ret[w] + 1 ELSE ret[w]

Progress ==
    \A w \in Writers :
        /\ wpc[w] # "idle" => status[w] = "none"
        /\ wpc[w] # "idle" \/ status[w] = "error" => batch[w] > 0 /\ try[w] > 0 /\ count[w] > 0
        /\ wpc[w] = "enter" => ret[w] = 0
        /\ wpc[w] \in {"alloc", "copy", "load", "store"} => ret[w] < count[w]
        /\ wpc[w] = "finish" => ret[w] = count[w]
        /\ wpc[w] = "tap" => ret[w] <= count[w]

Last(w) == handed[w][Len(handed[w])]

Trail ==
    \A w \in Writers :
        wpc[w] # "idle" /\ Given(w) > 0 =>
            handed[w] # <<>> /\ Last(w) = [batch |-> batch[w], n |-> Given(w)]

TrailInv == Trail /\ NoGap /\ SuccessMeansAll

\* A packet of the batch that w is at.
Current(w, n) == [batch |-> batch[w], n |-> n]

TriesInv ==
    \A w \in Writers :
        /\ \A k \in 1..Len(handed[w]) : handed[w][k].batch <= batch[w]
        /\ \A n \in Nat :
            /\ Copies(w, Current(w, n)) <= try[w]
            /\ wpc[w] # "idle" /\ n > Given(w) => Copies(w, Current(w, n)) < try[w]

Copying == {w \in Writers : wpc[w] = "copy"}
Counting == {w \in Writers : wpc[w] \in {"load", "store"}}

SkbInv == IsFiniteSet(Copying) /\ NoSkbLeak

\* No other thread has called kvnet_write yet.
Alone(w) == \A v \in Writers \ {w} : batch[v] = 0

CountInv ==
    /\ IsFiniteSet(Counting)
    /\ rx_packets + Uncounted <= total
    /\ \A w \in Writers :
        /\ wpc[w] = "store" => rload[w] + Uncounted <= total
        /\ Alone(w) => rx_packets + Uncounted = total
        /\ Alone(w) /\ wpc[w] = "store" => rload[w] = rx_packets

IInv == TypeOK /\ Progress /\ TrailInv /\ TriesInv /\ SkbInv /\ CountInv

\* Packet e behind the packets q that a writer handed over before.
LEMMA AppendFacts ==
  ASSUME NEW S, NEW q \in Seq(S), NEW e \in S
  PROVE  /\ Append(q, e) \in Seq(S) /\ Append(q, e) # <<>>
         /\ Len(q) \in Nat /\ Len(Append(q, e)) = Len(q) + 1
         /\ \A i \in 1..Len(q) : Append(q, e)[i] = q[i]
         /\ Append(q, e)[Len(q) + 1] = e
BY AppendProperties, LenProperties

\* A sequence that is not empty has a last element.
LEMMA LastFacts ==
  ASSUME NEW S, NEW q \in Seq(S), q # <<>>
  PROVE  Len(q) \in Nat /\ Len(q) > 0 /\ q[Len(q)] \in S
BY EmptySeq, LenProperties, ElementOfSeq

Places(q, p) == {k \in 1..Len(q) : q[k] = p}

\* How often p is in a sequence: once more when p is put behind it.
LEMMA PlacesFacts ==
  ASSUME NEW S, NEW q \in Seq(S), NEW p
  PROVE  /\ IsFiniteSet(Places(q, p)) /\ Cardinality(Places(q, p)) \in Nat
         /\ (\A k \in 1..Len(q) : q[k] # p) => Cardinality(Places(q, p)) = 0
         /\ \A e \in S : Cardinality(Places(Append(q, e), p))
                            = IF e = p THEN Cardinality(Places(q, p)) + 1
                                       ELSE Cardinality(Places(q, p))
<1>1. Len(q) \in Nat
  BY LenProperties
<1>2. IsFiniteSet(1..Len(q))
  BY <1>1, FS_Interval
<1>3. Places(q, p) \subseteq 1..Len(q)
  BY DEF Places
<1>4. IsFiniteSet(Places(q, p))
  BY <1>2, <1>3, FS_Subset
<1>5. Cardinality(Places(q, p)) \in Nat
  BY <1>4, FS_CardinalityType
<1>6. ASSUME \A k \in 1..Len(q) : q[k] # p PROVE Cardinality(Places(q, p)) = 0
  <2>1. Places(q, p) = {}
    BY <1>6 DEF Places
  <2> QED
    BY <2>1, FS_EmptySet
<1>7. ASSUME NEW e \in S
      PROVE  Cardinality(Places(Append(q, e), p))
                = IF e = p THEN Cardinality(Places(q, p)) + 1 ELSE Cardinality(Places(q, p))
  <2>1. /\ Len(Append(q, e)) = Len(q) + 1
        /\ \A i \in 1..Len(q) : Append(q, e)[i] = q[i]
        /\ Append(q, e)[Len(q) + 1] = e
    BY AppendFacts
  <2>2. 1..(Len(q) + 1) = (1..Len(q)) \cup {Len(q) + 1} /\ Len(q) + 1 \notin 1..Len(q)
    BY <1>1
  <2>3. CASE e = p
    <3>1. Places(Append(q, e), p) = Places(q, p) \cup {Len(q) + 1}
      BY <2>1, <2>2, <2>3 DEF Places
    <3>2. Len(q) + 1 \notin Places(q, p)
      BY <2>2, <1>3
    <3> QED
      BY <3>1, <3>2, <2>3, <1>4, FS_AddElement
  <2>4. CASE e # p
    <3>1. Places(Append(q, e), p) = Places(q, p)
      BY <2>1, <2>2, <2>4 DEF Places
    <3> QED
      BY <3>1, <2>4
  <2> QED
    BY <2>3, <2>4
<1> QED
  BY <1>4, <1>5, <1>6, <1>7

\* One writer more or one less among those that copy or count.
LEMMA OneMore ==
  ASSUME NEW A, IsFiniteSet(A), NEW w, w \notin A
  PROVE  IsFiniteSet(A \cup {w}) /\ Cardinality(A \cup {w}) = Cardinality(A) + 1
BY FS_AddElement

LEMMA OneLess ==
  ASSUME NEW A, IsFiniteSet(A), NEW w \in A
  PROVE  /\ IsFiniteSet(A \ {w}) /\ Cardinality(A) > 0
         /\ Cardinality(A \ {w}) = Cardinality(A) - 1
<1>1. IsFiniteSet(A \ {w}) /\ Cardinality(A \ {w}) = Cardinality(A) - 1
  BY FS_RemoveElement
<1>2. Cardinality(A) \in Nat /\ Cardinality(A \ {w}) \in Nat
  BY <1>1, FS_CardinalityType
<1> QED
  BY <1>1, <1>2

\* The initial state has the invariant.
LEMMA InitIInv == Init => IInv
<1> SUFFICES ASSUME Init PROVE IInv
  OBVIOUS
<1> USE RxAssumption DEF Init
<1>0. <<>> \in Seq(Packet) /\ Len(<<>>) = 0
  BY EmptySeq
<1>1. TypeOK
  BY <1>0 DEF TypeOK
<1>2. Progress
  BY DEF Progress
<1>3. TrailInv
  BY <1>0 DEF TrailInv, Trail, NoGap, SuccessMeansAll
<1>4. TriesInv
  <2> SUFFICES ASSUME NEW w \in Writers
               PROVE  /\ \A k \in 1..Len(handed[w]) : handed[w][k].batch <= batch[w]
                      /\ \A n \in Nat : Copies(w, Current(w, n)) <= try[w]
    BY DEF TriesInv
  <2>1. \A p : Copies(w, p) = Cardinality(Places(<<>>, p))
    BY DEF Copies, Places
  <2>2. \A p : Copies(w, p) = 0
    <3> TAKE p
    <3>1. Cardinality(Places(<<>>, p)) = 0
      <4>1. \A k \in 1..Len(<<>>) : <<>>[k] # p
        BY <1>0
      <4> QED
        BY <4>1, <1>0, PlacesFacts
    <3> QED
      BY <2>1, <3>1
  <2> QED
    BY <1>0, <2>2
<1>5. SkbInv /\ CountInv
  <2>1. Copying = {} /\ Counting = {}
    BY DEF Copying, Counting
  <2>2. IsFiniteSet({}) /\ Cardinality({}) = 0
    BY FS_EmptySet
  <2>3. SkbInv
    BY <2>1, <2>2 DEF SkbInv, NoSkbLeak, Copying
  <2>4. Uncounted = 0
    BY <2>1, <2>2 DEF Uncounted, Counting
  <2>5. CountInv
    <3>1. \A w \in Writers : wpc[w] # "store"
      OBVIOUS
    <3> QED
      BY <2>1, <2>2, <2>4, <3>1 DEF CountInv
  <2> QED
    BY <2>3, <2>5
<1> QED
  BY <1>1, <1>2, <1>3, <1>4, <1>5 DEF IInv

-----------------------------------------------------------------------------
\* Who copies and who counts after writer w went to label l.
LEMMA GotoSets ==
  ASSUME TypeOK, NEW w \in Writers, NEW l, Goto(w, l)
  PROVE  /\ Copying' = IF l = "copy" THEN Copying \cup {w} ELSE Copying \ {w}
         /\ Counting' = IF l \in {"load", "store"} THEN Counting \cup {w} ELSE Counting \ {w}
         /\ w \in Copying <=> wpc[w] = "copy"
         /\ w \in Counting <=> wpc[w] \in {"load", "store"}
BY DEF Goto, TypeOK, Copying, Counting

\* How many copy then.
LEMMA GotoCopying ==
  ASSUME TypeOK, SkbInv, NEW w \in Writers, NEW l, Goto(w, l)
  PROVE  /\ IsFiniteSet(Copying') /\ skbs = Cardinality(Copying) /\ skbs \in Nat
         /\ wpc[w] = "copy" => skbs > 0
         /\ Cardinality(Copying') =
                IF l = "copy" THEN IF wpc[w] = "copy" THEN skbs ELSE skbs + 1
                              ELSE IF wpc[w] = "copy" THEN skbs - 1 ELSE skbs
<1>1. IsFiniteSet(Copying) /\ skbs = Cardinality(Copying)
  BY DEF SkbInv, NoSkbLeak, Copying
<1> skbs \in Nat
  BY DEF TypeOK
<1>2. CASE w \in Copying /\ l = "copy"
  <2>1. Copying' = Copying
    BY <1>2, GotoSets
  <2> QED
    BY <2>1, <1>1, <1>2, GotoSets, OneLess
<1>3. CASE w \in Copying /\ l # "copy"
  BY <1>3, <1>1, GotoSets, OneLess
<1>4. CASE w \notin Copying /\ l = "copy"
  BY <1>4, <1>1, GotoSets, OneMore
<1>5. CASE w \notin Copying /\ l # "copy"
  <2>1. Copying' = Copying
    BY <1>5, GotoSets
  <2> QED
    BY <2>1, <1>1, <1>5, GotoSets
<1> QED
  BY <1>2, <1>3, <1>4, <1>5

\* How many count then.
LEMMA GotoCounting ==
  ASSUME TypeOK, CountInv, NEW w \in Writers, NEW l, Goto(w, l)
  PROVE  /\ IsFiniteSet(Counting') /\ Uncounted \in Nat
         /\ wpc[w] \in {"load", "store"} => Uncounted > 0
         /\ Uncounted' =
                IF l \in {"load", "store"}
                THEN IF wpc[w] \in {"load", "store"} THEN Uncounted ELSE Uncounted + 1
                ELSE IF wpc[w] \in {"load", "store"} THEN Uncounted - 1 ELSE Uncounted
<1>1. IsFiniteSet(Counting) /\ Uncounted = Cardinality(Counting)
  BY DEF CountInv, Uncounted, Counting
<1>2. Uncounted \in Nat
  BY <1>1, FS_CardinalityType
<1>3. Uncounted' = Cardinality(Counting')
  BY DEF Uncounted, Counting
<1>4. CASE w \in Counting /\ l \in {"load", "store"}
  <2>1. Counting' = Counting
    BY <1>4, GotoSets
  <2> QED
    BY <2>1, <1>1, <1>2, <1>3, <1>4, GotoSets, OneLess
<1>5. CASE w \in Counting /\ l \notin {"load", "store"}
  BY <1>1, <1>2, <1>3, <1>5, GotoSets, OneLess
<1>6. CASE w \notin Counting /\ l \in {"load", "store"}
  BY <1>1, <1>2, <1>3, <1>6, GotoSets, OneMore
<1>7. CASE w \notin Counting /\ l \notin {"load", "store"}
  <2>1. Counting' = Counting
    BY <1>7, GotoSets
  <2> QED
    BY <2>1, <1>1, <1>2, <1>3, <1>7, GotoSets
<1> QED
  BY <1>4, <1>5, <1>6, <1>7

\* The packet that is handed over next is one of the batch.
LEMMA HandedPacket ==
  ASSUME TypeOK, Progress, NEW w \in Writers, wpc[w] \in {"copy", "tap"}, ret[w] < count[w]
  PROVE  [batch |-> batch[w], n |-> ret[w] + 1] \in Packet
<1>1. batch[w] > 0
  BY DEF Progress
<1>2. batch[w] \in 0..MaxCalls /\ ret[w] \in 0..MaxCount /\ count[w] \in 0..MaxCount
  BY DEF TypeOK
<1>3. batch[w] \in 1..MaxCalls /\ ret[w] + 1 \in 1..MaxCount
  BY RxAssumption, <1>1, <1>2
<1> QED
  BY <1>3 DEF Packet


\* Every step keeps the types.
LEMMA TypeStep ==
  ASSUME IInv, [Next]_vars
  PROVE  TypeOK'
<1> USE RxAssumption DEF IInv, call, stats, history
<1>1. ASSUME NEW w \in Writers, WriteBatch(w) PROVE TypeOK'
  BY <1>1 DEF WriteBatch, WriteEnter, Goto, TypeOK, Progress
<1>2. ASSUME NEW w \in Writers, WriteAgain(w) PROVE TypeOK'
  BY <1>2 DEF WriteAgain, WriteEnter, Goto, TypeOK, Progress
<1>3. ASSUME NEW w \in Writers, HeaderAccept(w) PROVE TypeOK'
  BY <1>3 DEF HeaderAccept, Goto, TypeOK, Progress
<1>4. ASSUME NEW w \in Writers, HeaderRefuse(w) PROVE TypeOK'
  BY <1>4 DEF HeaderRefuse, Fail, Return, Goto, TypeOK, Progress
<1>5. ASSUME NEW w \in Writers, AllocSkb(w) PROVE TypeOK'
  BY <1>5 DEF AllocSkb, Goto, TypeOK, Progress
<1>6. ASSUME NEW w \in Writers, AllocFails(w) PROVE TypeOK'
  BY <1>6 DEF AllocFails, Fail, Return, Goto, TypeOK, Progress
<1>7. ASSUME NEW w \in Writers, CopyFaults(w) PROVE TypeOK'
  <2>1. skbs' \in Nat
    BY <1>7, GotoCopying DEF CopyFaults, Fail, Return
  <2> QED
    BY <2>1, <1>7 DEF CopyFaults, Fail, Return, Goto, TypeOK
<1>8. ASSUME NEW w \in Writers, HandSkb(w) PROVE TypeOK'
  <2>1. [batch |-> batch[w], n |-> ret[w] + 1] \in Packet
    BY <1>8, HandedPacket DEF HandSkb, HandOver, Goto, Progress
  <2>2. handed' \in [Writers -> Seq(Packet)]
    BY <2>1, <1>8, AppendFacts DEF HandSkb, HandOver, Goto, TypeOK
  <2>3. skbs' \in Nat
    BY <1>8, GotoCopying DEF HandSkb, HandOver
  <2> QED
    BY <2>2, <2>3, <1>8 DEF HandSkb, HandOver, Goto, TypeOK, Progress
<1>9. ASSUME NEW w \in Writers, CountLoad(w) PROVE TypeOK'
  BY <1>9 DEF CountLoad, Goto, TypeOK, Progress
<1>10. ASSUME NEW w \in Writers, CountStore(w) PROVE TypeOK'
  BY <1>10 DEF CountStore, NextPacket, Goto, TypeOK, Progress
<1>11. ASSUME NEW w \in Writers, WriteFinish(w) PROVE TypeOK'
  BY <1>11 DEF WriteFinish, Return, Goto, TypeOK, Progress
<1>12. ASSUME NEW w \in Writers, WriteFinishFaults(w) PROVE TypeOK'
  BY <1>12 DEF WriteFinishFaults, Fail, Return, Goto, TypeOK, Progress
<1>13. ASSUME NEW w \in Writers, TapWrite(w) PROVE TypeOK'
  <2>1. [batch |-> batch[w], n |-> ret[w] + 1] \in Packet
    BY <1>13, HandedPacket DEF TapWrite, HandOver, Progress
  <2>2. handed' \in [Writers -> Seq(Packet)]
    BY <2>1, <1>13, AppendFacts DEF TapWrite, HandOver, TypeOK
  <2> QED
    BY <2>2, <1>13 DEF TapWrite, HandOver, TypeOK, Progress
<1>14. ASSUME NEW w \in Writers, TapWriteFails(w) PROVE TypeOK'
  BY <1>14 DEF TapWriteFails, Fail, Return, Goto, TypeOK, Progress
<1>15. ASSUME NEW w \in Writers, TapFinish(w) PROVE TypeOK'
  BY <1>15 DEF TapFinish, Return, Goto, TypeOK, Progress
<1>16. CASE UNCHANGED vars
  BY <1>16 DEF vars, TypeOK
<1> QED
  BY <1>1, <1>2, <1>3, <1>4, <1>5, <1>6, <1>7, <1>8,
     <1>9, <1>10, <1>11, <1>12, <1>13, <1>14, <1>15, <1>16 DEF Next, Driver, Tap

\* Every step keeps the position of each call.
LEMMA ProgressStep ==
  ASSUME IInv, [Next]_vars
  PROVE  Progress'
<1> USE RxAssumption DEF IInv, call, stats, history
<1>1. ASSUME NEW w \in Writers, WriteBatch(w) PROVE Progress'
  BY <1>1 DEF WriteBatch, WriteEnter, Goto, Progress, TypeOK
<1>2. ASSUME NEW w \in Writers, WriteAgain(w) PROVE Progress'
  BY <1>2 DEF WriteAgain, WriteEnter, Goto, Progress, TypeOK
<1>3. ASSUME NEW w \in Writers, HeaderAccept(w) PROVE Progress'
  BY <1>3 DEF HeaderAccept, Goto, Progress, TypeOK
<1>4. ASSUME NEW w \in Writers, HeaderRefuse(w) PROVE Progress'
  BY <1>4 DEF HeaderRefuse, Fail, Return, Goto, Progress, TypeOK
<1>5. ASSUME NEW w \in Writers, AllocSkb(w) PROVE Progress'
  BY <1>5 DEF AllocSkb, Goto, Progress, TypeOK
<1>6. ASSUME NEW w \in Writers, AllocFails(w) PROVE Progress'
  BY <1>6 DEF AllocFails, Fail, Return, Goto, Progress, TypeOK
<1>7. ASSUME NEW w \in Writers, CopyFaults(w) PROVE Progress'
  BY <1>7 DEF CopyFaults, Fail, Return, Goto, Progress, TypeOK
<1>8. ASSUME NEW w \in Writers, HandSkb(w) PROVE Progress'
  BY <1>8 DEF HandSkb, HandOver, Goto, Progress, TypeOK
<1>9. ASSUME NEW w \in Writers, CountLoad(w) PROVE Progress'
  BY <1>9 DEF CountLoad, Goto, Progress, TypeOK
<1>10. ASSUME NEW w \in Writers, CountStore(w) PROVE Progress'
  <2>1. ret[w] < count[w] /\ ret[w] \in Nat /\ count[w] \in Nat
    BY <1>10 DEF CountStore, NextPacket, Goto, Progress, TypeOK
  <2>2. CASE ret[w] + 1 < count[w]
    BY <1>10, <2>1, <2>2 DEF CountStore, NextPacket, Goto, Progress, TypeOK
  <2>3. CASE ~(ret[w] + 1 < count[w])
    <3>1. ret[w] + 1 = count[w]
      BY <2>1, <2>3
    <3> QED
      BY <1>10, <2>3, <3>1 DEF CountStore, NextPacket, Goto, Progress, TypeOK
  <2> QED
    BY <2>2, <2>3
<1>11. ASSUME NEW w \in Writers, WriteFinish(w) PROVE Progress'
  BY <1>11 DEF WriteFinish, Return, Goto, Progress, TypeOK
<1>12. ASSUME NEW w \in Writers, WriteFinishFaults(w) PROVE Progress'
  BY <1>12 DEF WriteFinishFaults, Fail, Return, Goto, Progress, TypeOK
<1>13. ASSUME NEW w \in Writers, TapWrite(w) PROVE Progress'
  BY <1>13 DEF TapWrite, HandOver, Progress, TypeOK
<1>14. ASSUME NEW w \in Writers, TapWriteFails(w) PROVE Progress'
  BY <1>14 DEF TapWriteFails, Fail, Return, Goto, Progress, TypeOK
<1>15. ASSUME NEW w \in Writers, TapFinish(w) PROVE Progress'
  BY <1>15 DEF TapFinish, Return, Goto, Progress, TypeOK
<1>16. CASE UNCHANGED vars
  BY <1>16 DEF vars, Progress, TypeOK
<1> QED
  BY <1>1, <1>2, <1>3, <1>4, <1>5, <1>6, <1>7, <1>8,
     <1>9, <1>10, <1>11, <1>12, <1>13, <1>14, <1>15, <1>16 DEF Next, Driver, Tap

\* Every step keeps the sk_buffs with the writers that copy.
LEMMA SkbStep ==
  ASSUME IInv, [Next]_vars
  PROVE  SkbInv'
<1> USE RxAssumption DEF IInv, call, stats, history
<1>1. ASSUME NEW w \in Writers, WriteBatch(w) PROVE SkbInv'
  <2>1. IsFiniteSet(Copying') /\ skbs' = Cardinality(Copying')
    BY <1>1, GotoCopying DEF WriteBatch, WriteEnter
  <2> QED
    BY <2>1 DEF SkbInv, NoSkbLeak, Copying
<1>2. ASSUME NEW w \in Writers, WriteAgain(w) PROVE SkbInv'
  <2>1. IsFiniteSet(Copying') /\ skbs' = Cardinality(Copying')
    BY <1>2, GotoCopying DEF WriteAgain, WriteEnter
  <2> QED
    BY <2>1 DEF SkbInv, NoSkbLeak, Copying
<1>3. ASSUME NEW w \in Writers, HeaderAccept(w) PROVE SkbInv'
  <2>1. IsFiniteSet(Copying') /\ skbs' = Cardinality(Copying')
    BY <1>3, GotoCopying DEF HeaderAccept
  <2> QED
    BY <2>1 DEF SkbInv, NoSkbLeak, Copying
<1>4. ASSUME NEW w \in Writers, HeaderRefuse(w) PROVE SkbInv'
  <2>1. IsFiniteSet(Copying') /\ skbs' = Cardinality(Copying')
    BY <1>4, GotoCopying DEF HeaderRefuse, Fail, Return
  <2> QED
    BY <2>1 DEF SkbInv, NoSkbLeak, Copying
<1>5. ASSUME NEW w \in Writers, AllocSkb(w) PROVE SkbInv'
  <2>1. IsFiniteSet(Copying') /\ skbs' = Cardinality(Copying')
    BY <1>5, GotoCopying DEF AllocSkb
  <2> QED
    BY <2>1 DEF SkbInv, NoSkbLeak, Copying
<1>6. ASSUME NEW w \in Writers, AllocFails(w) PROVE SkbInv'
  <2>1. IsFiniteSet(Copying') /\ skbs' = Cardinality(Copying')
    BY <1>6, GotoCopying DEF AllocFails, Fail, Return
  <2> QED
    BY <2>1 DEF SkbInv, NoSkbLeak, Copying
<1>7. ASSUME NEW w \in Writers, CopyFaults(w) PROVE SkbInv'
  <2>1. IsFiniteSet(Copying') /\ skbs' = Cardinality(Copying')
    BY <1>7, GotoCopying DEF CopyFaults, Fail, Return
  <2> QED
    BY <2>1 DEF SkbInv, NoSkbLeak, Copying
<1>8. ASSUME NEW w \in Writers, HandSkb(w) PROVE SkbInv'
  <2>1. IsFiniteSet(Copying') /\ skbs' = Cardinality(Copying')
    BY <1>8, GotoCopying DEF HandSkb, HandOver
  <2> QED
    BY <2>1 DEF SkbInv, NoSkbLeak, Copying
<1>9. ASSUME NEW w \in Writers, CountLoad(w) PROVE SkbInv'
  <2>1. IsFiniteSet(Copying') /\ skbs' = Cardinality(Copying')
    BY <1>9, GotoCopying DEF CountLoad
  <2> QED
    BY <2>1 DEF SkbInv, NoSkbLeak, Copying
<1>10. ASSUME NEW w \in Writers, CountStore(w) PROVE SkbInv'
  <2>1. IsFiniteSet(Copying') /\ skbs' = Cardinality(Copying')
    BY <1>10, GotoCopying DEF CountStore, NextPacket
  <2> QED
    BY <2>1 DEF SkbInv, NoSkbLeak, Copying
<1>11. ASSUME NEW w \in Writers, WriteFinish(w) PROVE SkbInv'
  <2>1. IsFiniteSet(Copying') /\ skbs' = Cardinality(Copying')
    BY <1>11, GotoCopying DEF WriteFinish, Return
  <2> QED
    BY <2>1 DEF SkbInv, NoSkbLeak, Copying
<1>12. ASSUME NEW w \in Writers, WriteFinishFaults(w) PROVE SkbInv'
  <2>1. IsFiniteSet(Copying') /\ skbs' = Cardinality(Copying')
    BY <1>12, GotoCopying DEF WriteFinishFaults, Fail, Return
  <2> QED
    BY <2>1 DEF SkbInv, NoSkbLeak, Copying
<1>13. ASSUME NEW w \in Writers, TapWrite(w) PROVE SkbInv'
  BY <1>13 DEF TapWrite, HandOver, SkbInv, NoSkbLeak, Copying
<1>14. ASSUME NEW w \in Writers, TapWriteFails(w) PROVE SkbInv'
  <2>1. IsFiniteSet(Copying') /\ skbs' = Cardinality(Copying')
    BY <1>14, GotoCopying DEF TapWriteFails, Fail, Return
  <2> QED
    BY <2>1 DEF SkbInv, NoSkbLeak, Copying
<1>15. ASSUME NEW w \in Writers, TapFinish(w) PROVE SkbInv'
  <2>1. IsFiniteSet(Copying') /\ skbs' = Cardinality(Copying')
    BY <1>15, GotoCopying DEF TapFinish, Return
  <2> QED
    BY <2>1 DEF SkbInv, NoSkbLeak, Copying
<1>16. CASE UNCHANGED vars
  BY <1>16 DEF vars, SkbInv, NoSkbLeak, Copying
<1> QED
  BY <1>1, <1>2, <1>3, <1>4, <1>5, <1>6, <1>7, <1>8,
     <1>9, <1>10, <1>11, <1>12, <1>13, <1>14, <1>15, <1>16 DEF Next, Driver, Tap

\* A step that hands nothing over and ends no call well keeps the trail.
LEMMA TrailKept ==
  ASSUME TrailInv, UNCHANGED handed,
         \A v \in Writers : wpc'[v] # "idle" /\ Given(v)' > 0 =>
             wpc[v] # "idle" /\ batch'[v] = batch[v] /\ Given(v)' = Given(v),
         \A v \in Writers : status'[v] = "ok" =>
             status[v] = "ok" /\ told'[v] = told[v] /\ count'[v] = count[v]
                /\ batch'[v] = batch[v]
  PROVE  TrailInv'
<1>1. Trail'
  BY DEF TrailInv, Trail, Last
<1>2. NoGap'
  BY DEF TrailInv, NoGap
<1>3. SuccessMeansAll'
  BY DEF TrailInv, SuccessMeansAll
<1> QED
  BY <1>1, <1>2, <1>3 DEF TrailInv

\* A call that ends well after its last packet keeps it.
LEMMA TrailDone ==
  ASSUME TypeOK, Progress, TrailInv, NEW w \in Writers,
         wpc[w] \in {"finish", "tap"}, ret[w] = count[w],
         told' = [told EXCEPT ![w] = count[w]], Return(w, "ok"),
         UNCHANGED <<ret, count, batch, handed>>
  PROVE  TrailInv'
<1>1. Trail'
  BY DEF TrailInv, Trail, Last, Given, Return, Goto, TypeOK
<1>2. NoGap'
  BY DEF TrailInv, NoGap
<1>3. handed[w] # <<>> /\ Last(w) = [batch |-> batch[w], n |-> count[w]]
  <2>1. Given(w) = count[w] /\ count[w] > 0
    BY DEF Given, Progress
  <2> QED
    BY <2>1 DEF TrailInv, Trail
<1>4. SuccessMeansAll'
  BY <1>3 DEF TrailInv, SuccessMeansAll, Return, Goto, TypeOK, Last
<1> QED
  BY <1>1, <1>2, <1>4 DEF TrailInv

\* The next packet of the batch prolongs the trail.
LEMMA TrailGrows ==
  ASSUME TypeOK, TrailInv, NEW w \in Writers, HandOver(w),
         wpc[w] # "idle", status[w] = "none", Given(w) = ret[w], Given(w)' = ret[w] + 1,
         [batch |-> batch[w], n |-> ret[w] + 1] \in Packet,
         \A v \in Writers \ {w} : wpc'[v] = wpc[v] /\ Given(v)' = Given(v),
         UNCHANGED <<batch, told, count, status>>
  PROVE  TrailInv'
<1> DEFINE p == [batch |-> batch[w], n |-> ret[w] + 1]
<1>1. /\ handed[w] \in Seq(Packet)
      /\ handed'[w] = Append(handed[w], p)
      /\ \A v \in Writers \ {w} : handed'[v] = handed[v]
  BY DEF HandOver, TypeOK
<1>2. /\ handed'[w] # <<>> /\ Len(handed[w]) \in Nat
      /\ Len(handed'[w]) = Len(handed[w]) + 1
      /\ \A k \in 1..Len(handed[w]) : handed'[w][k] = handed[w][k]
      /\ handed'[w][Len(handed[w]) + 1] = p
  <2> HIDE DEF p
  <2>1. p \in Packet
    BY DEF p
  <2> QED
    BY <1>1, <2>1, AppendFacts
<1>3. Trail'
  BY <1>1, <1>2 DEF TrailInv, Trail, Last
<1>4. NoGap'
  <2> SUFFICES ASSUME NEW v \in Writers, NEW k \in 1..Len(handed'[v])
               PROVE  \/ handed'[v][k].n = 1
                      \/ /\ k > 1
                         /\ handed'[v][k - 1] = [batch |-> handed'[v][k].batch,
                                                 n |-> handed'[v][k].n - 1]
    BY DEF NoGap
  <2>1. CASE v # w
    BY <2>1, <1>1 DEF TrailInv, NoGap
  <2>2. CASE v = w /\ k # Len(handed[w]) + 1
    <3>1. k \in 1..Len(handed[w]) /\ (k > 1 => k - 1 \in 1..Len(handed[w]))
      BY <2>2, <1>2
    <3>2. handed'[w][k] = handed[w][k] /\ (k > 1 => handed'[w][k - 1] = handed[w][k - 1])
      BY <3>1, <1>2
    <3> QED
      BY <2>2, <3>1, <3>2 DEF TrailInv, NoGap
  <2>3. CASE v = w /\ k = Len(handed[w]) + 1
    <3>1. CASE ret[w] = 0
      BY <2>3, <3>1, <1>2
    <3>2. CASE ret[w] # 0
      <4>1. ret[w] \in Nat /\ ret[w] > 0
        BY <3>2 DEF TypeOK
      <4>2. handed[w] # <<>> /\ Last(w) = [batch |-> batch[w], n |-> ret[w]]
        BY <4>1 DEF TrailInv, Trail
      <4>3. Len(handed[w]) > 0
        BY <1>1, <4>2, LastFacts
      <4>4. k > 1 /\ k - 1 = Len(handed[w]) /\ k - 1 \in 1..Len(handed[w])
        BY <2>3, <4>3, <1>2
      <4>5. handed'[w][k - 1] = [batch |-> batch[w], n |-> ret[w]]
        BY <4>2, <4>4, <1>2 DEF Last
      <4>6. handed'[w][k] = p /\ p.batch = batch[w] /\ p.n - 1 = ret[w]
        BY <2>3, <1>2, <4>1
      <4> QED
        BY <2>3, <4>4, <4>5, <4>6
    <3> QED
      BY <3>1, <3>2
  <2> QED
    BY <2>1, <2>2, <2>3
<1>5. SuccessMeansAll'
  BY <1>1 DEF TrailInv, SuccessMeansAll
<1> QED
  BY <1>3, <1>4, <1>5 DEF TrailInv

\* Every step keeps the trail.
LEMMA TrailStep ==
  ASSUME IInv, [Next]_vars
  PROVE  TrailInv'
<1> USE RxAssumption DEF IInv, call, stats, history
<1>1. ASSUME NEW w \in Writers, WriteBatch(w) PROVE TrailInv'
  BY <1>1, TrailKept DEF WriteBatch, WriteEnter, Goto, Given, TypeOK
<1>2. ASSUME NEW w \in Writers, WriteAgain(w) PROVE TrailInv'
  BY <1>2, TrailKept DEF WriteAgain, WriteEnter, Goto, Given, TypeOK
<1>3. ASSUME NEW w \in Writers, HeaderAccept(w) PROVE TrailInv'
  BY <1>3, TrailKept DEF HeaderAccept, Goto, Given, TypeOK
<1>4. ASSUME NEW w \in Writers, HeaderRefuse(w) PROVE TrailInv'
  BY <1>4, TrailKept DEF HeaderRefuse, Fail, Return, Goto, Given, TypeOK
<1>5. ASSUME NEW w \in Writers, AllocSkb(w) PROVE TrailInv'
  BY <1>5, TrailKept DEF AllocSkb, Goto, Given, TypeOK
<1>6. ASSUME NEW w \in Writers, AllocFails(w) PROVE TrailInv'
  BY <1>6, TrailKept DEF AllocFails, Fail, Return, Goto, Given, TypeOK
<1>7. ASSUME NEW w \in Writers, CopyFaults(w) PROVE TrailInv'
  BY <1>7, TrailKept DEF CopyFaults, Fail, Return, Goto, Given, TypeOK
<1>8. ASSUME NEW w \in Writers, HandSkb(w) PROVE TrailInv'
  <2>1. [batch |-> batch[w], n |-> ret[w] + 1] \in Packet /\ status[w] = "none"
    BY <1>8, HandedPacket DEF HandSkb, HandOver, Goto, Progress
  <2> QED
    BY <1>8, <2>1, TrailGrows DEF HandSkb, Goto, Given, TypeOK
<1>9. ASSUME NEW w \in Writers, CountLoad(w) PROVE TrailInv'
  BY <1>9, TrailKept DEF CountLoad, Goto, Given, TypeOK
<1>10. ASSUME NEW w \in Writers, CountStore(w) PROVE TrailInv'
  BY <1>10, TrailKept DEF CountStore, NextPacket, Goto, Given, TypeOK
<1>11. ASSUME NEW w \in Writers, WriteFinish(w) PROVE TrailInv'
  <2>1. wpc[w] \in {"finish", "tap"} /\ ret[w] = count[w]
    BY <1>11 DEF WriteFinish, Return, Goto, Progress
  <2> QED
    BY <1>11, <2>1, TrailDone DEF WriteFinish
<1>12. ASSUME NEW w \in Writers, WriteFinishFaults(w) PROVE TrailInv'
  BY <1>12, TrailKept DEF WriteFinishFaults, Fail, Return, Goto, Given, TypeOK
<1>13. ASSUME NEW w \in Writers, TapWrite(w) PROVE TrailInv'
  <2>1. [batch |-> batch[w], n |-> ret[w] + 1] \in Packet /\ status[w] = "none"
    BY <1>13, HandedPacket DEF TapWrite, HandOver, Progress
  <2> QED
    BY <1>13, <2>1, TrailGrows DEF TapWrite, Given, TypeOK
<1>14. ASSUME NEW w \in Writers, TapWriteFails(w) PROVE TrailInv'
  BY <1>14, TrailKept DEF TapWriteFails, Fail, Return, Goto, Given, TypeOK
<1>15. ASSUME NEW w \in Writers, TapFinish(w) PROVE TrailInv'
  <2>1. wpc[w] \in {"finish", "tap"} /\ ret[w] = count[w]
    BY <1>15 DEF TapFinish, Return, Goto, Progress
  <2> QED
    BY <1>15, <2>1, TrailDone DEF TapFinish
<1>16. CASE UNCHANGED vars
  BY <1>16, TrailKept DEF vars, Given
<1> QED
  BY <1>1, <1>2, <1>3, <1>4, <1>5, <1>6, <1>7, <1>8,
     <1>9, <1>10, <1>11, <1>12, <1>13, <1>14, <1>15, <1>16 DEF Next, Driver, Tap

\* How many copies of each packet a writer handed over.
LEMMA CopiesFacts ==
  ASSUME TypeOK, NEW w \in Writers, NEW p
  PROVE  Copies(w, p) = Cardinality(Places(handed[w], p)) /\ Copies(w, p) \in Nat
<1>1. Copies(w, p) = Cardinality(Places(handed[w], p))
  BY DEF Copies, Places
<1>2. handed[w] \in Seq(Packet)
  BY DEF TypeOK
<1> QED
  BY <1>1, <1>2, PlacesFacts

\* A step that hands nothing over within a try keeps the copies of v.
LEMMA TriesKept ==
  ASSUME TriesInv, NEW v \in Writers,
         handed'[v] = handed[v], batch'[v] = batch[v], try'[v] = try[v],
         wpc'[v] # "idle" => wpc[v] # "idle" /\ Given(v)' = Given(v)
  PROVE  /\ \A k \in 1..Len(handed'[v]) : handed'[v][k].batch <= batch'[v]
         /\ \A n \in Nat :
             /\ Copies(v, Current(v, n))' <= try'[v]
             /\ wpc'[v] # "idle" /\ n > Given(v)' => Copies(v, Current(v, n))' < try'[v]
<1>1. \A n \in Nat : Copies(v, Current(v, n))' = Copies(v, Current(v, n))
  BY DEF Copies, Current
<1> QED
  BY <1>1 DEF TriesInv

\* Nothing of a new batch is there, and another try may deliver all again.
LEMMA TriesBegin ==
  ASSUME TypeOK, TriesInv, NEW w \in Writers, handed' = handed, ret'[w] = 0,
         wpc'[w] \in {"enter", "tap"},
         \/ batch'[w] = batch[w] + 1 /\ try'[w] = 1
         \/ batch'[w] = batch[w] /\ try'[w] = try[w] + 1
  PROVE  /\ \A k \in 1..Len(handed'[w]) : handed'[w][k].batch <= batch'[w]
         /\ \A n \in Nat :
             /\ Copies(w, Current(w, n))' <= try'[w]
             /\ wpc'[w] # "idle" /\ n > Given(w)' => Copies(w, Current(w, n))' < try'[w]
<1> batch[w] \in Nat /\ try[w] \in Nat /\ handed[w] \in Seq(Packet)
  BY RxAssumption DEF TypeOK
<1>1. \A k \in 1..Len(handed[w]) : handed[w][k].batch \in Nat /\ handed[w][k].batch <= batch[w]
  <2>1. \A k \in 1..Len(handed[w]) : handed[w][k] \in Packet
    BY ElementOfSeq
  <2> QED
    BY <2>1, RxAssumption DEF Packet, TriesInv
<1>2. ASSUME NEW n \in Nat PROVE Copies(w, Current(w, n))' < try'[w] /\ try'[w] \in Nat
  <2>1. Copies(w, Current(w, n))' = Cardinality(Places(handed[w], Current(w, n)'))
    BY DEF Copies, Places
  <2>2. CASE batch'[w] = batch[w] + 1 /\ try'[w] = 1
    <3>1. \A k \in 1..Len(handed[w]) : handed[w][k] # Current(w, n)'
      BY <2>2, <1>1 DEF Current
    <3>2. Cardinality(Places(handed[w], Current(w, n)')) = 0
      BY <3>1, PlacesFacts
    <3> QED
      BY <2>1, <2>2, <3>2
  <2>3. CASE batch'[w] = batch[w] /\ try'[w] = try[w] + 1
    <3>1. Copies(w, Current(w, n))' = Copies(w, Current(w, n))
      BY <2>3 DEF Copies, Current
    <3>2. Copies(w, Current(w, n)) \in Nat /\ Copies(w, Current(w, n)) <= try[w]
      BY CopiesFacts DEF TriesInv
    <3> QED
      BY <2>3, <3>1, <3>2
  <2> QED
    BY <2>2, <2>3
<1>3. \A n \in Nat : Copies(w, Current(w, n))' \in Nat
  <2> TAKE n \in Nat
  <2>1. Copies(w, Current(w, n))' = Cardinality(Places(handed[w], Current(w, n)'))
    BY DEF Copies, Places
  <2> QED
    BY <2>1, PlacesFacts
<1>4. \A k \in 1..Len(handed'[w]) : handed'[w][k].batch <= batch'[w]
  BY <1>1
<1>5. ASSUME NEW n \in Nat PROVE Copies(w, Current(w, n))' <= try'[w]
  <2>1. Copies(w, Current(w, n))' < try'[w] /\ try'[w] \in Nat
    BY <1>2
  <2>2. Copies(w, Current(w, n))' \in Nat
    BY <1>3
  <2> QED
    BY <2>1, <2>2
<1>6. ASSUME NEW n \in Nat PROVE Copies(w, Current(w, n))' < try'[w]
  BY <1>2
<1> QED
  BY <1>4, <1>5, <1>6

\* The packet that is handed over is new to this try.
LEMMA TriesHand ==
  ASSUME TypeOK, Progress, TriesInv, NEW w \in Writers, HandOver(w),
         wpc[w] \in {"copy", "tap"}, wpc'[w] # "idle",
         ret[w] < count[w], Given(w)' = ret[w] + 1, batch' = batch, try' = try
  PROVE  /\ \A k \in 1..Len(handed'[w]) : handed'[w][k].batch <= batch'[w]
         /\ \A n \in Nat :
             /\ Copies(w, Current(w, n))' <= try'[w]
             /\ wpc'[w] # "idle" /\ n > Given(w)' => Copies(w, Current(w, n))' < try'[w]
<1> DEFINE p == [batch |-> batch[w], n |-> ret[w] + 1]
<1> batch[w] \in Nat /\ try[w] \in Nat /\ ret[w] \in Nat /\ handed[w] \in Seq(Packet)
  BY RxAssumption DEF TypeOK
<1>1. p \in Packet /\ p.batch = batch[w] /\ p = Current(w, ret[w] + 1)
  BY HandedPacket DEF Current
<1>2. handed'[w] = Append(handed[w], p)
  BY DEF HandOver, TypeOK
<1> HIDE DEF p
<1>3. /\ Len(handed[w]) \in Nat /\ Len(handed'[w]) = Len(handed[w]) + 1
      /\ \A k \in 1..Len(handed[w]) : handed'[w][k] = handed[w][k]
      /\ handed'[w][Len(handed[w]) + 1] = p
  BY <1>1, <1>2, AppendFacts
<1>4. ASSUME NEW k \in 1..Len(handed'[w]) PROVE handed'[w][k].batch <= batch'[w]
  <2>1. CASE k = Len(handed[w]) + 1
    BY <2>1, <1>1, <1>3
  <2>2. CASE k # Len(handed[w]) + 1
    <3>1. k \in 1..Len(handed[w])
      BY <2>2, <1>3
    <3> QED
      BY <3>1, <1>3 DEF TriesInv
  <2> QED
    BY <2>1, <2>2
<1>5. ASSUME NEW n \in Nat
      PROVE  /\ Copies(w, Current(w, n))' <= try'[w]
             /\ n > Given(w)' => Copies(w, Current(w, n))' < try'[w]
  <2> DEFINE c == Current(w, n)
  <2>1. Current(w, n)' = c
    BY DEF Current
  <2>2. Copies(w, Current(w, n))' = Cardinality(Places(Append(handed[w], p), c))
    BY <1>2, <2>1 DEF Copies, Places, Current
  <2>3. Copies(w, c) = Cardinality(Places(handed[w], c)) /\ Copies(w, c) \in Nat
    BY CopiesFacts
  <2>4. Copies(w, Current(w, n))' = IF p = c THEN Copies(w, c) + 1 ELSE Copies(w, c)
    <3> HIDE DEF c
    <3> QED
      BY <2>2, <2>3, <1>1, PlacesFacts
  <2>5. p = c => n = ret[w] + 1
    BY DEF p, Current
  <2>6. Given(w) = ret[w] /\ wpc[w] # "idle"
    BY DEF Given
  <2>7. /\ Copies(w, c) <= try[w]
        /\ n > ret[w] => Copies(w, c) < try[w]
    BY <2>6 DEF TriesInv
  <2> HIDE DEF c
  <2>8. CASE p = c
    BY <2>3, <2>4, <2>5, <2>7, <2>8
  <2>9. CASE p # c
    BY <2>3, <2>4, <2>7, <2>9
  <2> QED
    BY <2>8, <2>9
<1> QED
  BY <1>4, <1>5

\* Every step keeps the copies within the tries.
LEMMA TriesStep ==
  ASSUME IInv, [Next]_vars
  PROVE  TriesInv'
<1> USE RxAssumption DEF IInv, call, stats, history
<1>1. ASSUME NEW w \in Writers, WriteBatch(w) PROVE TriesInv'
  <2> SUFFICES ASSUME NEW v \in Writers
               PROVE  /\ \A k \in 1..Len(handed'[v]) : handed'[v][k].batch <= batch'[v]
                      /\ \A n \in Nat :
                          /\ Copies(v, Current(v, n))' <= try'[v]
                          /\ wpc'[v] # "idle" /\ n > Given(v)'
                                => Copies(v, Current(v, n))' < try'[v]
    BY DEF TriesInv
  <2>1. CASE v = w
    BY <1>1, <2>1, TriesBegin DEF WriteBatch, WriteEnter, Goto, TypeOK
  <2>2. CASE v # w
    BY <1>1, <2>2, TriesKept DEF WriteBatch, WriteEnter, Goto, Given, TypeOK
  <2> QED
    BY <2>1, <2>2
<1>2. ASSUME NEW w \in Writers, WriteAgain(w) PROVE TriesInv'
  <2> SUFFICES ASSUME NEW v \in Writers
               PROVE  /\ \A k \in 1..Len(handed'[v]) : handed'[v][k].batch <= batch'[v]
                      /\ \A n \in Nat :
                          /\ Copies(v, Current(v, n))' <= try'[v]
                          /\ wpc'[v] # "idle" /\ n > Given(v)'
                                => Copies(v, Current(v, n))' < try'[v]
    BY DEF TriesInv
  <2>1. CASE v = w
    BY <1>2, <2>1, TriesBegin DEF WriteAgain, WriteEnter, Goto, TypeOK
  <2>2. CASE v # w
    BY <1>2, <2>2, TriesKept DEF WriteAgain, WriteEnter, Goto, Given, TypeOK
  <2> QED
    BY <2>1, <2>2
<1>3. ASSUME NEW w \in Writers, HeaderAccept(w) PROVE TriesInv'
  <2> SUFFICES ASSUME NEW v \in Writers
               PROVE  /\ \A k \in 1..Len(handed'[v]) : handed'[v][k].batch <= batch'[v]
                      /\ \A n \in Nat :
                          /\ Copies(v, Current(v, n))' <= try'[v]
                          /\ wpc'[v] # "idle" /\ n > Given(v)'
                                => Copies(v, Current(v, n))' < try'[v]
    BY DEF TriesInv
  <2> QED
    BY <1>3, TriesKept DEF HeaderAccept, Goto, Given, TypeOK
<1>4. ASSUME NEW w \in Writers, HeaderRefuse(w) PROVE TriesInv'
  <2> SUFFICES ASSUME NEW v \in Writers
               PROVE  /\ \A k \in 1..Len(handed'[v]) : handed'[v][k].batch <= batch'[v]
                      /\ \A n \in Nat :
                          /\ Copies(v, Current(v, n))' <= try'[v]
                          /\ wpc'[v] # "idle" /\ n > Given(v)'
                                => Copies(v, Current(v, n))' < try'[v]
    BY DEF TriesInv
  <2> QED
    BY <1>4, TriesKept DEF HeaderRefuse, Fail, Return, Goto, Given, TypeOK
<1>5. ASSUME NEW w \in Writers, AllocSkb(w) PROVE TriesInv'
  <2> SUFFICES ASSUME NEW v \in Writers
               PROVE  /\ \A k \in 1..Len(handed'[v]) : handed'[v][k].batch <= batch'[v]
                      /\ \A n \in Nat :
                          /\ Copies(v, Current(v, n))' <= try'[v]
                          /\ wpc'[v] # "idle" /\ n > Given(v)'
                                => Copies(v, Current(v, n))' < try'[v]
    BY DEF TriesInv
  <2> QED
    BY <1>5, TriesKept DEF AllocSkb, Goto, Given, TypeOK
<1>6. ASSUME NEW w \in Writers, AllocFails(w) PROVE TriesInv'
  <2> SUFFICES ASSUME NEW v \in Writers
               PROVE  /\ \A k \in 1..Len(handed'[v]) : handed'[v][k].batch <= batch'[v]
                      /\ \A n \in Nat :
                          /\ Copies(v, Current(v, n))' <= try'[v]
                          /\ wpc'[v] # "idle" /\ n > Given(v)'
                                => Copies(v, Current(v, n))' < try'[v]
    BY DEF TriesInv
  <2> QED
    BY <1>6, TriesKept DEF AllocFails, Fail, Return, Goto, Given, TypeOK
<1>7. ASSUME NEW w \in Writers, CopyFaults(w) PROVE TriesInv'
  <2> SUFFICES ASSUME NEW v \in Writers
               PROVE  /\ \A k \in 1..Len(handed'[v]) : handed'[v][k].batch <= batch'[v]
                      /\ \A n \in Nat :
                          /\ Copies(v, Current(v, n))' <= try'[v]
                          /\ wpc'[v] # "idle" /\ n > Given(v)'
                                => Copies(v, Current(v, n))' < try'[v]
    BY DEF TriesInv
  <2> QED
    BY <1>7, TriesKept DEF CopyFaults, Fail, Return, Goto, Given, TypeOK
<1>8. ASSUME NEW w \in Writers, HandSkb(w) PROVE TriesInv'
  <2> SUFFICES ASSUME NEW v \in Writers
               PROVE  /\ \A k \in 1..Len(handed'[v]) : handed'[v][k].batch <= batch'[v]
                      /\ \A n \in Nat :
                          /\ Copies(v, Current(v, n))' <= try'[v]
                          /\ wpc'[v] # "idle" /\ n > Given(v)'
                                => Copies(v, Current(v, n))' < try'[v]
    BY DEF TriesInv
  <2>1. CASE v = w
    BY <1>8, <2>1, TriesHand DEF HandSkb, Goto, Given, TypeOK, Progress
  <2>2. CASE v # w
    BY <1>8, <2>2, TriesKept DEF HandSkb, HandOver, Goto, Given, TypeOK
  <2> QED
    BY <2>1, <2>2
<1>9. ASSUME NEW w \in Writers, CountLoad(w) PROVE TriesInv'
  <2> SUFFICES ASSUME NEW v \in Writers
               PROVE  /\ \A k \in 1..Len(handed'[v]) : handed'[v][k].batch <= batch'[v]
                      /\ \A n \in Nat :
                          /\ Copies(v, Current(v, n))' <= try'[v]
                          /\ wpc'[v] # "idle" /\ n > Given(v)'
                                => Copies(v, Current(v, n))' < try'[v]
    BY DEF TriesInv
  <2> QED
    BY <1>9, TriesKept DEF CountLoad, Goto, Given, TypeOK
<1>10. ASSUME NEW w \in Writers, CountStore(w) PROVE TriesInv'
  <2> SUFFICES ASSUME NEW v \in Writers
               PROVE  /\ \A k \in 1..Len(handed'[v]) : handed'[v][k].batch <= batch'[v]
                      /\ \A n \in Nat :
                          /\ Copies(v, Current(v, n))' <= try'[v]
                          /\ wpc'[v] # "idle" /\ n > Given(v)'
                                => Copies(v, Current(v, n))' < try'[v]
    BY DEF TriesInv
  <2> QED
    BY <1>10, TriesKept DEF CountStore, NextPacket, Goto, Given, TypeOK
<1>11. ASSUME NEW w \in Writers, WriteFinish(w) PROVE TriesInv'
  <2> SUFFICES ASSUME NEW v \in Writers
               PROVE  /\ \A k \in 1..Len(handed'[v]) : handed'[v][k].batch <= batch'[v]
                      /\ \A n \in Nat :
                          /\ Copies(v, Current(v, n))' <= try'[v]
                          /\ wpc'[v] # "idle" /\ n > Given(v)'
                                => Copies(v, Current(v, n))' < try'[v]
    BY DEF TriesInv
  <2> QED
    BY <1>11, TriesKept DEF WriteFinish, Return, Goto, Given, TypeOK
<1>12. ASSUME NEW w \in Writers, WriteFinishFaults(w) PROVE TriesInv'
  <2> SUFFICES ASSUME NEW v \in Writers
               PROVE  /\ \A k \in 1..Len(handed'[v]) : handed'[v][k].batch <= batch'[v]
                      /\ \A n \in Nat :
                          /\ Copies(v, Current(v, n))' <= try'[v]
                          /\ wpc'[v] # "idle" /\ n > Given(v)'
                                => Copies(v, Current(v, n))' < try'[v]
    BY DEF TriesInv
  <2> QED
    BY <1>12, TriesKept DEF WriteFinishFaults, Fail, Return, Goto, Given, TypeOK
<1>13. ASSUME NEW w \in Writers, TapWrite(w) PROVE TriesInv'
  <2> SUFFICES ASSUME NEW v \in Writers
               PROVE  /\ \A k \in 1..Len(handed'[v]) : handed'[v][k].batch <= batch'[v]
                      /\ \A n \in Nat :
                          /\ Copies(v, Current(v, n))' <= try'[v]
                          /\ wpc'[v] # "idle" /\ n > Given(v)'
                                => Copies(v, Current(v, n))' < try'[v]
    BY DEF TriesInv
  <2>1. CASE v = w
    BY <1>13, <2>1, TriesHand DEF TapWrite, Given, TypeOK, Progress
  <2>2. CASE v # w
    BY <1>13, <2>2, TriesKept DEF TapWrite, HandOver, Given, TypeOK
  <2> QED
    BY <2>1, <2>2
<1>14. ASSUME NEW w \in Writers, TapWriteFails(w) PROVE TriesInv'
  <2> SUFFICES ASSUME NEW v \in Writers
               PROVE  /\ \A k \in 1..Len(handed'[v]) : handed'[v][k].batch <= batch'[v]
                      /\ \A n \in Nat :
                          /\ Copies(v, Current(v, n))' <= try'[v]
                          /\ wpc'[v] # "idle" /\ n > Given(v)'
                                => Copies(v, Current(v, n))' < try'[v]
    BY DEF TriesInv
  <2> QED
    BY <1>14, TriesKept DEF TapWriteFails, Fail, Return, Goto, Given, TypeOK
<1>15. ASSUME NEW w \in Writers, TapFinish(w) PROVE TriesInv'
  <2> SUFFICES ASSUME NEW v \in Writers
               PROVE  /\ \A k \in 1..Len(handed'[v]) : handed'[v][k].batch <= batch'[v]
                      /\ \A n \in Nat :
                          /\ Copies(v, Current(v, n))' <= try'[v]
                          /\ wpc'[v] # "idle" /\ n > Given(v)'
                                => Copies(v, Current(v, n))' < try'[v]
    BY DEF TriesInv
  <2> QED
    BY <1>15, TriesKept DEF TapFinish, Return, Goto, Given, TypeOK
<1>16. CASE UNCHANGED vars
  <2> SUFFICES ASSUME NEW v \in Writers
               PROVE  /\ \A k \in 1..Len(handed'[v]) : handed'[v][k].batch <= batch'[v]
                      /\ \A n \in Nat :
                          /\ Copies(v, Current(v, n))' <= try'[v]
                          /\ wpc'[v] # "idle" /\ n > Given(v)'
                                => Copies(v, Current(v, n))' < try'[v]
    BY DEF TriesInv
  <2> QED
    BY <1>16, TriesKept DEF vars, Given

<1> QED
  BY <1>1, <1>2, <1>3, <1>4, <1>5, <1>6, <1>7, <1>8,
     <1>9, <1>10, <1>11, <1>12, <1>13, <1>14, <1>15, <1>16 DEF Next, Driver, Tap

\* Every step keeps the counts.
LEMMA CountStep ==
  ASSUME IInv, [Next]_vars
  PROVE  CountInv'
<1> USE RxAssumption DEF IInv, call, stats, history
<1>1. ASSUME NEW w \in Writers, WriteBatch(w) PROVE CountInv'
  <2>1. Uncounted' = Uncounted /\ IsFiniteSet(Counting')
    BY <1>1, GotoCounting DEF WriteBatch, WriteEnter
  <2>2. wpc'[w] # "store" /\ \A v \in Writers : wpc'[v] = "store" => wpc[v] = "store"
    BY <1>1 DEF WriteBatch, WriteEnter, Goto, TypeOK
  <2>3. \A v \in Writers : Alone(v)' => Alone(v)
    BY <1>1 DEF WriteBatch, WriteEnter, Goto, Alone, TypeOK
  <2> QED
    BY <1>1, <2>1, <2>2, <2>3 DEF WriteBatch, WriteEnter, Goto, CountInv
<1>2. ASSUME NEW w \in Writers, WriteAgain(w) PROVE CountInv'
  <2>1. Uncounted' = Uncounted /\ IsFiniteSet(Counting')
    BY <1>2, GotoCounting DEF WriteAgain, WriteEnter
  <2>2. wpc'[w] # "store" /\ \A v \in Writers : wpc'[v] = "store" => wpc[v] = "store"
    BY <1>2 DEF WriteAgain, WriteEnter, Goto, TypeOK
  <2>3. \A v \in Writers : Alone(v)' => Alone(v)
    BY <1>2 DEF WriteAgain, WriteEnter, Goto, Alone, TypeOK
  <2> QED
    BY <1>2, <2>1, <2>2, <2>3 DEF WriteAgain, WriteEnter, Goto, CountInv
<1>3. ASSUME NEW w \in Writers, HeaderAccept(w) PROVE CountInv'
  <2>1. Uncounted' = Uncounted /\ IsFiniteSet(Counting')
    BY <1>3, GotoCounting DEF HeaderAccept
  <2> QED
    BY <1>3, <2>1 DEF HeaderAccept, Goto, Alone, CountInv, TypeOK
<1>4. ASSUME NEW w \in Writers, HeaderRefuse(w) PROVE CountInv'
  <2>1. Uncounted' = Uncounted /\ IsFiniteSet(Counting')
    BY <1>4, GotoCounting DEF HeaderRefuse, Fail, Return
  <2> QED
    BY <1>4, <2>1 DEF HeaderRefuse, Fail, Return, Goto, Alone, CountInv, TypeOK
<1>5. ASSUME NEW w \in Writers, AllocSkb(w) PROVE CountInv'
  <2>1. Uncounted' = Uncounted /\ IsFiniteSet(Counting')
    BY <1>5, GotoCounting DEF AllocSkb
  <2> QED
    BY <1>5, <2>1 DEF AllocSkb, Goto, Alone, CountInv, TypeOK
<1>6. ASSUME NEW w \in Writers, AllocFails(w) PROVE CountInv'
  <2>1. Uncounted' = Uncounted /\ IsFiniteSet(Counting')
    BY <1>6, GotoCounting DEF AllocFails, Fail, Return
  <2> QED
    BY <1>6, <2>1 DEF AllocFails, Fail, Return, Goto, Alone, CountInv, TypeOK
<1>7. ASSUME NEW w \in Writers, CopyFaults(w) PROVE CountInv'
  <2>1. Uncounted' = Uncounted /\ IsFiniteSet(Counting')
    BY <1>7, GotoCounting DEF CopyFaults, Fail, Return
  <2> QED
    BY <1>7, <2>1 DEF CopyFaults, Fail, Return, Goto, Alone, CountInv, TypeOK
<1>8. ASSUME NEW w \in Writers, HandSkb(w) PROVE CountInv'
  <2> rx_packets \in Nat /\ total \in Nat /\ rload[w] \in Nat
    BY DEF TypeOK
  <2>1. Uncounted' = Uncounted + 1 /\ IsFiniteSet(Counting') /\ Uncounted \in Nat
    BY <1>8, GotoCounting DEF HandSkb, HandOver
  <2>2. \A v \in Writers : rload[v] \in Nat /\ (wpc'[v] = "store" => wpc[v] = "store")
    BY <1>8 DEF HandSkb, HandOver, Goto, TypeOK
  <2>3. \A v \in Writers : Alone(v)' = Alone(v)
    BY <1>8 DEF HandSkb, HandOver, Goto, Alone
  <2>4. rx_packets' = rx_packets /\ rload' = rload /\ total' = total + 1
    BY <1>8 DEF HandSkb, HandOver, Goto
  <2> QED
    BY <2>1, <2>2, <2>3, <2>4 DEF CountInv
<1>9. ASSUME NEW w \in Writers, CountLoad(w) PROVE CountInv'
  <2> rx_packets \in Nat /\ total \in Nat /\ rload[w] \in Nat
    BY DEF TypeOK
  <2>1. Uncounted' = Uncounted /\ IsFiniteSet(Counting') /\ Uncounted \in Nat
    BY <1>9, GotoCounting DEF CountLoad
  <2>2. \A v \in Writers : Alone(v)' = Alone(v)
    BY <1>9 DEF CountLoad, Goto, Alone
  <2>3. \A v \in Writers \ {w} : rload'[v] = rload[v] /\ (wpc'[v] = "store" => wpc[v] = "store")
    BY <1>9 DEF CountLoad, Goto, TypeOK
  <2>4. rload'[w] = rx_packets /\ rx_packets' = rx_packets /\ total' = total
    BY <1>9 DEF CountLoad, Goto, TypeOK
  <2> QED
    BY <2>1, <2>2, <2>3, <2>4 DEF CountInv
<1>10. ASSUME NEW w \in Writers, CountStore(w) PROVE CountInv'
  <2> rx_packets \in Nat /\ total \in Nat /\ rload[w] \in Nat
    BY DEF TypeOK
  <2>1. /\ Uncounted' = Uncounted - 1 /\ IsFiniteSet(Counting')
        /\ Uncounted \in Nat /\ Uncounted > 0
    BY <1>10, GotoCounting DEF CountStore, NextPacket
  <2>2. \A v \in Writers : Alone(v)' = Alone(v)
    BY <1>10 DEF CountStore, NextPacket, Goto, Alone
  <2>3. wpc[w] = "store" /\ rx_packets' = rload[w] + 1 /\ total' = total /\ wpc'[w] # "store"
    BY <1>10 DEF CountStore, NextPacket, Goto, TypeOK
  <2>4. \A v \in Writers \ {w} : /\ rload'[v] = rload[v] /\ rload[v] \in Nat
                                 /\ wpc'[v] = "store" => wpc[v] = "store"
    BY <1>10 DEF CountStore, NextPacket, Goto, TypeOK
  <2>5. \A v \in Writers \ {w} : ~Alone(v)
    BY <2>3 DEF Alone, Progress
  <2>6. rx_packets' + Uncounted' = rload[w] + Uncounted
    BY <2>1, <2>3
  <2>7. rx_packets' + Uncounted' <= total'
    BY <2>3, <2>6 DEF CountInv
  <2>8. \A v \in Writers : wpc'[v] = "store" => rload'[v] + Uncounted' <= total'
    BY <2>1, <2>3, <2>4 DEF CountInv
  <2>9. \A v \in Writers : Alone(v)' => rx_packets' + Uncounted' = total' /\ wpc'[v] # "store"
    BY <2>2, <2>3, <2>5, <2>6 DEF CountInv
  <2> QED
    BY <2>1, <2>7, <2>8, <2>9 DEF CountInv
<1>11. ASSUME NEW w \in Writers, WriteFinish(w) PROVE CountInv'
  <2>1. Uncounted' = Uncounted /\ IsFiniteSet(Counting')
    BY <1>11, GotoCounting DEF WriteFinish, Return
  <2> QED
    BY <1>11, <2>1 DEF WriteFinish, Return, Goto, Alone, CountInv, TypeOK
<1>12. ASSUME NEW w \in Writers, WriteFinishFaults(w) PROVE CountInv'
  <2>1. Uncounted' = Uncounted /\ IsFiniteSet(Counting')
    BY <1>12, GotoCounting DEF WriteFinishFaults, Fail, Return
  <2> QED
    BY <1>12, <2>1 DEF WriteFinishFaults, Fail, Return, Goto, Alone, CountInv, TypeOK
<1>13. ASSUME NEW w \in Writers, TapWrite(w) PROVE CountInv'
  <2>1. Uncounted' = Uncounted /\ Counting' = Counting
    BY <1>13 DEF TapWrite, HandOver, Uncounted, Counting
  <2> QED
    BY <1>13, <2>1 DEF TapWrite, HandOver, Alone, CountInv
<1>14. ASSUME NEW w \in Writers, TapWriteFails(w) PROVE CountInv'
  <2>1. Uncounted' = Uncounted /\ IsFiniteSet(Counting')
    BY <1>14, GotoCounting DEF TapWriteFails, Fail, Return
  <2> QED
    BY <1>14, <2>1 DEF TapWriteFails, Fail, Return, Goto, Alone, CountInv, TypeOK
<1>15. ASSUME NEW w \in Writers, TapFinish(w) PROVE CountInv'
  <2>1. Uncounted' = Uncounted /\ IsFiniteSet(Counting')
    BY <1>15, GotoCounting DEF TapFinish, Return
  <2> QED
    BY <1>15, <2>1 DEF TapFinish, Return, Goto, Alone, CountInv, TypeOK
<1>16. CASE UNCHANGED vars
  <2>1. Uncounted' = Uncounted /\ Counting' = Counting
    BY <1>16 DEF vars, Uncounted, Counting
  <2> QED
    BY <1>16, <2>1 DEF vars, Alone, CountInv
<1> QED
  BY <1>1, <1>2, <1>3, <1>4, <1>5, <1>6, <1>7, <1>8,
     <1>9, <1>10, <1>11, <1>12, <1>13, <1>14, <1>15, <1>16 DEF Next, Driver, Tap

-----------------------------------------------------------------------------
\* The inductive invariant of the receive path: how far each call is, the
\* trail of its packets, the tries, the sk_buffs and the counts.
THEOREM InductiveInvariant == Spec => []IInv
<1>1. IInv /\ [Next]_vars => IInv'
  <2> SUFFICES ASSUME IInv, [Next]_vars PROVE IInv'
    OBVIOUS
  <2> QED
    BY TypeStep, ProgressStep, TrailStep, TriesStep, SkbStep, CountStep DEF IInv
<1> QED
  BY InitIInv, <1>1, PTL DEF Spec

\* Every reachable state has the types of the calls and of the statistics.
THEOREM TypeCorrect == Spec => []TypeOK
<1>1. IInv => TypeOK
  BY DEF IInv
<1> QED
  BY InductiveInvariant, <1>1, PTL

\* Each packet the stack gets is the first of its batch or follows the one
\* before it, for any number of calls and whatever fails in them.
THEOREM InOrder == Spec => []NoGap
<1>1. IInv => NoGap
  BY DEF IInv, TrailInv
<1> QED
  BY InductiveInvariant, <1>1, PTL

\* After a call that reports success the stack has the whole batch, and the
\* program is told so.
THEOREM SuccessIsComplete == Spec => []SuccessMeansAll
<1>1. IInv => SuccessMeansAll
  BY DEF IInv, TrailInv
<1> QED
  BY InductiveInvariant, <1>1, PTL

\* A packet is delivered at most as often as the program tried its batch.
THEOREM AtMostOncePerTry == Spec => []OncePerTry
<1>1. IInv => OncePerTry
  <2> SUFFICES ASSUME TriesInv, TypeOK, NEW w \in Writers, NEW n \in 1..count[w]
               PROVE  Copies(w, [batch |-> batch[w], n |-> n]) <= try[w]
    BY DEF IInv, OncePerTry
  <2>1. n \in Nat
    BY RxAssumption DEF TypeOK
  <2> QED
    BY <2>1 DEF TriesInv, Current
<1> QED
  BY InductiveInvariant, <1>1, PTL

\* Every sk_buff was given to the stack or freed, on every error path, but for
\* those of the writers that copy.
THEOREM NoLeak == Spec => []NoSkbLeak
<1>1. IInv => NoSkbLeak
  BY DEF IInv, SkbInv
<1> QED
  BY InductiveInvariant, <1>1, PTL

\* The unlocked rx_packets++ counts no packet that the stack did not get, and
\* loses none while one thread writes.
THEOREM NeverTooMany == Spec => []RxCount
<1>1. IInv => RxCount
  BY DEF IInv, CountInv, RxCount, Alone
<1> QED
  BY InductiveInvariant, <1>1, PTL
=============================================================================
