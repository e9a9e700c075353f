----------------------------- MODULE MovingMedian -----------------------------
(***************************************************************************)
(* The latencies a fog node keeps of a neighbour: a ring of the last       *)
(* samples, the same samples in order, from which the median and the       *)
(* quartiles are read, and a ring of loss ratios.  Indices of rings start  *)
(* at zero, as in the code.  What divides by two is kept doubled.          *)
(***************************************************************************)
EXTENDS Integers, SequencesExt

CONSTANT Window  \* window_size of both rings

ASSUME WindowAssumption == Window \in Nat /\ Window >= 4

Empty == [ring |-> <<>>, cursor |-> 0, ordered |-> <<>>, loss |-> <<>>, lossCursor |-> 0]

(* How many samples of s are at most x. *)
Rank(s, x) == Cardinality({i \in DOMAIN s : s[i] <= x})

(* OrderedSkipList::insert, behind the samples that are no greater. *)
InOrder(s, v) == InsertAt(s, Rank(s, v) + 1, v)

\* Mutant of Sampled: the ordered list grows for ever.
SampledKept(e, v) ==
  IF Len(e.ring) = Window
  THEN [e EXCEPT !.ordered = InOrder(@, v),
                 !.ring = ReplaceAt(@, e.cursor + 1, v),
                 !.cursor = (@ + 1) % Window]
  ELSE [e EXCEPT !.ordered = InOrder(@, v), !.ring = Append(@, v)]

(* RingOrderedSkipList::insert.  The cursor moves once the ring is full.   *)
Sampled(e, v) ==
  IF Len(e.ring) = Window
  THEN [e EXCEPT !.ordered = InOrder(RemoveFirst(@, e.ring[e.cursor + 1]), v),
                 !.ring = ReplaceAt(@, e.cursor + 1, v),
                 !.cursor = (@ + 1) % Window]
  ELSE [e EXCEPT !.ordered = InOrder(@, v), !.ring = Append(@, v)]

(* PacketLossRing::update.  The cursor moves from the start.               *)
LossSampled(e, ratio) ==
  [e EXCEPT !.loss = IF Len(@) < Window THEN Append(@, ratio)
                     ELSE ReplaceAt(@, e.lossCursor + 1, ratio),
            !.lossCursor = (@ + 1) % Window]

(* update_latency *)
Updated(e, v, ratio) == LossSampled(Sampled(e, v), ratio)

-----------------------------------------------------------------------------
Even(e, i, j) == e.ordered[i + 1] + e.ordered[j + 1]
Uneven(e, i) == 2 * e.ordered[i + 1]

\* Mutant of Middle: one index for the two parities.
MiddleLow(e, i, even) == IF even THEN Even(e, i, i - 1) ELSE Uneven(e, i - 1)

Middle(e, i, even) == IF even THEN Even(e, i, i - 1) ELSE Uneven(e, i)

(* Twice the median and the quartiles; None below four samples.            *)
Known(e) == Len(e.ring) >= 4

Median2(e) == LET n == Len(e.ring) IN Middle(e, n \div 2, n % 2 = 0)
FirstQuartile2(e) == LET n == Len(e.ring) IN Middle(e, n \div 4, n % 4 \in {0, 1})
ThirdQuartile2(e) == LET n == Len(e.ring) IN Middle(e, (n * 3) \div 4, n % 4 \in {0, 1})

-----------------------------------------------------------------------------
(* What they are meant to be, counted on the ring.                         *)
Below(e, twice) == Cardinality({i \in DOMAIN e.ring : 2 * e.ring[i] < twice})
Above(e, twice) == Cardinality({i \in DOMAIN e.ring : 2 * e.ring[i] > twice})

(* o holds the samples of s, from the smallest to the greatest.            *)
Count(s, x) == Cardinality({i \in DOMAIN s : s[i] = x})

InOrderOf(o, s) ==
  /\ \A i, j \in DOMAIN o : i < j => o[i] <= o[j]
  /\ \A x \in ToSet(o) \cup ToSet(s) : Count(o, x) = Count(s, x)

(* The loss ratios are of the rounds of the samples, and the next round    *)
(* overwrites both of the same one.                                        *)
SameRounds(e) ==
  /\ Len(e.loss) = Len(e.ring)
  /\ Len(e.ring) = Window => e.lossCursor = e.cursor

(* The ring unrolled, oldest sample first.                                 *)
Unrolled(e) ==
  SubSeq(e.ring, e.cursor + 1, Len(e.ring)) \o SubSeq(e.ring, 1, e.cursor)
=============================================================================
