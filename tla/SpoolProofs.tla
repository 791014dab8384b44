----------------------------- MODULE SpoolProofs -----------------------------
(***************************************************************************)
(* Proofs about Spool, for every size of header, records, segments and     *)
(* budget, and every number of events: the budget is kept, only the oldest *)
(* events are lost, and what an interruption leaves can be read.           *)
(***************************************************************************)
EXTENDS Spool, SequenceTheorems, WellFoundedInduction, TLAPS

----------------------------------------------------------------------------
(* The size of some files together.                                        *)

\* The least-number principle, for a set.
LEMMA LeastOf ==
    ASSUME NEW T \in SUBSET Nat, T # {}
    PROVE \E x \in T : \A y \in T : x <= y
<1>1. PICK x \in T : \A y \in T : ~ (<<y, x>> \in OpToRel(<, Nat))
  BY NatLessThanWellFounded, WFMin
<1>2. \A y \in T : ~ (y < x)
  BY <1>1 DEF OpToRel
<1> QED
  BY <1>2

LEMMA Typed ==
    ASSUME NEW parts \in Seq(Segments)
    PROVE /\ Len(parts) \in Nat
          /\ \A i \in 1 .. Len(parts) : parts[i] \in Segments /\ parts[i].size \in Nat
<1>1. Len(parts) \in Nat /\ \A i \in 1 .. Len(parts) : parts[i] \in Segments
  OBVIOUS
<1>2. \A part \in Segments : part.size \in Nat
  BY DEF Segments
<1> QED
  BY <1>1, <1>2

\* f[i] is the size of the first i files.
Sums(f, parts) ==
    /\ f \in [0 .. Len(parts) -> Nat]
    /\ f[0] = 0
    /\ \A i \in 1 .. Len(parts) : f[i] = f[i - 1] + parts[i].size

LEMMA SumsExist ==
    ASSUME NEW parts \in Seq(Segments)
    PROVE \E f : Sums(f, parts)
<1> DEFINE upTo(f, n) == /\ f \in [0 .. n -> Nat] /\ f[0] = 0
                         /\ \A i \in 1 .. n : f[i] = f[i - 1] + parts[i].size
           without == {n \in 0 .. Len(parts) : ~ \E f : upTo(f, n)}
<1>1. Len(parts) \in Nat /\ \A i \in 1 .. Len(parts) : parts[i].size \in Nat
  BY Typed
<1>2. SUFFICES ASSUME without # {} PROVE FALSE
  BY <1>1 DEF Sums
<1>3. PICK n \in without : \A k \in without : n <= k
  <2>1. without \in SUBSET Nat
    BY <1>1
  <2> HIDE DEF without
  <2> QED
    BY <1>2, <2>1, LeastOf
<1>4. n # 0
  <2>1. upTo([i \in 0 .. 0 |-> 0], 0)
    OBVIOUS
  <2> QED
    BY <1>3, <2>1
<1>5. n - 1 \in 0 .. Len(parts) /\ n \in 1 .. Len(parts) /\ n - 1 \notin without
  <2>1. n \in 0 .. Len(parts)
    BY <1>3
  <2>2. n - 1 \in without => n <= n - 1
    <3> HIDE DEF without
    <3> QED
      BY <1>3
  <2> QED
    BY <1>1, <1>4, <2>1, <2>2
<1>6. PICK f : upTo(f, n - 1)
  BY <1>5
<1> DEFINE g == [i \in 0 .. n |-> IF i < n THEN f[i] ELSE f[n - 1] + parts[n].size]
<1>7. upTo(g, n)
  <2>1. f[n - 1] \in Nat /\ parts[n].size \in Nat
    BY <1>1, <1>5, <1>6
  <2>2. g \in [0 .. n -> Nat] /\ g[0] = 0
    BY <1>5, <1>6, <2>1
  <2>3. ASSUME NEW i \in 1 .. n PROVE g[i] = g[i - 1] + parts[i].size
    <3>1. CASE i < n
      <4>1. i \in 1 .. n - 1 /\ i \in 0 .. n /\ i - 1 \in 0 .. n /\ i - 1 < n
        BY <1>5, <3>1
      <4>2. g[i] = f[i] /\ g[i - 1] = f[i - 1]
        BY <3>1, <4>1
      <4> QED
        BY <1>6, <4>1, <4>2
    <3>2. CASE i = n
      BY <1>5, <1>6, <3>2
    <3> QED
      BY <1>5, <3>1, <3>2
  <2> QED
    BY <2>2, <2>3
<1> QED
  BY <1>3, <1>7

LEMMA SizeIsSum ==
    ASSUME NEW parts \in Seq(Segments), NEW f, Sums(f, parts)
    PROVE SizeOf(parts) = f[Len(parts)]
<1> DEFINE body(g) == [i \in 0 .. Len(parts) |-> IF i = 0 THEN 0 ELSE g[i - 1] + parts[i].size]
           sum == CHOOSE g : g = body(g)
           wrong == {i \in 0 .. Len(parts) : sum[i] # f[i]}
<1>1. Len(parts) \in Nat
  OBVIOUS
<1>2. SizeOf(parts) = sum[Len(parts)]
  BY DEF SizeOf
<1>3. f = body(f)
  BY <1>1 DEF Sums
<1>4. sum = body(sum)
  BY <1>3
<1> HIDE DEF sum
<1>5. SUFFICES ASSUME wrong # {} PROVE FALSE
  BY <1>1, <1>2
<1>6. PICK n \in wrong : \A k \in wrong : n <= k
  <2>1. wrong \in SUBSET Nat
    BY <1>1
  <2> HIDE DEF wrong
  <2> QED
    BY <1>5, <2>1, LeastOf
<1>7. n \in 0 .. Len(parts) /\ sum[n] # f[n]
  BY <1>6
<1>8. sum[n] = (IF n = 0 THEN 0 ELSE sum[n - 1] + parts[n].size)
      /\ f[n] = (IF n = 0 THEN 0 ELSE f[n - 1] + parts[n].size)
  BY <1>3, <1>4, <1>7
<1>9. n # 0 /\ sum[n - 1] = f[n - 1]
  BY <1>1, <1>6, <1>7, <1>8
<1> QED
  BY <1>7, <1>8, <1>9

LEMMA SizeNat ==
    ASSUME NEW parts \in Seq(Segments)
    PROVE SizeOf(parts) \in Nat
BY SumsExist, SizeIsSum DEF Sums

LEMMA SizeEmpty == SizeOf(<<>>) = 0
<1>1. <<>> \in Seq(Segments) /\ Len(<<>>) = 0
  OBVIOUS
<1>2. Sums([i \in 0 .. 0 |-> 0], <<>>)
  BY <1>1 DEF Sums
<1> QED
  BY <1>1, <1>2, SizeIsSum

LEMMA SizeAppend ==
    ASSUME NEW parts \in Seq(Segments), NEW part \in Segments
    PROVE SizeOf(Append(parts, part)) = SizeOf(parts) + part.size
<1>1. PICK f : Sums(f, parts)
  BY SumsExist
<1> DEFINE longer == Append(parts, part)
           g == [i \in 0 .. Len(longer) |->
                    IF i <= Len(parts) THEN f[i] ELSE f[Len(parts)] + part.size]
<1>2. /\ longer \in Seq(Segments) /\ Len(longer) = Len(parts) + 1 /\ Len(parts) \in Nat
      /\ \A i \in 1 .. Len(parts) : longer[i] = parts[i]
      /\ longer[Len(parts) + 1] = part /\ part.size \in Nat
  BY AppendProperties DEF Segments
<1> HIDE DEF longer
<1>3. Sums(g, longer)
  <2>1. f[Len(parts)] \in Nat /\ f \in [0 .. Len(parts) -> Nat]
    BY <1>1, <1>2 DEF Sums
  <2>2. g \in [0 .. Len(longer) -> Nat] /\ g[0] = 0
    BY <1>1, <1>2, <2>1 DEF Sums
  <2>3. ASSUME NEW i \in 1 .. Len(longer) PROVE g[i] = g[i - 1] + longer[i].size
    <3>1. CASE i <= Len(parts)
      <4>1. /\ i \in 1 .. Len(parts) /\ i \in 0 .. Len(longer)
            /\ i - 1 \in 0 .. Len(longer) /\ i - 1 <= Len(parts)
        BY <1>2, <3>1
      <4>2. g[i] = f[i] /\ g[i - 1] = f[i - 1] /\ longer[i] = parts[i]
        BY <1>2, <3>1, <4>1
      <4> QED
        BY <1>1, <4>1, <4>2 DEF Sums
    <3>2. CASE i = Len(parts) + 1
      BY <1>1, <1>2, <3>2 DEF Sums
    <3> QED
      BY <1>2, <3>1, <3>2
  <2> QED
    BY <2>2, <2>3 DEF Sums
<1>4. SizeOf(longer) = g[Len(longer)]
  BY <1>2, <1>3, SizeIsSum
<1> QED
  BY <1>1, <1>2, <1>4, SizeIsSum DEF longer

LEMMA SizeNewest ==
    ASSUME NEW parts \in Seq(Segments), parts # <<>>, NEW part \in Segments
    PROVE SizeOf([parts EXCEPT ![Len(parts)] = part]) =
             SizeOf(parts) - parts[Len(parts)].size + part.size
<1>1. PICK f : Sums(f, parts)
  BY SumsExist
<1>2. Len(parts) \in Nat /\ Len(parts) # 0 /\ parts[Len(parts)].size \in Nat /\ part.size \in Nat
      /\ \A i \in 1 .. Len(parts) : parts[i].size \in Nat
  <2>1. Len(parts) \in Nat /\ Len(parts) # 0
    OBVIOUS
  <2>2. part.size \in Nat
    BY DEF Segments
  <2>3. Len(parts) \in 1 .. Len(parts)
    BY <2>1
  <2> QED
    BY <2>1, <2>2, <2>3, Typed
<1> DEFINE other == [parts EXCEPT ![Len(parts)] = part]
           g == [f EXCEPT ![Len(parts)] = f[Len(parts) - 1] + part.size]
<1>3. /\ other \in Seq(Segments) /\ Len(other) = Len(parts)
      /\ \A i \in 1 .. Len(parts) : other[i] = IF i = Len(parts) THEN part ELSE parts[i]
  BY <1>2
<1> HIDE DEF other
<1>4. Sums(g, other)
  <2>1. f[Len(parts) - 1] \in Nat /\ f \in [0 .. Len(parts) -> Nat]
    BY <1>1, <1>2 DEF Sums
  <2>2. g \in [0 .. Len(other) -> Nat] /\ g[0] = 0
    BY <1>1, <1>2, <1>3, <2>1 DEF Sums
  <2>3. ASSUME NEW i \in 1 .. Len(other) PROVE g[i] = g[i - 1] + other[i].size
    <3>1. i \in 1 .. Len(parts) /\ f[i] = f[i - 1] + parts[i].size
      BY <1>1, <1>3 DEF Sums
    <3>2. CASE i = Len(parts)
      BY <1>2, <1>3, <2>1, <3>2
    <3>3. CASE i # Len(parts)
      BY <1>2, <1>3, <2>1, <3>1, <3>3
    <3> QED
      BY <3>2, <3>3
  <2> QED
    BY <2>2, <2>3 DEF Sums
<1>5. SizeOf(other) = g[Len(parts)] /\ SizeOf(parts) = f[Len(parts)]
  BY <1>1, <1>3, <1>4, SizeIsSum
<1>6. f[Len(parts)] = f[Len(parts) - 1] + parts[Len(parts)].size /\ f[Len(parts) - 1] \in Nat
      /\ g[Len(parts)] = f[Len(parts) - 1] + part.size
  BY <1>1, <1>2 DEF Sums
<1> HIDE DEF g
<1> QED
  BY <1>2, <1>5, <1>6 DEF other

LEMMA SizeTail ==
    ASSUME NEW parts \in Seq(Segments), parts # <<>>
    PROVE SizeOf(parts) = parts[1].size + SizeOf(Tail(parts))
<1> DEFINE rest == Tail(parts)
<1>1. /\ rest \in Seq(Segments) /\ Len(rest) = Len(parts) - 1 /\ Len(parts) \in Nat \ {0}
      /\ \A i \in 1 .. Len(rest) : rest[i] = parts[i + 1]
      /\ \A i \in 1 .. Len(parts) : parts[i].size \in Nat
  BY HeadTailProperties, Typed
<1> HIDE DEF rest
<1>2. PICK f : Sums(f, rest)
  BY <1>1, SumsExist
<1> DEFINE g == [i \in 0 .. Len(parts) |-> IF i = 0 THEN 0 ELSE parts[1].size + f[i - 1]]
<1>3. Sums(g, parts)
  <2>1. g \in [0 .. Len(parts) -> Nat] /\ g[0] = 0
    BY <1>1, <1>2 DEF Sums
  <2>2. ASSUME NEW i \in 1 .. Len(parts) PROVE g[i] = g[i - 1] + parts[i].size
    <3>1. CASE i = 1
      BY <1>1, <1>2, <3>1 DEF Sums
    <3>2. CASE i # 1
      <4>1. i - 1 \in 1 .. Len(rest) /\ i - 2 \in 0 .. Len(rest) /\ rest[i - 1] = parts[i]
        BY <1>1, <3>2
      <4>2. f[i - 1] = f[i - 2] + parts[i].size /\ f[i - 2] \in Nat /\ parts[i].size \in Nat
        <5>1. f[i - 1] = f[(i - 1) - 1] + rest[i - 1].size /\ (i - 1) - 1 = i - 2
          BY <1>2, <4>1 DEF Sums
        <5> QED
          BY <1>1, <1>2, <4>1, <5>1 DEF Sums
      <4> QED
        BY <1>1, <3>2, <4>1, <4>2
    <3> QED
      BY <3>1, <3>2
  <2> QED
    BY <2>1, <2>2 DEF Sums
<1>4. SizeOf(parts) = g[Len(parts)] /\ SizeOf(rest) = f[Len(rest)]
  BY <1>1, <1>2, <1>3, SizeIsSum
<1>5. g[Len(parts)] = parts[1].size + f[Len(rest)]
  BY <1>1
<1> HIDE DEF g
<1> QED
  BY <1>4, <1>5 DEF rest

LEMMA SizeShrinks ==
    ASSUME NEW parts \in Seq(Segments), NEW less \in Seq(Segments), Len(less) = Len(parts),
           \A i \in 1 .. Len(parts) : less[i].size <= parts[i].size
    PROVE SizeOf(less) <= SizeOf(parts)
<1>1. PICK f : Sums(f, parts)
  BY SumsExist
<1>2. PICK g : Sums(g, less)
  BY SumsExist
<1>3. /\ Len(parts) \in Nat
      /\ \A i \in 1 .. Len(parts) : parts[i].size \in Nat /\ less[i].size \in Nat
  BY Typed
<1> DEFINE wrong == {i \in 0 .. Len(parts) : ~ (g[i] <= f[i])}
<1>4. SUFFICES ASSUME wrong # {} PROVE FALSE
  BY <1>1, <1>2, <1>3, SizeIsSum
<1>5. PICK n \in wrong : \A k \in wrong : n <= k
  <2>1. wrong \in SUBSET Nat
    BY <1>3
  <2> HIDE DEF wrong
  <2> QED
    BY <1>4, <2>1, LeastOf
<1>6. n # 0 /\ n - 1 \in 0 .. Len(parts) /\ n \in 1 .. Len(parts)
  BY <1>1, <1>2, <1>3, <1>5 DEF Sums
<1>7. g[n - 1] <= f[n - 1]
  BY <1>3, <1>5, <1>6
<1>8. /\ f[n] = f[n - 1] + parts[n].size /\ g[n] = g[n - 1] + less[n].size
      /\ f[n - 1] \in Nat /\ g[n - 1] \in Nat
  BY <1>1, <1>2, <1>6 DEF Sums
<1> QED
  BY <1>3, <1>5, <1>6, <1>7, <1>8
----------------------------------------------------------------------------
(* The inductive invariant.                                                *)

Newest == Len(segs)
Appending == op.step \in {"evict", "open", "write"}

\* A segment with at least one event, and nothing else.
Whole(part) == part.header /\ part.partial = 0 /\ part.first <= part.last

\* What the append in progress has made sure of so far.
OpInv ==
    /\ Appending => op.size \in RecordSizes
    /\ op.step \in {"evict", "open"} => op.rotate
    /\ op.step \in {"open", "write"} => total + payload <= Budget
    /\ op.step \in {"idle", "evict", "open"} /\ segs # <<>> => Whole(segs[Newest])
    /\ op.step # "stopped" /\ segs # <<>> => segs[Newest].last = next - 1
    /\ op.step = "write" =>
        /\ segs # <<>>
        /\ op.rotate => /\ segs[Newest].size = 0 /\ ~segs[Newest].header
                        /\ segs[Newest].partial = 0 /\ segs[Newest].first = next
        /\ ~op.rotate => Whole(segs[Newest]) /\ segs[Newest].size + op.size <= SegmentBytes

SegsInv ==
    /\ next > 0
    /\ \A i \in 1 .. Newest : segs[i].size <= SegmentBytes /\ segs[i].partial <= segs[i].size
    /\ \A i \in 1 .. Newest - 1 : Whole(segs[i])
    /\ NewestRetained

SpoolInv == TypeOK /\ total <= Budget /\ SegsInv /\ OpInv
LEMMA Shape ==
    ASSUME TypeOK
    PROVE /\ Newest \in Nat /\ DOMAIN segs = 1 .. Newest
          /\ \A i \in 1 .. Newest : /\ segs[i] \in Segments /\ segs[i].size \in Nat
                                    /\ segs[i].first \in Nat /\ segs[i].last \in Nat
                                    /\ segs[i].partial \in Nat /\ segs[i].header \in BOOLEAN
          /\ segs # <<>> => Newest # 0 /\ Last(segs) = segs[Newest]
          /\ next \in Nat /\ op.size \in Nat /\ op.rotate \in BOOLEAN /\ total \in Nat
<1>1. segs \in Seq(Segments) /\ next \in Nat
  BY DEF TypeOK
<1>2. op.size \in Nat /\ op.rotate \in BOOLEAN
  BY DEF TypeOK
<1>3. \A i \in 1 .. Newest : segs[i] \in Segments
  BY <1>1 DEF Newest
<1>4. \A part \in Segments : /\ part.size \in Nat /\ part.first \in Nat /\ part.last \in Nat
                             /\ part.partial \in Nat /\ part.header \in BOOLEAN
  BY DEF Segments
<1>5. total \in Nat
  BY <1>1, SizeNat DEF total
<1> QED
  BY <1>1, <1>2, <1>3, <1>4, <1>5 DEF Newest, Last

LEMMA Bounds ==
    ASSUME TypeOK, OpInv
    PROVE /\ HeaderBytes \in Nat /\ HeaderBytes > 0 /\ SegmentBytes \in Nat /\ Budget \in Nat
          /\ Appending => op.size > 0 /\ HeaderBytes + op.size <= SegmentBytes
          /\ payload \in Nat
          /\ Appending => payload > 0 /\ payload <= SegmentBytes
          /\ op.rotate => payload = HeaderBytes + op.size
          /\ ~op.rotate => payload = op.size
          /\ SegmentBytes <= Budget /\ 2 * SegmentBytes <= Budget
<1>1. op.size \in Nat /\ op.rotate \in BOOLEAN
  BY DEF TypeOK
<1>2. Appending => op.size \in RecordSizes
  BY DEF OpInv
<1> QED
  BY <1>1, <1>2, SpoolAssumption DEF payload

\* An append or an interruption changes the newest segment only.
LEMMA NewestKept ==
    ASSUME SpoolInv, segs # <<>>, NEW part \in Segments, segs' = [segs EXCEPT ![Newest] = part],
           part.first = segs[Newest].first, part.last \in {next' - 1, next'}, next' > 0,
           part.size <= SegmentBytes, part.partial <= part.size,
           total - segs[Newest].size + part.size <= Budget,
           next' > 1 => (part.header /\ part.first <= part.last) \/ Newest > 1
    PROVE /\ segs' \in Seq(Segments) /\ total' <= Budget /\ SegsInv'
          /\ Newest' = Newest /\ segs' # <<>> /\ segs'[Newest] = part
<1>1. TypeOK /\ SegsInv /\ segs \in Seq(Segments)
  BY DEF SpoolInv, TypeOK
<1>2. Newest \in Nat /\ Newest # 0 /\ DOMAIN segs = 1 .. Newest
  BY <1>1, Shape
<1>3. /\ segs' \in Seq(Segments) /\ Newest' = Newest /\ segs' # <<>> /\ segs'[Newest] = part
      /\ \A i \in 1 .. Newest - 1 : segs'[i] = segs[i]
      /\ DOMAIN segs' = 1 .. Newest
  BY <1>1, <1>2 DEF Newest
<1>4. total' = total - segs[Newest].size + part.size
  BY <1>1, <1>3, SizeNewest DEF total, Newest
<1>5. \A i \in 1 .. Newest : i < Newest \/ i = Newest
  BY <1>2
<1>6. NewestRetained'
  <2>1. \A i \in DOMAIN segs' : i > 1 => segs'[i].first = segs'[i - 1].last + 1
    <3> SUFFICES ASSUME NEW i \in 1 .. Newest, i > 1 PROVE segs'[i].first = segs'[i - 1].last + 1
      BY <1>3
    <3>1. segs[i].first = segs[i - 1].last + 1 /\ i - 1 \in 1 .. Newest - 1
      BY <1>1, <1>2 DEF SegsInv, NewestRetained
    <3>2. segs'[i].first = segs[i].first
      BY <1>2, <1>3, <1>5
    <3> QED
      BY <1>3, <3>1, <3>2
  <2>2. Last(segs') = part
    BY <1>3 DEF Last, Newest
  <2>3. next' > 1 => \E i \in DOMAIN segs' : segs'[i].header /\ segs'[i].first <= segs'[i].last
    <3>1. CASE part.header /\ part.first <= part.last
      BY <1>2, <1>3, <3>1
    <3>2. CASE Newest > 1
      <4>1. 1 \in 1 .. Newest - 1 /\ 1 \in DOMAIN segs'
        BY <1>2, <1>3, <3>2
      <4> QED
        BY <1>1, <1>3, <4>1 DEF SegsInv, Whole
    <3> QED
      BY <3>1, <3>2
  <2> QED
    BY <2>1, <2>2, <2>3 DEF NewestRetained
<1>7. SegsInv'
  <2>1. \A i \in 1 .. Newest' : segs'[i].size <= SegmentBytes /\ segs'[i].partial <= segs'[i].size
    BY <1>1, <1>2, <1>3, <1>5 DEF SegsInv
  <2>2. \A i \in 1 .. Newest' - 1 : Whole(segs'[i])
    BY <1>1, <1>3 DEF SegsInv
  <2> QED
    BY <1>6, <2>1, <2>2 DEF SegsInv
<1> QED
  BY <1>3, <1>4, <1>7

LEMMA AppendStarts ==
    ASSUME SpoolInv, NEW n \in RecordSizes, appendBoundedEvent(n)
    PROVE SpoolInv'
<1>1. TypeOK /\ SegsInv /\ OpInv /\ UNCHANGED <<segs, next>> /\ op.step = "idle" /\ n \in Nat
  BY SpoolAssumption DEF SpoolInv, appendBoundedEvent
<1> DEFINE rotate == \/ segs = <<>>
                     \/ Last(segs).size + n > SegmentBytes
                     \/ total + n > Budget
<1>2. op' = [step |-> IF rotate THEN "evict" ELSE "write", size |-> n, rotate |-> rotate]
      /\ rotate \in BOOLEAN
  BY DEF appendBoundedEvent
<1>3. ~rotate => segs # <<>> /\ segs[Newest].size + n <= SegmentBytes /\ total + n <= Budget
  BY <1>1, Shape, SpoolAssumption
<1> HIDE DEF rotate
<1>4. op'.step = (IF rotate THEN "evict" ELSE "write") /\ op'.size = n /\ op'.rotate = rotate
  BY <1>2
<1>5. TypeOK'
  BY <1>1, <1>2 DEF TypeOK
<1>6. total' = total /\ SegsInv' /\ Newest' = Newest /\ (~rotate => payload' = n)
  BY <1>1, <1>4 DEF total, SegsInv, NewestRetained, Newest, payload
<1>7. OpInv'
  BY <1>1, <1>3, <1>4, <1>6 DEF OpInv, Appending, Whole
<1> QED
  BY <1>5, <1>6, <1>7 DEF SpoolInv
\* A segment is only removed while another one stays: one segment and the record always fit.
LEMMA EvictLeavesOne ==
    ASSUME SpoolInv, Evict
    PROVE Newest > 1
<1>1. TypeOK /\ SegsInv /\ OpInv /\ op.step = "evict" /\ total + payload > Budget /\ segs # <<>>
  BY DEF SpoolInv, Evict, NeedsRoom
<1>2. Newest \in Nat /\ Newest # 0 /\ segs[1].size <= SegmentBytes /\ payload <= SegmentBytes
      /\ segs[1].size \in Nat /\ total \in Nat
  BY <1>1, Shape, Bounds DEF SegsInv, Appending
<1> SUFFICES ASSUME Newest = 1 PROVE FALSE
  BY <1>2
<1>3. Tail(segs) = <<>> /\ segs \in Seq(Segments)
  <2>1. segs \in Seq(Segments) /\ Len(segs) = 1
    BY <1>1 DEF TypeOK, Newest
  <2>2. Tail(segs) \in Seq(Segments) /\ Len(Tail(segs)) = 0
    BY <1>1, <2>1, HeadTailProperties
  <2> QED
    BY <2>1, <2>2, EmptySeq
<1>4. total = segs[1].size
  <2>1. SizeOf(segs) = segs[1].size + SizeOf(Tail(segs))
    BY <1>1, <1>3, SizeTail
  <2>2. SizeOf(segs) = segs[1].size + 0
    BY <1>3, <2>1, SizeEmpty
  <2> QED
    BY <1>2, <2>2 DEF total
<1> QED
  BY <1>1, <1>2, <1>4, Bounds

LEMMA EvictKeeps ==
    ASSUME SpoolInv, Evict
    PROVE SpoolInv'
<1>1. TypeOK /\ SegsInv /\ OpInv /\ op.step = "evict" /\ segs # <<>> /\ segs' = Tail(segs)
      /\ UNCHANGED <<next, op>> /\ segs \in Seq(Segments) /\ total <= Budget
  BY DEF SpoolInv, Evict, NeedsRoom, TypeOK
<1>2. Newest \in Nat /\ Newest > 1
  BY <1>1, Shape, EvictLeavesOne
<1>3. /\ segs' \in Seq(Segments) /\ Newest' = Newest - 1 /\ segs' # <<>>
      /\ \A i \in 1 .. Newest - 1 : segs'[i] = segs[i + 1]
      /\ DOMAIN segs' = 1 .. Newest - 1
  <2>1. /\ segs' \in Seq(Segments) /\ Newest' = Newest - 1
        /\ \A i \in 1 .. Newest - 1 : segs'[i] = segs[i + 1]
    BY <1>1, HeadTailProperties DEF Newest
  <2> QED
    BY <1>2, <2>1 DEF Newest
<1>4. total' <= Budget
  <2>1. total = segs[1].size + total' /\ total' \in Nat
    BY <1>1, <1>3, SizeTail, SizeNat DEF total
  <2>2. segs[1].size \in Nat
    BY <1>1, <1>2, Shape
  <2> QED
    BY SMTT(30), <1>1, <2>1, <2>2, Shape, Bounds
<1>5. TypeOK'
  BY <1>1, <1>3 DEF TypeOK
<1>6. \A i \in 1 .. Newest - 1 : i + 1 \in 1 .. Newest
  BY <1>2
<1>7. Whole(segs'[Newest - 1]) /\ segs'[Newest - 1].last = next - 1 /\
      Newest - 1 \in 1 .. Newest - 1
  <2>1. Whole(segs[Newest]) /\ segs[Newest].last = next - 1
    BY <1>1 DEF OpInv
  <2> QED
    BY <1>2, <1>3, <2>1
<1>8. NewestRetained'
  <2>1. \A i \in DOMAIN segs' : i > 1 => segs'[i].first = segs'[i - 1].last + 1
    <3> SUFFICES ASSUME NEW i \in 1 .. Newest - 1, i > 1
                 PROVE segs'[i].first = segs'[i - 1].last + 1
      BY <1>3
    <3>1. i + 1 \in DOMAIN segs /\ i - 1 \in 1 .. Newest - 1 /\ (i - 1) + 1 = (i + 1) - 1 /\
          i + 1 > 1
      BY <1>1, <1>2, Shape
    <3>2. segs[i + 1].first = segs[(i + 1) - 1].last + 1
      BY <1>1, <3>1 DEF SegsInv, NewestRetained
    <3> QED
      BY <1>3, <3>1, <3>2
  <2>2. Last(segs').last = next - 1
    BY <1>3, <1>7 DEF Last, Newest
  <2>3. \E i \in DOMAIN segs' : segs'[i].header /\ segs'[i].first <= segs'[i].last
    BY <1>3, <1>7 DEF Whole
  <2> QED
    BY <1>1, <2>1, <2>2, <2>3 DEF NewestRetained
<1>9. SegsInv'
  <2>1. \A i \in 1 .. Newest' : segs'[i].size <= SegmentBytes /\ segs'[i].partial <= segs'[i].size
    BY <1>1, <1>3, <1>6 DEF SegsInv
  <2>2. \A i \in 1 .. Newest' - 1 : Whole(segs'[i])
    <3> SUFFICES ASSUME NEW i \in 1 .. Newest - 2 PROVE Whole(segs'[i])
      BY <1>2, <1>3
    <3>1. i \in 1 .. Newest - 1 /\ i + 1 \in 1 .. Newest - 1
      BY <1>2
    <3> QED
      BY <1>1, <1>3, <3>1 DEF SegsInv
  <2> QED
    BY <1>1, <1>8, <2>1, <2>2 DEF SegsInv
<1>10. OpInv'
  BY <1>1, <1>3, <1>7 DEF OpInv, Appending
<1> QED
  BY <1>4, <1>5, <1>9, <1>10 DEF SpoolInv

LEMMA EvictedKeeps ==
    ASSUME SpoolInv, Evicted
    PROVE SpoolInv'
<1>1. TypeOK /\ SegsInv /\ OpInv /\ op.step = "evict" /\ UNCHANGED <<segs, next>>
      /\ op' = [op EXCEPT !.step = "open"] /\ ~NeedsRoom
  BY DEF SpoolInv, Evicted
<1>2. op'.step = "open" /\ op'.size = op.size /\ op'.rotate = op.rotate /\ TypeOK'
  BY <1>1 DEF TypeOK
<1>3. total' = total /\ payload' = payload /\ SegsInv' /\ Newest' = Newest
  BY <1>1, <1>2 DEF total, payload, SegsInv, NewestRetained, Newest
<1>4. total + payload <= Budget
  <2>1. CASE segs = <<>>
    BY <1>1, <2>1, SizeEmpty, Bounds DEF total, Appending
  <2>2. CASE segs # <<>>
    BY <1>1, <2>2, Shape, Bounds DEF NeedsRoom
  <2> QED
    BY <2>1, <2>2
<1>5. OpInv'
  BY <1>1, <1>2, <1>3, <1>4 DEF OpInv, Appending, Whole
<1> QED
  BY <1>2, <1>3, <1>5 DEF SpoolInv

LEMMA CreateKeeps ==
    ASSUME SpoolInv, Create
    PROVE SpoolInv'
<1> DEFINE part == [first |-> next, last |-> next - 1, size |-> 0, header |-> FALSE, partial |-> 0]
<1>1. TypeOK /\ SegsInv /\ OpInv /\ op.step = "open" /\ UNCHANGED next
      /\ segs' = Append(segs, part) /\ op' = [op EXCEPT !.step = "write"]
  BY DEF SpoolInv, Create
<1>2. next \in Nat /\ next > 0 /\ segs \in Seq(Segments) /\ Newest \in Nat
  BY <1>1, Shape DEF TypeOK, SegsInv
<1>3. part \in Segments
  BY <1>2 DEF Segments
<1> HIDE DEF part
<1>4. /\ segs' \in Seq(Segments) /\ Newest' = Newest + 1 /\ segs' # <<>>
      /\ \A i \in 1 .. Newest : segs'[i] = segs[i]
      /\ segs'[Newest + 1] = part /\ DOMAIN segs' = 1 .. Newest + 1
  BY <1>1, <1>2, <1>3, AppendProperties DEF Newest
<1>5. part.first = next /\ part.last = next - 1 /\ part.size = 0 /\ ~part.header /\ part.partial = 0
  BY DEF part
<1>6. total' = total
  <2>1. total' = total + part.size
    BY <1>1, <1>2, <1>3, SizeAppend DEF total
  <2> QED
    BY <1>1, <1>5, <2>1, Shape
<1>7. op'.step = "write" /\ op'.size = op.size /\ op'.rotate = op.rotate /\ op.rotate /\ TypeOK'
  BY <1>1, <1>4 DEF TypeOK, OpInv
<1>8. \A i \in 1 .. Newest : Whole(segs[i]) /\ (i = Newest => segs[i].last = next - 1)
  <2>1. \A i \in 1 .. Newest : i \in 1 .. Newest - 1 \/ (i = Newest /\ segs # <<>>)
    BY <1>1, <1>2, EmptySeq DEF Newest
  <2> QED
    BY <1>1, <2>1 DEF SegsInv, OpInv
<1>9. NewestRetained'
  <2>1. \A i \in DOMAIN segs' : i > 1 => segs'[i].first = segs'[i - 1].last + 1
    <3> SUFFICES ASSUME NEW i \in 1 .. Newest + 1, i > 1
                 PROVE segs'[i].first = segs'[i - 1].last + 1
      BY <1>4
    <3>1. i - 1 \in 1 .. Newest
      BY <1>2
    <3>2. CASE i = Newest + 1
      BY <1>2, <1>4, <1>5, <1>8, <3>1, <3>2
    <3>3. CASE i # Newest + 1
      <4>1. i \in 1 .. Newest /\ i \in DOMAIN segs
        BY <1>1, <1>2, <3>3, Shape
      <4> QED
        BY <1>1, <1>4, <3>1, <4>1 DEF SegsInv, NewestRetained
    <3> QED
      BY <3>2, <3>3
  <2>2. Last(segs').last = next' - 1
    BY <1>1, <1>4, <1>5 DEF Last, Newest
  <2>3. next > 1 => \E i \in 1 .. Newest : segs'[i].header /\ segs'[i].first <= segs'[i].last
    BY <1>1, <1>4, Shape DEF SegsInv, NewestRetained
  <2> QED
    BY <1>1, <1>2, <1>4, <2>1, <2>2, <2>3 DEF NewestRetained
<1>10. SegsInv'
  <2>1. \A i \in 1 .. Newest' : i \in 1 .. Newest \/ i = Newest + 1
    BY <1>2, <1>4
  <2>2. \A i \in 1 .. Newest' : segs'[i].size <= SegmentBytes /\ segs'[i].partial <= segs'[i].size
    <3>1. \A i \in 1 .. Newest : segs'[i].size <= SegmentBytes /\ segs'[i].partial <= segs'[i].size
      BY <1>1, <1>4 DEF SegsInv
    <3>2. segs'[Newest + 1].size <= SegmentBytes /\
          segs'[Newest + 1].partial <= segs'[Newest + 1].size
      BY <1>1, <1>4, <1>5, Bounds
    <3> QED
      BY <2>1, <3>1, <3>2
  <2>3. \A i \in 1 .. Newest' - 1 : Whole(segs'[i])
    BY <1>2, <1>4, <1>8
  <2> QED
    BY <1>1, <1>2, <1>9, <2>2, <2>3 DEF SegsInv
<1>11. OpInv'
  <2>1. payload' = payload
    BY <1>7 DEF payload
  <2> QED
    BY <1>1, <1>4, <1>5, <1>6, <1>7, <2>1 DEF OpInv, Appending
<1> QED
  BY <1>1, <1>6, <1>7, <1>10, <1>11 DEF SpoolInv
LEMMA AddsUp ==
    ASSUME NEW t \in Int, NEW s \in Int, NEW p \in Int, NEW b \in Int, NEW k \in Int,
           t + p <= b, k <= p
    PROVE t - s + (s + k) <= b
OBVIOUS

\* What the write of a record makes of the newest segment.
LEMMA WrittenIs ==
    ASSUME SpoolInv, op.step = "write", NEW part, part = Written(segs[Newest])
    PROVE /\ part \in Segments /\ part.header /\ part.first = segs[Newest].first
          /\ part.last = next /\ part.first <= part.last
          /\ part.size = segs[Newest].size + payload /\ part.size <= SegmentBytes
          /\ part.partial = 0
          /\ total - segs[Newest].size + part.size <= Budget
<1>1. TypeOK /\ OpInv /\ segs # <<>> /\ Newest \in 1 .. Newest
  BY Shape DEF SpoolInv, OpInv
<1>2. /\ part.header = TRUE /\ part.first = segs[Newest].first /\ part.last = next
      /\ part.size = segs[Newest].size + payload /\ part.partial = segs[Newest].partial
      /\ part = [first |-> segs[Newest].first, last |-> next, size |-> segs[Newest].size + payload,
                 header |-> TRUE, partial |-> segs[Newest].partial]
  <2>1. segs[Newest] \in Segments
    BY <1>1, Shape
  <2> QED
    BY <2>1 DEF Written, Segments
<1>3. /\ segs[Newest].first \in Nat /\ segs[Newest].size \in Nat /\ next \in Nat /\ total \in Nat
      /\ payload \in Nat /\ segs[Newest].partial \in Nat /\ segs[Newest].last \in Nat
  BY <1>1, Shape, Bounds
<1>4. part \in Segments
  BY <1>2, <1>3 DEF Segments
<1>5. total + payload <= Budget /\ op.size \in Nat /\ segs[Newest].last = next - 1
  BY <1>1, Shape DEF OpInv
<1>6. CASE op.rotate
  <2>1. segs[Newest].size = 0 /\ segs[Newest].partial = 0 /\ segs[Newest].first = next
    BY <1>1, <1>6 DEF OpInv
  <2>2. payload <= SegmentBytes
    BY <1>1, Bounds DEF Appending
  <2> QED
    BY <1>1, <1>2, <1>3, <1>4, <1>5, <2>1, <2>2, Bounds
<1>7. CASE ~op.rotate
  <2>1. segs[Newest].partial = 0 /\ segs[Newest].first <= segs[Newest].last
        /\ segs[Newest].size + op.size <= SegmentBytes /\ payload = op.size
    BY <1>1, <1>7, Bounds DEF OpInv, Whole
  <2>2. part.first <= part.last /\ part.partial = 0
    BY <1>2, <1>3, <1>5, <2>1
  <2>3. part.size <= SegmentBytes
    BY <1>2, <2>1
  <2>4. total - segs[Newest].size + part.size <= Budget
    <3>1. Budget \in Int /\ total \in Int /\ payload \in Int /\ segs[Newest].size \in Int
      BY <1>1, <1>3, Bounds
    <3> QED
      BY <1>2, <1>5, <3>1, AddsUp
  <2> QED
    BY <1>2, <1>4, <2>2, <2>3, <2>4
<1> QED
  BY <1>6, <1>7

LEMMA WriteKeeps ==
    ASSUME SpoolInv, Write
    PROVE SpoolInv'
<1>1. PICK part : part = Written(segs[Newest])
  OBVIOUS
<1>2. TypeOK /\ SegsInv /\ OpInv /\ op.step = "write" /\ segs # <<>> /\ next' = next + 1
      /\ next \in Nat /\ next > 0 /\ op' = Idle
  BY Shape DEF SpoolInv, Write, OpInv, SegsInv
<1>3. segs' = [segs EXCEPT ![Newest] = part]
  BY <1>1 DEF Write, Newest
<1>4. /\ part \in Segments /\ part.header /\ part.first = segs[Newest].first
      /\ part.last = next /\ part.first <= part.last
      /\ part.size <= SegmentBytes /\ part.partial = 0 /\ part.size \in Nat
      /\ total - segs[Newest].size + part.size <= Budget
  BY <1>1, <1>2, WrittenIs DEF Segments
<1>5. part.partial <= part.size /\ part.last \in {next' - 1, next'} /\ next' > 0
  BY <1>2, <1>4
<1>6. /\ segs' \in Seq(Segments) /\ total' <= Budget /\ SegsInv'
      /\ Newest' = Newest /\ segs'[Newest] = part
  BY <1>2, <1>3, <1>4, <1>5, NewestKept
<1>7. op'.step = "idle" /\ op' \in [step : {"idle"}, size : Nat, rotate : BOOLEAN]
  BY <1>2 DEF Idle
<1>8. TypeOK'
  BY <1>2, <1>6, <1>7 DEF TypeOK
<1>9. OpInv'
  BY <1>2, <1>4, <1>6, <1>7 DEF OpInv, Appending, Whole
<1> QED
  BY <1>6, <1>8, <1>9 DEF SpoolInv

\* Nothing is asked of a spool whose writer has stopped.
LEMMA StoppedKeeps ==
    ASSUME op'.step = "stopped"
    PROVE OpInv'
BY DEF OpInv, Appending

LEMMA TornKeeps ==
    ASSUME SpoolInv, op.step = "write", NEW k \in 1 .. payload, k # payload, UNCHANGED next,
           segs' = [segs EXCEPT ![Newest] =
               IF ~op.rotate THEN [segs[Newest] EXCEPT !.size = @ + k, !.partial = k]
               ELSE [segs[Newest] EXCEPT !.size = k, !.header = k >= HeaderBytes,
                        !.partial = IF k > HeaderBytes
                                                        THEN k - HeaderBytes ELSE 0]]
    PROVE segs' \in Seq(Segments) /\ total' <= Budget /\ SegsInv'
<1> DEFINE part == IF ~op.rotate THEN [segs[Newest] EXCEPT !.size = @ + k, !.partial = k]
               ELSE [segs[Newest] EXCEPT !.size = k, !.header = k >= HeaderBytes,
                        !.partial = IF k > HeaderBytes
                                                        THEN k - HeaderBytes ELSE 0]
<1>1. /\ TypeOK /\ SegsInv /\ OpInv /\ segs # <<>> /\ next \in Nat /\ next > 0
      /\ Newest \in 1 .. Newest /\ payload \in Nat /\ payload <= SegmentBytes
      /\ SegmentBytes \in Nat /\ HeaderBytes \in Nat /\ Budget \in Nat /\ total \in Nat
      /\ total + payload <= Budget /\ segs[Newest].last = next - 1
  BY Shape, Bounds DEF SpoolInv, OpInv, SegsInv, Appending
<1>2. /\ segs[Newest] \in Segments /\ segs[Newest].first \in Nat /\ segs[Newest].last \in Nat
      /\ segs[Newest].size \in Nat /\ segs[Newest].header \in BOOLEAN
  BY <1>1, Shape
<1>3. CASE op.rotate
  <2> DEFINE rest == IF k > HeaderBytes THEN k - HeaderBytes ELSE 0
             full == k >= HeaderBytes
  <2>1. rest \in Nat /\ rest <= k /\ full \in BOOLEAN /\ k \in Nat
    BY <1>1
  <2> HIDE DEF rest, full
  <2>2. part = [segs[Newest] EXCEPT !.size = k, !.header = full, !.partial = rest]
    BY <1>3 DEF rest, full
  <2>3. /\ part \in Segments /\ part.size = k /\ part.partial = rest /\ part.header = full
        /\ part.first = segs[Newest].first /\ part.last = segs[Newest].last
    BY <1>2, <2>1, <2>2 DEF Segments
  <2>4. segs[Newest].size = 0 /\ (next > 1 => Newest > 1)
    <3>1. segs[Newest].size = 0 /\ segs[Newest].header = FALSE
      BY <1>1, <1>2, <1>3 DEF OpInv
    <3>2. next > 1 => \E i \in 1 .. Newest : i # Newest
      BY <1>1, <3>1, Shape DEF SegsInv, NewestRetained
    <3> QED
      BY <1>1, <3>1, <3>2
  <2> HIDE DEF part
  <2>5. part.size <= SegmentBytes /\ part.partial <= part.size
        /\ total - segs[Newest].size + part.size <= Budget
    BY <1>1, <2>1, <2>3, <2>4
  <2> QED
    BY <1>1, <2>3, <2>4, <2>5, NewestKept DEF part
<1>4. CASE ~op.rotate
  <2>1. k \in Nat
    OBVIOUS
  <2>2. part = [segs[Newest] EXCEPT !.size = segs[Newest].size + k, !.partial = k]
    BY <1>4
  <2>3. /\ part \in Segments /\ part.size = segs[Newest].size + k /\ part.partial = k
        /\ part.header = segs[Newest].header
        /\ part.first = segs[Newest].first /\ part.last = segs[Newest].last
    <3> HIDE DEF part
    <3>1. segs[Newest].size + k \in Nat
      BY <1>2, <2>1
    <3>2. part = [first |-> segs[Newest].first, last |-> segs[Newest].last,
                  size |-> segs[Newest].size + k, header |-> segs[Newest].header, partial |-> k]
      BY <1>2, <2>2, <3>1 DEF Segments
    <3> QED
      BY <1>2, <2>1, <3>1, <3>2 DEF Segments
  <2>4. /\ segs[Newest].header /\ segs[Newest].first <= segs[Newest].last
        /\ segs[Newest].size + op.size <= SegmentBytes /\ payload = op.size
    BY <1>1, <1>4, Bounds DEF OpInv, Whole
  <2> HIDE DEF part
  <2>5. part.size <= SegmentBytes /\ part.partial <= part.size
        /\ total - segs[Newest].size + part.size <= Budget
    <3>1. k <= payload /\ k \in Int /\ payload \in Int /\ segs[Newest].size \in Nat /\
          op.size \in Nat
      BY <1>1, <1>2, Shape
    <3>2. part.size <= SegmentBytes /\ part.partial <= part.size
      <4>1. \A s, j, n, b \in Nat : s + n <= b /\ j <= n => s + j <= b /\ j <= s + j
        OBVIOUS
      <4>2. k \in Nat /\ k <= op.size
        BY <2>1, <2>4, <3>1
      <4>3. segs[Newest].size + k <= SegmentBytes /\ k <= segs[Newest].size + k
        BY <1>1, <2>4, <3>1, <4>1, <4>2
      <4> QED
        BY <2>3, <4>3
    <3>3. /\ total \in Int /\ segs[Newest].size \in Int /\ payload \in Int /\ Budget \in Int
          /\ k \in Int /\ total + payload <= Budget /\ k <= payload
      BY <1>1, <3>1
    <3>4. total - segs[Newest].size + (segs[Newest].size + k) <= Budget
      BY <3>3, AddsUp
    <3> QED
      BY <2>3, <3>2, <3>4
  <2> QED
    BY <1>1, <2>3, <2>4, <2>5, NewestKept DEF part
<1> QED
  BY <1>3, <1>4
LEMMA InterruptKeeps ==
    ASSUME SpoolInv, Interrupt
    PROVE SpoolInv'
<1>1. TypeOK /\ SegsInv /\ OpInv /\ total <= Budget /\ UNCHANGED next
      /\ op' = [op EXCEPT !.step = "stopped"] /\ next \in Nat /\ next > 0
  BY Shape DEF SpoolInv, Interrupt, SegsInv
<1>2. op'.step = "stopped"
      /\ op' \in [step : {"idle", "evict", "open", "write", "stopped"}, size : Nat,
                  rotate : BOOLEAN]
  BY <1>1 DEF TypeOK
<1>3. SUFFICES segs' \in Seq(Segments) /\ total' <= Budget /\ SegsInv'
  BY <1>1, <1>2, StoppedKeeps DEF SpoolInv, TypeOK
<1>4. CASE UNCHANGED segs
  BY <1>1, <1>4 DEF TypeOK, total, SegsInv, NewestRetained, Newest
<1>5. CASE op.step = "write"
           /\ \E k \in 1 .. payload :
               LET seg == Last(segs)
                   torn == IF ~op.rotate THEN [seg EXCEPT !.size = @ + k, !.partial = k]
                           ELSE [seg EXCEPT !.size = k, !.header = k >= HeaderBytes,
                                            !.partial = IF k > HeaderBytes
                                                        THEN k - HeaderBytes ELSE 0]
               IN segs' = [segs EXCEPT ![Len(segs)] = IF k = payload THEN Written(seg) ELSE torn]
  <2>1. segs # <<>> /\ Last(segs) = segs[Newest]
    BY <1>1, <1>5, Shape DEF OpInv
  <2>2. PICK k \in 1 .. payload :
            LET torn == IF ~op.rotate THEN [segs[Newest] EXCEPT !.size = @ + k, !.partial = k]
                        ELSE [segs[Newest] EXCEPT !.size = k, !.header = k >= HeaderBytes,
                                  !.partial = IF k > HeaderBytes
                                                        THEN k - HeaderBytes ELSE 0]
            IN segs' = [segs EXCEPT ![Newest] = IF k = payload THEN Written(segs[Newest]) ELSE torn]
    BY <1>5, <2>1 DEF Newest
  <2>3. CASE k # payload
    BY <1>1, <1>5, <2>2, <2>3, TornKeeps
  <2>4. CASE k = payload
    <3>1. PICK part : part = Written(segs[Newest])
      OBVIOUS
    <3>2. segs' = [segs EXCEPT ![Newest] = part]
      BY <2>2, <2>4, <3>1
    <3>3. /\ part \in Segments /\ part.header /\ part.first = segs[Newest].first
          /\ part.last = next /\ part.first <= part.last
          /\ part.size <= SegmentBytes /\ part.partial = 0 /\ part.size \in Nat
          /\ total - segs[Newest].size + part.size <= Budget
      BY <1>5, <3>1, WrittenIs DEF Segments
    <3>4. part.partial <= part.size /\ part.last \in {next' - 1, next'} /\ next' > 0
      BY <1>1, <3>3
    <3> QED
      BY <2>1, <3>2, <3>3, <3>4, NewestKept
  <2> QED
    BY <2>3, <2>4
<1> QED
  BY <1>4, <1>5 DEF Interrupt

LEMMA StopKeeps ==
    ASSUME SpoolInv, Stop
    PROVE SpoolInv'
<1>1. TypeOK /\ SegsInv /\ total <= Budget /\ UNCHANGED <<segs, next>>
      /\ op' = [op EXCEPT !.step = "stopped"]
  BY DEF SpoolInv, Stop
<1>2. op'.step = "stopped" /\ TypeOK'
  BY <1>1 DEF TypeOK
<1> QED
  BY <1>1, <1>2, StoppedKeeps DEF SpoolInv, total, SegsInv, NewestRetained, Newest

LEMMA TruncateKeeps ==
    ASSUME SpoolInv, op.step \in {"idle", "stopped"}, Truncate, UNCHANGED <<next, op>>
    PROVE SpoolInv'
<1>1. TypeOK /\ SegsInv /\ OpInv /\ total <= Budget /\ segs \in Seq(Segments)
  BY DEF SpoolInv, TypeOK
<1> DEFINE cut(i) == [segs[i] EXCEPT !.size = @ - segs[i].partial, !.partial = 0]
<1>2. \A i \in 1 .. Newest :
        /\ cut(i) \in Segments /\ cut(i).size <= segs[i].size /\ cut(i).partial = 0
        /\ cut(i).first = segs[i].first /\ cut(i).last = segs[i].last
        /\ cut(i).header = segs[i].header
  <2> SUFFICES ASSUME NEW i \in 1 .. Newest
               PROVE /\ cut(i) \in Segments /\ cut(i).size <= segs[i].size /\ cut(i).partial = 0
                     /\ cut(i).first = segs[i].first /\ cut(i).last = segs[i].last
                     /\ cut(i).header = segs[i].header
    OBVIOUS
  <2>1. segs[i] \in Segments /\ segs[i].partial <= segs[i].size /\ segs[i].size \in Nat
        /\ segs[i].partial \in Nat
    BY <1>1, Shape DEF SegsInv
  <2>2. segs[i].size - segs[i].partial \in Nat /\ segs[i].size - segs[i].partial <= segs[i].size
    BY <2>1
  <2>3. cut(i) = [first |-> segs[i].first, last |-> segs[i].last, header |-> segs[i].header,
                  size |-> segs[i].size - segs[i].partial, partial |-> 0]
    <3>1. cut(i) = [segs[i] EXCEPT !.size = segs[i].size - segs[i].partial, !.partial = 0]
      OBVIOUS
    <3> HIDE DEF cut
    <3> QED
      BY <2>1, <2>2, <3>1 DEF Segments
  <2> QED
    BY <2>1, <2>2, <2>3 DEF Segments
<1>3. DOMAIN segs = 1 .. Newest /\ Newest \in Nat
  BY <1>1, Shape
<1>4. segs' = [i \in 1 .. Newest |-> cut(i)]
  BY <1>3 DEF Truncate
<1> HIDE DEF cut
<1>5. segs' \in Seq(Segments) /\ Newest' = Newest /\ DOMAIN segs' = 1 .. Newest
      /\ \A i \in 1 .. Newest : segs'[i] = cut(i)
  BY <1>2, <1>3, <1>4 DEF Newest
<1>6. total' <= Budget
  <2>1. SizeOf(segs') <= SizeOf(segs)
    BY <1>1, <1>2, <1>5, SizeShrinks DEF Newest
  <2> QED
    BY <1>1, <1>5, <2>1, SizeNat, Bounds DEF total
<1>7. \A i \in 1 .. Newest :
        /\ segs'[i].size <= segs[i].size /\ segs'[i].size \in Nat /\ segs'[i].partial = 0
        /\ segs'[i].first = segs[i].first /\ segs'[i].last = segs[i].last
        /\ segs'[i].header = segs[i].header
  BY <1>2, <1>5 DEF Segments
<1>8. TypeOK'
  BY <1>1, <1>5 DEF TypeOK
<1>9. NewestRetained'
  <2>1. segs' # <<>> => segs # <<>>
    BY <1>1, <1>5, EmptySeq DEF Newest
  <2>2. segs' # <<>> => Last(segs').last = Last(segs).last
    BY <1>1, <1>5, <1>7, <2>1, Shape DEF Last, Newest
  <2>3. \A i \in 1 .. Newest : i > 1 => i - 1 \in 1 .. Newest
    BY <1>3
  <2>4. \A i \in DOMAIN segs' : i > 1 => segs'[i].first = segs'[i - 1].last + 1
    BY <1>1, <1>3, <1>5, <1>7, <2>3 DEF SegsInv, NewestRetained
  <2>5. next > 1 => \E i \in DOMAIN segs' : segs'[i].header /\ segs'[i].first <= segs'[i].last
    BY <1>1, <1>3, <1>5, <1>7 DEF SegsInv, NewestRetained
  <2> QED
    BY <1>1, <2>1, <2>2, <2>4, <2>5 DEF SegsInv, NewestRetained
<1>10. SegsInv'
  <2>1. \A i \in 1 .. Newest : segs'[i].size <= SegmentBytes /\ segs'[i].partial <= segs'[i].size
    <3> SUFFICES ASSUME NEW i \in 1 .. Newest
                 PROVE segs'[i].size <= SegmentBytes /\ segs'[i].partial <= segs'[i].size
      OBVIOUS
    <3>1. segs[i].size <= SegmentBytes /\ segs[i].size \in Nat /\ SegmentBytes \in Nat
      BY <1>1, Shape, Bounds DEF SegsInv
    <3>2. segs'[i].size <= segs[i].size /\ segs'[i].size \in Nat /\ segs'[i].partial = 0
      BY <1>7
    <3> QED
      BY <3>1, <3>2
  <2>2. \A i \in 1 .. Newest - 1 : i \in 1 .. Newest /\ Whole(segs[i])
    BY <1>1, <1>3 DEF SegsInv
  <2> QED
    BY <1>1, <1>5, <1>7, <1>9, <2>1, <2>2 DEF SegsInv, Whole
<1>11. OpInv'
  <2>1. segs' # <<>> => segs # <<>> /\ Newest \in 1 .. Newest
    BY <1>1, <1>3, <1>5, EmptySeq, Shape DEF Newest
  <2> QED
    BY <1>1, <1>5, <1>7, <2>1 DEF OpInv, Appending, Whole
<1> QED
  BY <1>6, <1>8, <1>10, <1>11 DEF SpoolInv
LEMMA ReadKeeps ==
    ASSUME SpoolInv, readEvents
    PROVE SpoolInv'
<1>1. CASE Truncate
  BY <1>1, TruncateKeeps DEF readEvents
<1>2. CASE UNCHANGED segs
  BY <1>2 DEF readEvents, SpoolInv, TypeOK, SegsInv, OpInv, NewestRetained, Newest, Appending,
              total, payload
<1> QED
  BY <1>1, <1>2 DEF readEvents

LEMMA InitSpool == Init => SpoolInv
<1> SUFFICES ASSUME Init PROVE SpoolInv
  OBVIOUS
<1>1. segs = <<>> /\ next = 1 /\ op.step = "idle" /\ Newest = 0
      /\ op \in [step : {"idle"}, size : Nat, rotate : BOOLEAN]
  BY DEF Init, Idle, Newest
<1>2. TypeOK
  BY <1>1 DEF TypeOK
<1>3. total <= Budget
  BY <1>1, SizeEmpty, SpoolAssumption DEF total
<1>4. SegsInv
  BY <1>1 DEF SegsInv, NewestRetained
<1>5. OpInv
  BY <1>1 DEF OpInv, Appending
<1> QED
  BY <1>2, <1>3, <1>4, <1>5 DEF SpoolInv

LEMMA StepSpool == SpoolInv /\ [Next]_vars => SpoolInv'
<1> SUFFICES ASSUME SpoolInv, [Next]_vars PROVE SpoolInv'
  OBVIOUS
<1>1. CASE UNCHANGED vars
  BY <1>1 DEF vars, SpoolInv, TypeOK, SegsInv, OpInv, NewestRetained, Newest, Appending, total,
     payload
<1>2. CASE \E n \in RecordSizes : appendBoundedEvent(n)
  BY <1>2, AppendStarts
<1> QED
  BY <1>1, <1>2, EvictKeeps, EvictedKeeps, CreateKeeps, WriteKeeps, InterruptKeeps, StopKeeps,
     ReadKeeps DEF Next

----------------------------------------------------------------------------
(* The spool is a log.                                                     *)

\* Nothing but an incomplete header keeps readEvents from the files.
LEMMA Readable ==
    ASSUME SpoolInv, segs # <<>> => segs[Newest].header
    PROVE Acceptable
<1>1. TypeOK /\ SegsInv /\ Newest \in Nat /\ DOMAIN segs = 1 .. Newest
  BY Shape DEF SpoolInv
<1>2. \A i \in 1 .. Newest : segs # <<>> /\ (i \in 1 .. Newest - 1 \/ i = Newest)
  <2>1. segs = <<>> => Newest = 0
    BY EmptySeq DEF Newest
  <2> QED
    BY <1>1, <2>1
<1>3. \A i \in DOMAIN segs : segs[i].header
  BY <1>1, <1>2 DEF SegsInv, Whole
<1>4. \A i \in DOMAIN segs : i < Len(segs) => segs[i].partial = 0
  <2>1. \A i \in 1 .. Newest : i < Newest => i \in 1 .. Newest - 1
    BY <1>1
  <2> QED
    BY <1>1, <2>1 DEF SegsInv, Whole, Newest
<1>5. \A i \in DOMAIN segs : i > 1 => segs[i].first > segs[i - 1].last
  <2> SUFFICES ASSUME NEW i \in 1 .. Newest, i > 1 PROVE segs[i].first > segs[i - 1].last
    BY <1>1
  <2>1. segs[i].first = segs[i - 1].last + 1 /\ segs[i - 1].last \in Nat
    <3>1. i \in DOMAIN segs /\ i - 1 \in 1 .. Newest
      BY <1>1
    <3>2. segs[i].first = segs[i - 1].last + 1
      BY <1>1, <3>1 DEF SegsInv, NewestRetained
    <3> QED
      BY <1>1, <3>1, <3>2, Shape
  <2> QED
    BY <2>1
<1> QED
  BY <1>3, <1>4, <1>5 DEF Acceptable

\* How the log ends, by what the newest file looks like.
LogEnd ==
    /\ op.step # "stopped" \/ segs = <<>> => ending = "no"
    /\ op.step = "stopped" /\ segs # <<>> =>
        ending = IF ~segs[Newest].header THEN "header"
                 ELSE IF segs[Newest].partial > 0 THEN "record" ELSE "no"
    /\ newest = IF segs = <<>> THEN next - 1 ELSE segs[Newest].last

LEMMA LogEnds == SpoolInv => LogEnd
<1> SUFFICES ASSUME SpoolInv PROVE LogEnd
  OBVIOUS
<1>1. TypeOK /\ SegsInv /\ OpInv
  BY DEF SpoolInv
<1>2. segs # <<>> => /\ Last(segs) = segs[Newest] /\ Newest \in DOMAIN segs
                     /\ segs[Newest].header \in BOOLEAN /\ segs[Newest].partial \in Nat
  BY <1>1, Shape
<1>3. newest = IF segs = <<>> THEN next - 1 ELSE segs[Newest].last
  BY <1>2 DEF newest
<1>4. ASSUME op.step # "stopped" \/ segs = <<>> PROVE ending = "no"
  <2>1. readable
    <3>1. CASE segs = <<>>
      BY <3>1, Readable DEF readable
    <3>2. CASE op.step # "stopped" /\ op.step # "write" /\ segs # <<>>
      <4>1. segs[Newest].header
        BY <1>1, <3>2 DEF OpInv, TypeOK, Whole
      <4> QED
        BY <4>1, Readable DEF readable
    <3> QED
      BY <1>4, <3>1, <3>2 DEF readable
  <2>2. ~halfRecord
    <3>1. segs # <<>> => segs[Newest].partial = 0
      BY <1>1, <1>4 DEF OpInv, TypeOK, Whole
    <3> QED
      BY <1>2, <3>1 DEF halfRecord
  <2> QED
    BY <2>1, <2>2 DEF ending
<1>5. ASSUME op.step = "stopped", segs # <<>>
      PROVE ending = IF ~segs[Newest].header THEN "header"
                     ELSE IF segs[Newest].partial > 0 THEN "record" ELSE "no"
  <2>1. readable <=> segs[Newest].header
    BY <1>2, <1>5, Readable DEF readable, Acceptable
  <2>2. halfRecord <=> segs[Newest].partial > 0
    BY <1>2, <1>5 DEF halfRecord
  <2> QED
    BY <1>2, <1>5, <2>1, <2>2 DEF ending
<1> QED
  BY <1>3, <1>4, <1>5 DEF LogEnd

LEMMA LogEndsNext == SpoolInv' => LogEnd'
BY LogEnds, PTL

\* The events are those between the first and the last of some file.
LEMMA KeptIs ==
    /\ \A m : m \in kept <=> \E i \in DOMAIN segs : m \in segs[i].first .. segs[i].last
    /\ \A m : m \in kept' <=> \E i \in DOMAIN segs' : m \in segs'[i].first .. segs'[i].last
BY DEF kept

\* Files that keep their first and last events keep their events.
LEMMA SameKept ==
    ASSUME DOMAIN segs' = DOMAIN segs,
           \A i \in DOMAIN segs : segs'[i].first = segs[i].first /\ segs'[i].last = segs[i].last
    PROVE kept' = kept
BY DEF kept

\* The written record adds its event, whether or not the writer hears of it.
LEMMA Adds ==
    ASSUME SpoolInv, op.step = "write", SpoolInv',
           segs' = [segs EXCEPT ![Newest] = Written(segs[Newest])]
    PROVE newest' = newest + 1 /\ kept' = kept \cup {newest'}
<1>1. PICK part : part = Written(segs[Newest])
  OBVIOUS
<1>2. TypeOK /\ segs # <<>> /\ segs[Newest].last = next - 1
      /\ (op.rotate => segs[Newest].first = next)
      /\ (~op.rotate => segs[Newest].first <= segs[Newest].last)
  BY DEF SpoolInv, OpInv, Whole
<1>3. /\ Newest \in Nat \ {0} /\ DOMAIN segs = 1 .. Newest /\ next \in Nat
      /\ segs[Newest].first \in Nat /\ op.rotate \in BOOLEAN
  BY <1>2, Shape
<1>4. part.first = segs[Newest].first /\ part.last = next /\ part \in Segments
  BY <1>1, WrittenIs
<1>5. /\ DOMAIN segs' = 1 .. Newest /\ segs'[Newest] = part /\ Len(segs') = Newest
      /\ \A i \in 1 .. Newest : i # Newest => segs'[i] = segs[i]
  <2>1. segs' = [segs EXCEPT ![Newest] = part] /\ segs \in Seq(Segments)
    BY <1>1, <1>2 DEF TypeOK
  <2>2. segs' \in Seq(Segments) /\ DOMAIN segs' = DOMAIN segs
    BY <1>3, <1>4, <2>1
  <2>3. segs'[Newest] = part /\ \A i \in 1 .. Newest : i # Newest => segs'[i] = segs[i]
    BY <1>3, <2>1
  <2>4. Len(segs') = Newest
    BY <2>1, <2>2 DEF Newest
  <2> QED
    BY <1>3, <2>2, <2>3, <2>4
<1>6. newest' = next
  <2>1. Newest' = Newest /\ segs' # <<>>
    BY <1>3, <1>5 DEF Newest
  <2> QED
    BY <1>4, <1>5, <2>1, LogEndsNext DEF LogEnd
<1>7. newest = next - 1
  BY <1>2, LogEnds DEF LogEnd
<1>8. \A m : m \in part.first .. part.last
             <=> m \in segs[Newest].first .. segs[Newest].last \/ m = next
  BY <1>2, <1>3, <1>4
<1>9. \A m : m \in kept' <=> m \in kept \/ m = next
  BY <1>3, <1>5, <1>8, KeptIs
<1>10. kept' = kept \cup {next}
  BY <1>9 DEF kept
<1> QED
  BY <1>3, <1>6, <1>7, <1>10

LEMMA WriteAppends ==
    ASSUME SpoolInv, SpoolInv', Write
    PROVE Log!Append
<1>1. /\ op.step = "write" /\ op'.step = "idle"
      /\ segs' = [segs EXCEPT ![Newest] = Written(segs[Newest])]
  BY DEF Write, Newest, Idle
<1>2. ending = "no" /\ ending' = "no"
  BY <1>1, LogEnds, LogEndsNext DEF LogEnd
<1> QED
  BY <1>1, <1>2, Adds DEF Log!Append

\* A new file holds no event yet.
LEMMA CreateIsSilent ==
    ASSUME SpoolInv, SpoolInv', Create
    PROVE UNCHANGED Log!vars
<1> DEFINE part == [first |-> next, last |-> next - 1, size |-> 0, header |-> FALSE, partial |-> 0]
<1>1. /\ op.step = "open" /\ op'.step = "write" /\ next' = next /\ TypeOK /\ OpInv
      /\ segs' = Append(segs, part) /\ segs \in Seq(Segments) /\ next \in Nat
  <2>1. TypeOK /\ OpInv /\ op' = [op EXCEPT !.step = "write"] /\ op.step = "open"
    BY DEF SpoolInv, Create
  <2> QED
    BY <2>1 DEF Create, TypeOK
<1>2. part.first = next /\ part.last = next - 1 /\ part \in Segments
  <2>1. next > 0
    BY DEF SpoolInv, SegsInv
  <2> QED
    BY <1>1, <2>1 DEF Segments
<1> HIDE DEF part
<1>3. /\ Newest' = Newest + 1 /\ segs' # <<>> /\ Newest \in Nat
      /\ \A i \in 1 .. Newest : segs'[i] = segs[i]
      /\ segs'[Newest + 1] = part /\ DOMAIN segs' = 1 .. Newest + 1 /\ DOMAIN segs = 1 .. Newest
  BY <1>1, <1>2, AppendProperties DEF Newest
<1>4. newest' = newest
  <2>1. newest = next - 1
    BY <1>1, LogEnds DEF LogEnd, OpInv
  <2>2. newest' = next - 1
    BY <1>2, <1>3, LogEndsNext DEF LogEnd
  <2> QED
    BY <2>1, <2>2
<1>5. ending' = ending
  BY <1>1, LogEnds, LogEndsNext DEF LogEnd
<1>6. kept' = kept
  <2>1. \A m : ~ (m \in part.first .. part.last)
    BY <1>1, <1>2
  <2>2. \A i \in 1 .. Newest + 1 : i \in 1 .. Newest \/ i = Newest + 1
    BY <1>3
  <2>3. \A i \in 1 .. Newest : i \in 1 .. Newest + 1
    BY <1>3
  <2>4. \A m : m \in kept' <=> m \in kept
    BY <1>3, <2>1, <2>2, <2>3, KeptIs
  <2> QED
    BY <2>4 DEF kept
<1> QED
  BY <1>4, <1>5, <1>6 DEF Log!vars

\* While an old file is removed, the others begin where it ends or later.
LEMMA Later ==
    ASSUME SpoolInv, op.step = "evict", NEW i \in 2 .. Newest
    PROVE segs[2].first <= segs[i].first
<1> DEFINE wrong == {j \in 2 .. Newest : segs[j].first < segs[2].first}
<1>1. TypeOK /\ SegsInv /\ Newest \in Nat /\ DOMAIN segs = 1 .. Newest
      /\ \A j \in 1 .. Newest : segs[j].first \in Nat /\ segs[j].last \in Nat
  BY Shape DEF SpoolInv
<1>2. \A j \in 2 .. Newest : j \in 1 .. Newest
  BY <1>1
<1>3. SUFFICES ASSUME wrong # {} PROVE FALSE
  BY <1>1, <1>2
<1>4. PICK n \in wrong : \A k \in wrong : n <= k
  <2>1. wrong \in SUBSET Nat
    BY <1>1
  <2> HIDE DEF wrong
  <2> QED
    BY <1>3, <2>1, LeastOf
<1>5. n \in 2 .. Newest /\ segs[n].first < segs[2].first
  BY <1>4
<1>6. n > 2 /\ n - 1 \in 2 .. Newest /\ n - 1 \in 1 .. Newest - 1 /\ n \in 1 .. Newest
  <2>1. n # 2
    BY <1>1, <1>5
  <2> QED
    BY <1>1, <1>5, <2>1
<1>7. segs[n].first = segs[n - 1].last + 1 /\ segs[n - 1].first <= segs[n - 1].last
  <2>1. segs[n].first = segs[n - 1].last + 1
    <3>1. \A j \in 1 .. Newest : j > 1 => segs[j].first = segs[j - 1].last + 1
      BY <1>1 DEF SegsInv, NewestRetained
    <3> QED
      BY <1>6, <3>1
  <2>2. segs[n - 1].first <= segs[n - 1].last
    BY <1>1, <1>6 DEF SegsInv, Whole
  <2> QED
    BY <2>1, <2>2
<1>8. ~ (segs[n - 1].first < segs[2].first)
  <2>1. n - 1 \in wrong => n <= n - 1
    <3> HIDE DEF wrong
    <3> QED
      BY <1>4
  <2> QED
    BY <1>6, <2>1
<1> QED
  BY <1>1, <1>2, <1>5, <1>6, <1>7, <1>8

\* The events that the oldest file held are dropped, and there are others.
LEMMA EvictDrops ==
    ASSUME SpoolInv, SpoolInv', Evict
    PROVE Log!Drop
<1>1. /\ op.step = "evict" /\ op' = op /\ next' = next /\ segs' = Tail(segs)
      /\ TypeOK /\ SegsInv /\ OpInv /\ segs # <<>> /\ segs \in Seq(Segments)
  BY DEF SpoolInv, Evict, NeedsRoom, TypeOK
<1>2. Newest \in Nat /\ Newest > 1 /\ DOMAIN segs = 1 .. Newest
      /\ \A i \in 1 .. Newest : segs[i].first \in Nat /\ segs[i].last \in Nat
  BY <1>1, Shape, EvictLeavesOne
<1>3. /\ Newest' = Newest - 1 /\ segs' # <<>> /\ DOMAIN segs' = 1 .. Newest - 1
      /\ \A i \in 1 .. Newest - 1 : segs'[i] = segs[i + 1]
  <2>1. /\ Newest' = Newest - 1 /\ DOMAIN segs' = 1 .. Newest - 1
        /\ \A i \in 1 .. Newest - 1 : segs'[i] = segs[i + 1]
    BY <1>1, <1>2, HeadTailProperties DEF Newest
  <2> QED
    BY <1>2, <2>1, EmptySeq DEF Newest
<1>4. ending = "no" /\ ending' = "no"
  BY <1>1, LogEnds, LogEndsNext DEF LogEnd
<1>5. newest' = newest
  <2>1. newest = segs[Newest].last /\ newest' = segs'[Newest - 1].last
    BY <1>1, <1>3, LogEnds, LogEndsNext DEF LogEnd
  <2>2. Newest - 1 \in 1 .. Newest - 1 /\ (Newest - 1) + 1 = Newest
    BY <1>2
  <2> QED
    BY <1>3, <2>1, <2>2
<1> DEFINE n == segs[2].first
<1>6. 2 \in 1 .. Newest /\ 1 \in 1 .. Newest - 1 /\ segs[2].first = segs[1].last + 1
  <2>1. 2 \in 1 .. Newest /\ 1 \in 1 .. Newest - 1
    BY <1>2
  <2>2. \A i \in 1 .. Newest : i > 1 => segs[i].first = segs[i - 1].last + 1
    BY <1>1, <1>2 DEF SegsInv, NewestRetained
  <2>3. segs[2].first = segs[2 - 1].last + 1
    BY <2>1, <2>2
  <2> QED
    BY <2>1, <2>3
<1>7. n \in kept
  <2>1. segs[2].first <= segs[2].last
    <3>1. CASE Newest = 2
      BY <1>1, <3>1 DEF OpInv, Whole
    <3>2. CASE Newest # 2
      <4>1. 2 \in 1 .. Newest - 1
        BY <1>2, <3>2
      <4> QED
        BY <1>1, <4>1 DEF SegsInv, Whole
    <3> QED
      BY <3>1, <3>2
  <2>2. n \in segs[2].first .. segs[2].last
    BY <1>2, <1>6, <2>1
  <2> QED
    BY <1>2, <1>6, <2>2, KeptIs
<1>8. \A m : m \in kept' <=> m \in kept /\ m >= n
  <2>1. ASSUME NEW m \in kept' PROVE m \in kept /\ m >= n
    <3>1. PICK i \in 1 .. Newest - 1 : m \in segs[i + 1].first .. segs[i + 1].last
      BY <1>3, <2>1, KeptIs
    <3>2. i + 1 \in 2 .. Newest /\ i + 1 \in 1 .. Newest
      BY <1>2
    <3>3. n <= segs[i + 1].first
      BY <1>1, <3>2, Later
    <3>4. m \in kept
      BY <1>2, <3>1, <3>2, KeptIs
    <3>5. m >= segs[i + 1].first /\ m \in Int
      BY <3>1
    <3>6. n \in Nat /\ segs[i + 1].first \in Nat
      BY <1>2, <1>6, <3>2
    <3> HIDE DEF n
    <3> QED
      BY <3>3, <3>4, <3>5, <3>6
  <2>2. ASSUME NEW m \in kept, m >= n PROVE m \in kept'
    <3>1. PICK i \in 1 .. Newest : m \in segs[i].first .. segs[i].last
      BY <1>2, KeptIs
    <3>2. i # 1
      <4>1. i = 1 => m <= segs[1].last /\ m \in Int
        BY <1>2, <3>1
      <4>2. segs[1].last \in Nat
        BY <1>2
      <4> QED
        BY <1>6, <2>2, <4>1, <4>2
    <3>3. i - 1 \in 1 .. Newest - 1 /\ (i - 1) + 1 = i
      BY <1>2, <3>2
    <3>4. segs'[i - 1] = segs[i]
      BY <1>3, <3>3
    <3> QED
      BY <1>3, <3>1, <3>3, <3>4, KeptIs
  <2> QED
    BY <2>1, <2>2
<1>9. kept' = {m \in kept : m >= n}
  BY <1>8 DEF kept
<1> QED
  BY <1>4, <1>5, <1>7, <1>9 DEF Log!Drop

\* appendBoundedEvent's decision, the end of eviction and the end of the writer do not show.
LEMMA SameFilesIsSilent ==
    ASSUME SpoolInv, SpoolInv', UNCHANGED <<segs, next>>,
           op'.step # "stopped" => op.step # "stopped",
           op'.step = "stopped" => op.step # "write"
    PROVE UNCHANGED Log!vars
<1>1. kept' = kept /\ newest' = newest /\ Newest' = Newest
  BY DEF kept, newest, Newest
<1>2. op'.step = "stopped" /\ op.step # "stopped" /\ segs # <<>>
      => segs[Newest].header /\ segs[Newest].partial = 0
  BY DEF SpoolInv, OpInv, TypeOK, Whole
<1>3. ending' = ending
  BY <1>1, <1>2, LogEnds, LogEndsNext DEF LogEnd
<1> QED
  BY <1>1, <1>3 DEF Log!vars

\* The writer dies with some bytes written: nothing, half an event or all of it is there.
LEMMA InterruptShows ==
    ASSUME SpoolInv, SpoolInv', Interrupt
    PROVE [Log!Next]_(Log!vars)
<1>1. /\ op.step \in {"evict", "open", "write"} /\ op'.step = "stopped" /\ next' = next
      /\ TypeOK /\ OpInv
  BY DEF SpoolInv, Interrupt, TypeOK
<1>2. ending = "no" /\ ending' \in {"no", "record", "header"}
  BY <1>1, LogEnds, LogEndsNext DEF LogEnd
<1>3. ASSUME kept' = kept, newest' = newest PROVE [Log!Next]_(Log!vars)
  <2>1. CASE ending' = "no"
    BY <1>2, <1>3, <2>1 DEF Log!vars
  <2>2. CASE ending' # "no"
    BY <1>2, <1>3, <2>2 DEF Log!Next, Log!Interrupted
  <2> QED
    BY <2>1, <2>2
<1>4. CASE UNCHANGED segs
  <2>1. kept' = kept /\ newest' = newest
    BY <1>1, <1>4 DEF kept, newest
  <2> QED
    BY <1>3, <2>1
<1>5. CASE op.step = "write" /\ segs' # segs
  <2>1. segs # <<>> /\ Last(segs) = segs[Newest] /\ Newest \in DOMAIN segs /\ segs \in Seq(Segments)
        /\ segs[Newest] \in Segments
    BY <1>1, <1>5, Shape DEF OpInv, TypeOK
  <2>2. PICK k \in 1 .. payload :
            LET torn == IF ~op.rotate THEN [segs[Newest] EXCEPT !.size = @ + k, !.partial = k]
                        ELSE [segs[Newest] EXCEPT !.size = k, !.header = k >= HeaderBytes,
                                  !.partial = IF k > HeaderBytes THEN k - HeaderBytes ELSE 0]
            IN segs' = [segs EXCEPT ![Newest] = IF k = payload THEN Written(segs[Newest]) ELSE torn]
    BY <1>5, <2>1 DEF Interrupt, Newest
  <2>3. CASE k = payload
    <3>1. segs' = [segs EXCEPT ![Newest] = Written(segs[Newest])]
      BY <2>2, <2>3
    <3>2. newest' = newest + 1 /\ kept' = kept \cup {newest'} /\
          segs'[Newest] = Written(segs[Newest])
      BY <1>5, <2>1, <3>1, Adds
    <3>3. Newest' = Newest /\ segs' # <<>>
      BY <2>1, <3>1 DEF Newest
    <3>4. ending' = "no"
      <4>1. PICK part : part = Written(segs[Newest])
        OBVIOUS
      <4>2. part.header /\ part.partial = 0
        BY <1>5, <4>1, WrittenIs
      <4> QED
        BY <1>1, <3>2, <3>3, <4>1, <4>2, LogEndsNext DEF LogEnd
    <3> QED
      BY <1>2, <3>2, <3>4 DEF Log!Next, Log!Append
  <2>4. CASE k # payload
    <3>1. PICK part : /\ segs' = [segs EXCEPT ![Newest] = part]
                      /\ part.first = segs[Newest].first /\ part.last = segs[Newest].last
      <4> DEFINE torn == IF ~op.rotate THEN [segs[Newest] EXCEPT !.size = @ + k, !.partial = k]
                         ELSE [segs[Newest] EXCEPT !.size = k, !.header = k >= HeaderBytes,
                                   !.partial = IF k > HeaderBytes THEN k - HeaderBytes ELSE 0]
      <4>1. segs' = [segs EXCEPT ![Newest] = torn]
        BY <2>2, <2>4
      <4>2. torn.first = segs[Newest].first /\ torn.last = segs[Newest].last
        BY <2>1 DEF Segments
      <4> HIDE DEF torn
      <4> QED
        BY <4>1, <4>2
    <3>2. /\ DOMAIN segs' = DOMAIN segs
          /\ \A i \in DOMAIN segs : /\ segs'[i].first = segs[i].first
                                    /\ segs'[i].last = segs[i].last
      BY <2>1, <3>1
    <3>3. kept' = kept
      BY <3>2, SameKept
    <3>4. newest' = newest
      <4>1. segs' \in Seq(Segments) /\ Newest \in Nat /\ DOMAIN segs = 1 .. Newest
            /\ Newest' \in Nat /\ DOMAIN segs' = 1 .. Newest'
        BY <1>1, Shape DEF SpoolInv, TypeOK, Newest
      <4>2. Newest' = Newest /\ segs' # <<>>
        BY <2>1, <3>2, <4>1
      <4> QED
        BY <1>1, <2>1, <3>2, <4>2, LogEnds, LogEndsNext DEF LogEnd
    <3> QED
      BY <1>3, <3>3, <3>4
  <2> QED
    BY <2>3, <2>4
<1> QED
  BY <1>1, <1>4, <1>5 DEF Interrupt

\* readEvents cuts off half a record, or finds nothing to change.
LEMMA ReadShows ==
    ASSUME SpoolInv, SpoolInv', readEvents
    PROVE [Log!Next]_(Log!vars)
<1>1. op.step \in {"idle", "stopped"} /\ next' = next /\ op' = op /\ TypeOK
  BY DEF SpoolInv, readEvents
<1>2. CASE UNCHANGED segs
  <2>1. kept' = kept /\ newest' = newest /\ Newest' = Newest
    BY <1>1, <1>2 DEF kept, newest, Newest
  <2>2. ending' = ending
    BY <1>1, <1>2, <2>1, LogEnds, LogEndsNext DEF LogEnd
  <2> QED
    BY <2>1, <2>2 DEF Log!vars
<1>3. CASE Acceptable /\ Truncate
  <2>1. DOMAIN segs = 1 .. Newest /\ Newest \in Nat
        /\ \A i \in 1 .. Newest : segs[i] \in Segments /\ segs[i].size \in Nat
    BY <1>1, Shape
  <2>2. \A i \in 1 .. Newest : segs[i].header
    BY <1>3, <2>1 DEF Acceptable
  <2>3. /\ DOMAIN segs' = DOMAIN segs
        /\ \A i \in DOMAIN segs :
              /\ segs'[i].first = segs[i].first /\ segs'[i].last = segs[i].last
              /\ segs'[i].partial = 0 /\ segs'[i].header = segs[i].header
    BY <1>3, <2>1 DEF Truncate, Segments
  <2>4. kept' = kept
    BY <2>3, SameKept
  <2>5. Newest' = Newest /\ (segs' = <<>> <=> segs = <<>>)
        /\ (segs # <<>> => Newest \in DOMAIN segs)
    <3>1. segs' \in Seq(Segments) /\ segs \in Seq(Segments)
      BY <1>1 DEF SpoolInv, TypeOK
    <3>2. Newest' = Newest
      BY <2>3, <3>1 DEF Newest
    <3>3. (segs = <<>> <=> Newest = 0) /\ (segs' = <<>> <=> Newest' = 0)
      BY <3>1, EmptySeq DEF Newest
    <3> QED
      BY <2>1, <3>2, <3>3
  <2>6. newest' = newest
    BY <1>1, <2>3, <2>5, LogEnds, LogEndsNext DEF LogEnd
  <2>7. ending' = "no" /\ ending \in {"no", "record"}
    <3>1. segs # <<>> => segs[Newest].header /\ segs'[Newest].header /\ segs'[Newest].partial = 0
      BY <2>1, <2>2, <2>3, <2>5
    <3> QED
      BY <1>1, <2>5, <3>1, LogEnds, LogEndsNext DEF LogEnd
  <2>8. CASE ending = "no"
    BY <2>4, <2>6, <2>7, <2>8 DEF Log!vars
  <2>9. CASE ending = "record"
    BY <2>4, <2>6, <2>7, <2>9 DEF Log!Next, Log!Read
  <2> QED
    BY <2>7, <2>8, <2>9
<1> QED
  BY <1>2, <1>3 DEF readEvents

LEMMA StepLog ==
    ASSUME SpoolInv, SpoolInv', [Next]_vars
    PROVE [Log!Next]_(Log!vars)
<1> USE DEF Log!Next
<1>1. CASE UNCHANGED vars
  BY <1>1, SameFilesIsSilent DEF vars
<1>2. CASE \E n \in RecordSizes : appendBoundedEvent(n)
  <2>1. UNCHANGED <<segs, next>> /\ op.step = "idle" /\ op'.step # "stopped"
    BY <1>2 DEF appendBoundedEvent
  <2> QED
    BY <2>1, SameFilesIsSilent
<1>3. CASE Evicted
  <2>1. UNCHANGED <<segs, next>> /\ op.step = "evict" /\ op'.step = "open"
    BY <1>3 DEF Evicted, SpoolInv, TypeOK
  <2> QED
    BY <2>1, SameFilesIsSilent
<1>4. CASE Stop
  <2>1. UNCHANGED <<segs, next>> /\ op.step = "idle" /\ op'.step = "stopped"
    BY <1>4 DEF Stop, SpoolInv, TypeOK
  <2> QED
    BY <2>1, SameFilesIsSilent
<1> QED
  BY <1>1, <1>2, <1>3, <1>4, EvictDrops, CreateIsSilent, WriteAppends, InterruptShows, ReadShows
     DEF Next

LEMMA InitLog == Init => Log!Init
<1> SUFFICES ASSUME Init PROVE Log!Init
  OBVIOUS
<1>1. segs = <<>> /\ next = 1 /\ SpoolInv
  BY InitSpool DEF Init
<1>2. kept = {}
  BY <1>1 DEF kept
<1>3. newest = 0 /\ ending = "no"
  BY <1>1, LogEnds DEF LogEnd
<1> QED
  BY <1>2, <1>3 DEF Log!Init

\* The files and the append in progress fit together, also when it is interrupted.
THEOREM SpoolInvariant == Spec => []SpoolInv
BY InitSpool, StepSpool, PTL DEF Spec

\* The spool never exceeds its budget, nor a segment its size, not even during a rotation or
\* with half a record at its end (appendBoundedEvent).
THEOREM BudgetIsKept == Spec => []BudgetKept
<1>1. SpoolInv => BudgetKept
  BY Shape DEF SpoolInv, SegsInv, BudgetKept
<1> QED
  BY <1>1, SpoolInvariant, PTL

\* The events on disk are one run of sequence numbers up to the newest, and there are some:
\* eviction takes only the oldest (appendBoundedEvent).
THEOREM NewestStay == Spec => []NewestRetained
<1>1. SpoolInv => NewestRetained
  BY DEF SpoolInv, SegsInv
<1> QED
  BY <1>1, SpoolInvariant, PTL

\* What an append interrupted at any byte leaves behind is accepted by readEvents, unless the
\* newest file has no complete header.
THEOREM RecoverableAlways == Spec => []Recoverable
<1>1. SpoolInv => Recoverable
  <2> SUFFICES ASSUME SpoolInv, ~Acceptable PROVE ~Last(segs).header
    BY DEF Recoverable
  <2>1. segs # <<>> /\ ~segs[Newest].header
    BY Readable
  <2> QED
    BY <2>1, Shape DEF SpoolInv
<1> QED
  BY <1>1, SpoolInvariant, PTL

\* The files are one log of events: each step of the spool, eviction, rotation, an interruption
\* at any byte and the truncation by readEvents among them, is a step of the log or silent.
THEOREM SpoolIsALog == Spec => ImplementsEventLog
BY InitLog, StepLog, SpoolInvariant, PTL DEF Spec, ImplementsEventLog, Log!Spec

\* The events of the log are one run up to the newest, from the first event on.
LogRun ==
    /\ newest \in Nat
    /\ IF newest = 0 THEN kept = {} ELSE \E n \in 1 .. newest : kept = n .. newest

\* What being a log is worth: whoever implements EventLog, as the spool does (appendBoundedEvent,
\* readEvents), has its newest event and an unbroken run of events before it.
THEOREM LogsAreRuns == Log!Spec => []LogRun
<1>1. Log!Init => LogRun
  BY DEF Log!Init, LogRun
<1>2. LogRun /\ [Log!Next]_(Log!vars) => LogRun'
  <2> SUFFICES ASSUME LogRun, [Log!Next]_(Log!vars) PROVE LogRun'
    OBVIOUS
  <2>1. newest \in Nat
    BY DEF LogRun
  <2>2. CASE Log!Append
    <3>1. newest' = newest + 1 /\ kept' = kept \cup {newest'}
      BY <2>2 DEF Log!Append
    <3>2. CASE newest = 0
      <4>1. newest' = 1 /\ kept' = 1 .. 1
        BY <3>1, <3>2 DEF LogRun
      <4> QED
        BY <4>1 DEF LogRun
    <3>3. CASE newest # 0
      <4>1. PICK n \in 1 .. newest : kept = n .. newest
        BY <3>3 DEF LogRun
      <4>2. n \in 1 .. newest' /\ kept' = n .. newest'
        BY <2>1, <3>1, <4>1
      <4> QED
        BY <2>1, <3>1, <4>2 DEF LogRun
    <3> QED
      BY <3>2, <3>3
  <2>3. CASE Log!Drop
    <3>1. PICK m \in kept : kept' = {k \in kept : k >= m}
      BY <2>3 DEF Log!Drop
    <3>2. PICK n \in 1 .. newest : kept = n .. newest
      BY <3>1 DEF LogRun
    <3>3. m \in 1 .. newest /\ kept' = m .. newest
      BY <2>1, <3>1, <3>2
    <3> QED
      BY <2>1, <2>3, <3>3 DEF Log!Drop, LogRun
  <2>4. CASE Log!Interrupted \/ Log!Read \/ UNCHANGED Log!vars
    BY <2>4 DEF Log!Interrupted, Log!Read, Log!vars, LogRun
  <2> QED
    BY <2>2, <2>3, <2>4 DEF Log!Next
<1> QED
  BY <1>1, <1>2, PTL DEF Log!Spec
=============================================================================
