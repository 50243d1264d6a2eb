---------------------------- MODULE HwRngProofs ----------------------------
(***************************************************************************)
(* Proofs about HW_RNG_Rand, for every size of a buffer and every width of *)
(* size_t: it stores what it says but for two bytes at most, and for whole *)
(* words, such as those of the secret, it stores exactly that.             *)
(***************************************************************************)
EXTENDS HwRng, SequenceTheorems, TLAPS

\* A size_t counts past a word, and the sizes are sizes.
SizesAreSizes == Width \in Nat \ 0 .. 3 /\ Sizes \subseteq 0 .. Width - 1

\* Bytes of draws made so far, each there once.
Drawn(b, d) ==
  /\ b \in Seq(Nat \X (0 .. 3))
  /\ \A i \in 1 .. Len(b) : b[i][1] < d
  /\ \A i, j \in 1 .. Len(b) : b[i] = b[j] => i = j

\* Bytes of one draw, each there once, those before byte k.
Below(s, k) ==
  /\ s \in Seq(0 .. 3)
  /\ \A i \in 1 .. Len(s) : s[i] < k
  /\ \A i, j \in 1 .. Len(s) : s[i] = s[j] => i = j

\* What the tail stores past the buffer when one or two bytes are left.
Excess == IF asked % 4 = 1 THEN 2 ELSE IF asked % 4 = 2 THEN 1 ELSE 0

\* Each draw fills four bytes of its own, as long as the loop goes on.
RandInv ==
  /\ asked \in 0 .. Width - 1 /\ draws \in Nat /\ Drawn(buffer, draws)
  /\ ret \in {"none", "ok", "failed"}
  /\ ret # "ok" => /\ size \in Nat /\ asked = size + 4 * draws
                   /\ Len(buffer) = 4 * draws
  /\ ret = "ok" => Len(buffer) = asked + Excess

\* Draw d's.
Of(d, ks) == [i \in 1 .. Len(ks) |-> <<d, ks[i]>>]

\* Bytes of the next draw are none of them.
LEMMA Appends ==
  ASSUME NEW d \in Nat, NEW old, Drawn(old, d), NEW ks, Below(ks, 4)
  PROVE  Drawn(old \o Of(d, ks), d + 1) /\ Len(old \o Of(d, ks)) = Len(old) + Len(ks)
<1>new. PICK new : new = old \o Of(d, ks)
  OBVIOUS
<1> DEFINE T == Nat \X (0 .. 3)
           b == [i \in 1 .. Len(ks) |-> <<d, ks[i]>>]
<1>1. Len(ks) \in Nat /\ \A i \in 1 .. Len(ks) : ks[i] \in 0 .. 3
  BY LenProperties DEF Below
<1>2. \A i \in 1 .. Len(ks) : b[i] = <<d, ks[i]>>
  OBVIOUS
<1>3. b \in Seq(T) /\ Len(b) = Len(ks)
  <2>1. \A i \in 1 .. Len(ks) : <<d, ks[i]>> \in T
    BY <1>1
  <2>2. b \in [1 .. Len(ks) -> T]
    BY <2>1
  <2> HIDE DEF b, T
  <2>3. \E n \in Nat : b \in [1 .. n -> T]
    BY <1>1, <2>2
  <2>4. b \in Seq(T)
    BY <2>3, SeqDef
  <2> QED
    BY <1>1, <2>2, <2>4, LenProperties
<1>4. old \in Seq(T) /\ Len(old) \in Nat
  BY LenProperties DEF Drawn
<1>5. new = old \o b
  BY <1>new DEF Of
<1> HIDE DEF b, T
<1>6. new \in Seq(T) /\ Len(new) = Len(old) + Len(ks)
  <2>1. old \o b \in Seq(T) /\ Len(old \o b) = Len(old) + Len(b)
    BY <1>3, <1>4, ConcatProperties, Zenon
  <2> QED
    BY <1>3, <1>5, <2>1
<1>7. ASSUME NEW i \in 1 .. Len(new)
      PROVE  new[i] = IF i <= Len(old) THEN old[i] ELSE b[i - Len(old)]
  BY <1>3, <1>4, <1>5, <1>6, ConcatProperties
<1>8. ASSUME NEW i \in 1 .. Len(new)
      PROVE  IF i <= Len(old) THEN new[i] = old[i] /\ old[i][1] < d
             ELSE i - Len(old) \in 1 .. Len(ks) /\ new[i] = <<d, ks[i - Len(old)]>>
  BY <1>1, <1>2, <1>4, <1>6, <1>7 DEF Drawn
<1>9. ASSUME NEW i \in 1 .. Len(new) PROVE new[i][1] < d + 1
  <2>1. CASE i <= Len(old)
    <3>1. old[i] \in T
      BY <1>4, <2>1, ElementOfSeq
    <3>2. old[i][1] \in Nat
      BY <3>1 DEF T
    <3>3. new[i] = old[i] /\ old[i][1] < d
      BY <1>8, <2>1
    <3> QED
      BY <3>2, <3>3
  <2>2. CASE ~(i <= Len(old))
    BY <1>8, <2>2
  <2> QED
    BY <2>1, <2>2
<1>10. ASSUME NEW i \in 1 .. Len(new), NEW j \in 1 .. Len(new), new[i] = new[j]
       PROVE  i = j
  <2>1. CASE i <= Len(old) /\ j <= Len(old)
    <3>1. old[i] = old[j] /\ i \in 1 .. Len(old) /\ j \in 1 .. Len(old)
      BY <1>4, <1>8, <1>10, <2>1
    <3> QED
      BY <3>1 DEF Drawn
  <2>2. CASE ~(i <= Len(old)) /\ ~(j <= Len(old))
    <3>1. ks[i - Len(old)] = ks[j - Len(old)]
      BY <1>8, <1>10, <2>2
    <3>2. i - Len(old) \in 1 .. Len(ks) /\ j - Len(old) \in 1 .. Len(ks)
      BY <1>8, <2>2
    <3>3. i - Len(old) = j - Len(old)
      BY <3>1, <3>2 DEF Below
    <3> QED
      BY <1>4, <3>3
  <2>3. CASE (i <= Len(old)) # (j <= Len(old))
    <3>1. \A k : <<d, k>>[1] = d
      OBVIOUS
    <3>2. CASE i <= Len(old) /\ ~(j <= Len(old))
      <4>1. new[i][1] < d
        BY <1>8, <3>2
      <4>2. new[j][1] = d
        BY <1>8, <3>1, <3>2
      <4> QED
        BY <1>10, <4>1, <4>2
    <3>3. CASE j <= Len(old) /\ ~(i <= Len(old))
      <4>1. new[j][1] < d
        BY <1>8, <3>3
      <4>2. new[i][1] = d
        BY <1>8, <3>1, <3>3
      <4> QED
        BY <1>10, <4>1, <4>2
    <3> QED
      BY <2>3, <3>2, <3>3
  <2> QED
    BY <2>1, <2>2, <2>3
<1> QED
  <2>1. new \in Seq(Nat \X (0 .. 3))
    BY <1>6 DEF T
  <2>2. \A i \in 1 .. Len(new) : new[i][1] < d + 1
    BY <1>9
  <2>3. \A i, j \in 1 .. Len(new) : new[i] = new[j] => i = j
    BY <1>10
  <2> QED
    BY <1>new, <1>6, <2>1, <2>2, <2>3 DEF Drawn

\* One more byte, or not.
LEMMA OneMore ==
  ASSUME NEW k \in 0 .. 3, NEW s, Below(s, k), NEW t \in {<<>>, <<k>>},
         NEW m, m = k + 1
  PROVE  Below(s \o t, m) /\ Len(s \o t) = Len(s) + Len(t)
<1>1. CASE t = <<>>
  <2>1. s \o t = s /\ Len(s) \in Nat
    BY <1>1, ConcatEmptySeq, LenProperties DEF Below
  <2>2. \A i \in 1 .. Len(s) : s[i] \in Int
    BY ElementOfSeq DEF Below
  <2> QED
    BY <1>1, <2>1, <2>2 DEF Below
<1>2. CASE t = <<k>>
  <2>1. t \in Seq(0 .. 3) /\ Len(t) = 1 /\ t[1] = k
    BY <1>2
  <2>2. s \in Seq(0 .. 3) /\ Len(s) \in Nat
    BY LenProperties DEF Below
  <2>3. PICK u : u = s \o t
    OBVIOUS
  <2>4. /\ u \in Seq(0 .. 3) /\ Len(u) = Len(s) + 1
        /\ \A i \in 1 .. Len(s) + 1 : u[i] = IF i <= Len(s) THEN s[i] ELSE t[i - Len(s)]
    BY <2>1, <2>2, <2>3, ConcatProperties
  <2>5. \A i \in 1 .. Len(s) + 1 : u[i] = IF i <= Len(s) THEN s[i] ELSE k
    <3> SUFFICES ASSUME NEW i \in 1 .. Len(s) + 1, ~(i <= Len(s)) PROVE t[i - Len(s)] = k
      BY <2>4
    <3>1. i - Len(s) = 1
      BY <2>2
    <3> QED
      BY <2>1, <3>1
  <2>6. \A i \in 1 .. Len(s) : s[i] \in Int /\ s[i] < k
    BY ElementOfSeq DEF Below
  <2>7. \A i \in 1 .. Len(s) + 1 : u[i] < k + 1
    BY <2>2, <2>5, <2>6
  <2>8. ASSUME NEW i \in 1 .. Len(s) + 1, NEW j \in 1 .. Len(s) + 1, u[i] = u[j]
        PROVE  i = j
    <3>1. CASE i <= Len(s) /\ j <= Len(s)
      BY <2>2, <2>5, <2>8, <3>1 DEF Below
    <3>2. CASE ~(i <= Len(s) /\ j <= Len(s))
      BY <2>2, <2>5, <2>6, <2>8, <3>2
    <3> QED
      BY <3>1, <3>2
  <2> QED
    BY <2>1, <2>3, <2>4, <2>7, <2>8 DEF Below
<1> QED
  BY <1>1, <1>2

\* What wraps around: of one and of two bytes that are left, three are stored.
LEMMA TailStores ==
  ASSUME SizesAreSizes, NEW left \in 1 .. 4, left <= Width - 1
  PROVE  Below(TailBytes(left), 4) /\ Len(TailBytes(left)) = IF left = 4 THEN 4 ELSE 3
<1>1. Width \in Nat /\ Width > 3
  BY DEF SizesAreSizes
<1>2. ASSUME NEW k \in 0 .. 3
      PROVE  TailByte(left, k) = IF k = left THEN <<>> ELSE <<k>>
  <2>1. (left - k) % Width = IF left - k >= 0 THEN left - k ELSE left - k + Width
    BY <1>1
  <2> QED
    BY <1>1, <2>1 DEF TailByte
<1>3. \A k \in 0 .. 3 : /\ TailByte(left, k) \in {<<>>, <<k>>}
                        /\ Len(TailByte(left, k)) = IF k = left THEN 0 ELSE 1
  BY <1>2
<1> DEFINE s0 == TailByte(left, 0)
           s1 == s0 \o TailByte(left, 1)
           s2 == s1 \o TailByte(left, 2)
           s3 == s2 \o TailByte(left, 3)
<1>4. Below(s0, 1) /\ Len(s0) = 1
  <2>1. s0 = <<0>>
    BY <1>2
  <2>2. <<0>> \in Seq(0 .. 3) /\ Len(<<0>>) = 1 /\ <<0>>[1] = 0
    OBVIOUS
  <2> HIDE DEF s0
  <2>3. \A i \in 1 .. Len(s0) : i = 1 /\ s0[i] < 1
    BY <2>1, <2>2
  <2> QED
    BY <2>1, <2>2, <2>3 DEF Below
<1>5. Below(s1, 2) /\ Len(s1) = 1 + Len(TailByte(left, 1))
  <2>1. Below(s0 \o TailByte(left, 1), 2)
        /\ Len(s0 \o TailByte(left, 1)) = Len(s0) + Len(TailByte(left, 1))
    <3> HIDE DEF s0
    <3>1. 1 \in 0 .. 3 /\ 2 = 1 + 1
      OBVIOUS
    <3> QED
      BY <1>3, <1>4, <3>1, OneMore, Zenon
  <2> QED
    BY <1>4, <2>1
<1>6. Below(s2, 3) /\ Len(s2) = 1 + Len(TailByte(left, 1)) + Len(TailByte(left, 2))
  <2>1. Below(s1 \o TailByte(left, 2), 3)
        /\ Len(s1 \o TailByte(left, 2)) = Len(s1) + Len(TailByte(left, 2))
    <3> HIDE DEF s1
    <3>1. 2 \in 0 .. 3 /\ 3 = 2 + 1
      OBVIOUS
    <3> QED
      BY <1>3, <1>5, <3>1, OneMore, Zenon
  <2> QED
    BY <1>5, <2>1
<1>7. /\ Below(s3, 4)
      /\ Len(s3) = 1 + Len(TailByte(left, 1)) + Len(TailByte(left, 2)) + Len(TailByte(left, 3))
  <2>1. Below(s2 \o TailByte(left, 3), 4)
        /\ Len(s2 \o TailByte(left, 3)) = Len(s2) + Len(TailByte(left, 3))
    <3> HIDE DEF s2
    <3>1. 3 \in 0 .. 3 /\ 4 = 3 + 1
      OBVIOUS
    <3> QED
      BY <1>3, <1>6, <3>1, OneMore, Zenon
  <2> QED
    BY <1>6, <2>1
<1>8. TailBytes(left) = s3
  BY DEF TailBytes
<1> HIDE DEF s0, s1, s2, s3
<1>9. /\ Len(TailByte(left, 1)) = IF left = 1 THEN 0 ELSE 1
      /\ Len(TailByte(left, 2)) = IF left = 2 THEN 0 ELSE 1
      /\ Len(TailByte(left, 3)) = IF left = 3 THEN 0 ELSE 1
  BY <1>3
<1> QED
  <2>1. Len(s3) = IF left = 4 THEN 4 ELSE 3
    <3>1. PICK a, b, c : /\ a = Len(TailByte(left, 1)) /\ b = Len(TailByte(left, 2))
                        /\ c = Len(TailByte(left, 3))
      OBVIOUS
    <3>2. Len(s3) = 1 + a + b + c
      BY <1>7, <3>1
    <3>3. /\ a = IF left = 1 THEN 0 ELSE 1
          /\ b = IF left = 2 THEN 0 ELSE 1
          /\ c = IF left = 3 THEN 0 ELSE 1
      BY <1>9, <3>1
    <3> QED
      BY <3>2, <3>3
  <2> QED
    BY <1>7, <1>8, <2>1

\* One draw, and what it appends.
LEMMA DrawStep ==
  ASSUME RandInv, NEW ks, Below(ks, 4), buffer' = buffer \o Bytes(ks), draws' = draws + 1
  PROVE  /\ draws' \in Nat /\ Drawn(buffer', draws')
         /\ Len(buffer') = Len(buffer) + Len(ks)
<1>1. draws \in Nat /\ Drawn(buffer, draws)
  BY DEF RandInv
<1>2. buffer' = buffer \o Of(draws, ks)
  BY DEF Bytes, Of
<1>4. PICK d, old, new : d = draws /\ old = buffer /\ new = buffer'
  OBVIOUS
<1>5. /\ d \in Nat /\ Drawn(old, d)
      /\ new = old \o Of(d, ks)
  BY <1>1, <1>2, <1>4
<1>6. Drawn(new, d + 1) /\ Len(new) = Len(old) + Len(ks)
  BY <1>5, Appends
<1> QED
  BY <1>1, <1>4, <1>6

\* A word of the loop, all of it.
LEMMA WholeWord == Below(<<0, 1, 2, 3>>, 4) /\ Len(<<0, 1, 2, 3>>) = 4
<1>1. PICK w : w = <<0, 1, 2, 3>>
  OBVIOUS
<1>2. w \in Seq(0 .. 3) /\ Len(w) = 4 /\ w[1] = 0 /\ w[2] = 1 /\ w[3] = 2 /\ w[4] = 3
  BY <1>1
<1>3. \A i \in 1 .. 4 : w[i] = i - 1
  BY <1>2
<1>4. Below(w, 4)
  BY <1>2, <1>3 DEF Below
<1> QED
  BY <1>1, <1>2, <1>4

\* Every step of it.
LEMMA RandStep ==
  ASSUME SizesAreSizes, RandInv, [Next]_vars
  PROVE  RandInv'
<1>1. CASE DrawWord
  <2>1. /\ size > 4 /\ ret = "none" /\ size' = size - 4 /\ asked' = asked /\ ret' = ret
        /\ buffer' = buffer \o Bytes(<<0, 1, 2, 3>>) /\ draws' = draws + 1
    BY <1>1 DEF DrawWord
  <2>2. draws' \in Nat /\ Drawn(buffer', draws') /\ Len(buffer') = Len(buffer) + 4
    BY <2>1, WholeWord, DrawStep
  <2>3. /\ asked = size + 4 * draws /\ Len(buffer) = 4 * draws /\ draws \in Nat /\ size \in Nat
        /\ asked \in 0 .. Width - 1
    BY <2>1 DEF RandInv
  <2>4. size' \in Nat /\ asked' = size' + 4 * draws' /\ Len(buffer') = 4 * draws'
    BY <2>1, <2>2, <2>3
  <2> QED
    BY <2>1, <2>2, <2>3, <2>4 DEF RandInv
<1>2. CASE DrawTail
  <2>1. /\ size \in 1 .. 4 /\ ret = "none" /\ asked' = asked /\ ret' = "ok"
        /\ buffer' = buffer \o Bytes(TailBytes(size)) /\ draws' = draws + 1
    BY <1>2 DEF DrawTail
  <2>2. asked = size + 4 * draws /\ Len(buffer) = 4 * draws /\ draws \in Nat
        /\ asked \in 0 .. Width - 1 /\ Width \in Nat
    BY <2>1 DEF RandInv, SizesAreSizes
  <2>3. Below(TailBytes(size), 4) /\ Len(TailBytes(size)) = IF size = 4 THEN 4 ELSE 3
    <3>1. size <= Width - 1
      BY <2>1, <2>2
    <3> QED
      BY <2>1, <3>1, TailStores
  <2>4. /\ draws' \in Nat /\ Drawn(buffer', draws')
        /\ Len(buffer') = Len(buffer) + Len(TailBytes(size))
    BY <2>1, <2>3, DrawStep
  <2>5. Len(buffer') = asked + Excess
    <3>1. asked % 4 = IF size = 4 THEN 0 ELSE size
      BY <2>1, <2>2
    <3> QED
      BY <2>1, <2>2, <2>3, <2>4, <3>1 DEF Excess
  <2> QED
    BY <2>1, <2>2, <2>4, <2>5 DEF RandInv, Excess
<1>3. CASE Nothing
  <2>1. asked = 4 * draws /\ draws \in Nat
    BY <1>3 DEF Nothing, RandInv
  <2>2. asked % 4 = 0
    BY <2>1
  <2> QED
    BY <1>3, <2>1, <2>2 DEF Nothing, RandInv, Excess
<1>4. CASE DrawFails
  BY <1>4 DEF DrawFails, RandInv
<1>5. CASE UNCHANGED vars
  BY <1>5 DEF vars, RandInv, Excess
<1> QED
  BY <1>1, <1>2, <1>3, <1>4, <1>5 DEF Next

\* The invariant holds throughout the call.
LEMMA RandInvariance == ASSUME SizesAreSizes PROVE Spec => []RandInv
<1>1. Init => RandInv
  <2> SUFFICES ASSUME Init PROVE RandInv
    OBVIOUS
  <2>1. buffer = <<>> /\ Len(buffer) = 0 /\ buffer \in Seq(Nat \X (0 .. 3))
    BY DEF Init
  <2>2. Drawn(buffer, 0)
    BY <2>1 DEF Drawn
  <2> QED
    BY <2>1, <2>2 DEF Init, RandInv, SizesAreSizes
<1> QED
  BY <1>1, RandStep, PTL DEF Spec

\* HW_RNG_Rand gives its caller what it asks for, when it asks for whole words or three
\* bytes more, as DICE does for the 32 bytes of the secret: all of the
\* buffer and nothing behind it, a random byte of its own in each place.
FillsWholeWords == asked % 4 \in {0, 3} => FillsTheBuffer

\* For any such size, and any width of size_t.
THEOREM WholeWordsFilled == ASSUME SizesAreSizes PROVE Spec => []FillsWholeWords
<1>1. ASSUME SizesAreSizes, RandInv PROVE FillsWholeWords
  <2> SUFFICES ASSUME asked % 4 \in {0, 3} PROVE FillsTheBuffer
    BY DEF FillsWholeWords
  <2>1. Excess = 0 /\ asked \in Nat
    BY <1>1 DEF Excess, RandInv, SizesAreSizes
  <2>2. \A i, j \in DOMAIN buffer : buffer[i] = buffer[j] => i = j
    <3>1. DOMAIN buffer = 1 .. Len(buffer)
      BY <1>1, LenProperties DEF RandInv, Drawn
    <3> QED
      BY <1>1, <3>1 DEF RandInv, Drawn
  <2>3. Len(buffer) <= asked
    BY <1>1, <2>1 DEF RandInv
  <2>4. ret = "ok" => Len(buffer) = asked
    BY <1>1, <2>1 DEF RandInv
  <2> QED
    BY <2>2, <2>3, <2>4 DEF FillsTheBuffer
<1> QED
  BY <1>1, RandInvariance, PTL

\* For the other sizes, FillsTheBuffer doesn't hold; but the damage is bounded: the
\* buffer is filled all the same, and two bytes behind it are the worst.
FillsAndTwoMore ==
  /\ Len(buffer) <= asked + 2
  /\ ret = "ok" => Len(buffer) \in asked .. asked + 2

\* For every size.
THEOREM NoMoreThanTwo == ASSUME SizesAreSizes PROVE Spec => []FillsAndTwoMore
<1>1. ASSUME SizesAreSizes, RandInv PROVE FillsAndTwoMore
  <2>1. Excess \in 0 .. 2 /\ asked \in Nat
    BY <1>1 DEF Excess, RandInv, SizesAreSizes
  <2> QED
    BY <1>1, <2>1 DEF RandInv, FillsAndTwoMore
<1> QED
  BY <1>1, RandInvariance, PTL

=============================================================================
