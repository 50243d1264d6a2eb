-------------------------- MODULE BuildToolsProofs --------------------------
(***************************************************************************)
(* Proofs about FirmwareAuth and, above it, BuildTools.                    *)
(* For every layout, size and content of the flash: what                   *)
(* AuthenticateFirmware accepts is authentic, and what the tools build     *)
(* with the right keys is accepted.  For any versions of images and keys,  *)
(* and any number of writes that fail: the build is one of FirmwareAuth's, *)
(* a build that succeeds is up to date, so is what AuthenticateFirmware    *)
(* accepts, and what is up to date it accepts.  Nothing here is about the  *)
(* boot: no image calls AuthenticateFirmware.                              *)
(***************************************************************************)
EXTENDS BuildTools, TLAPS

\* What the proofs need to know of a flash.
Flash(m) == DOMAIN m = Address /\ \A x \in Address : WellFormed(m[x])

-----------------------------------------------------------------------------
(* What is accepted *)

\* The four comparisons of VerifyImage, when all of them pass.
LEMMA VerifiedImage ==
  ASSUME NEW m, NEW a, NEW pub, VerifyImage(m, a, pub) = "SUCCESS"
  PROVE  SignedImage(m, a, pub) /\ m[a].fw_size \in 1 .. MaxFw
<1>1. m[a].kind = "header"
  BY DEF VerifyImage
<1>2. m[a].fw_size \in 1 .. MaxFw
  BY <1>1 DEF VerifyImage
<1>3. Hash(m, a + HeaderSize, m[a].fw_size) = m[a].fw_hash
  BY <1>1, <1>2 DEF VerifyImage
<1>4. Verifies(m[a + 1], m[a], pub)
  BY <1>1, <1>2, <1>3 DEF VerifyImage
<1>5. QED
  BY <1>1, <1>2, <1>3, <1>4 DEF SignedImage

\* The two of VerifyKeyManifest.
LEMMA VerifiedManifest ==
  ASSUME NEW m, NEW pub, VerifyKeyManifest(m, pub) = "SUCCESS"
  PROVE  m[0].kind = "manifest" /\ Verifies(m[0].signature, m[0].body, pub)
BY DEF VerifyKeyManifest

\* A check of a gap goes on only if the gap lies in flash and is empty.
LEMMA EmptyGap ==
  ASSUME NEW m, NEW from \in Nat, NEW size \in Nat, NEW error, NEW otherwise,
         error # "SUCCESS",
         Gap(IsSpaceEmpty(m, from, size), error, otherwise) = "SUCCESS"
  PROVE  /\ otherwise = "SUCCESS"
         /\ from + size <= Mem
         /\ \A x \in from .. from + size - 1 : m[x] = Empty
<1>1. IsSpaceEmpty(m, from, size) \in {"yes", "no", "fault"}
  BY DEF IsSpaceEmpty
<1>2. IsSpaceEmpty(m, from, size) = "yes" /\ otherwise = "SUCCESS"
  BY <1>1 DEF Gap
<1>3. ~(\E x \in from .. from + size - 1 : x < Mem /\ m[x] # Empty)
  BY <1>2 DEF IsSpaceEmpty
<1>4. from + size <= Mem
  BY <1>2, <1>3, LayoutAssumption DEF IsSpaceEmpty
<1>5. QED
  BY <1>2, <1>3, <1>4, LayoutAssumption

\* The gap after an L1 that runs out of the slot wraps around, and no flash is
\* as large as that.
LEMMA WrappedGap ==
  ASSUME NEW end \in 0 .. Mem, end > Slot
  PROVE  end + ((Slot - end) % Width) > Mem
<1>1. Width \in Nat /\ Width > 0 /\ (Slot - end) + Width \in 0 .. Width - 1
  BY LayoutAssumption
<1>2. \A x \in Int, w \in Nat : x + w \in 0 .. w - 1 => x % w = x + w
  BY SMTT(30)
<1>3. (Slot - end) % Width = (Slot - end) + Width
  BY <1>1, <1>2, LayoutAssumption
<1>4. QED
  BY <1>3, LayoutAssumption DEF HeaderSize

\* Inside the slot it is what it should be.
LEMMA PlainGap ==
  ASSUME NEW end \in Nat, end <= Slot
  PROVE  (Slot - end) % Width = Slot - end
<1>1. Slot - end \in 0 .. Width - 1
  BY LayoutAssumption
<1>2. \A x \in Int, w \in Nat : x \in 0 .. w - 1 => x % w = x
  BY SMTT(30)
<1>3. QED
  BY <1>1, <1>2, LayoutAssumption

\* Wrapped around or not, it is a size.
LEMMA WrappedGapSize ==
  ASSUME NEW end \in 0 .. Mem
  PROVE  (Slot - end) % Width \in Nat
<1>1. Width \in Nat \ {0} /\ Slot - end \in Int
  BY LayoutAssumption DEF HeaderSize
<1>2. \A x \in Int, w \in Nat \ {0} : x % w \in Nat
  BY SMTT(30)
<1>3. QED
  BY <1>1, <1>2

-----------------------------------------------------------------------------
\* What AuthenticateFirmware found out when it accepts a package, in the order of
\* its comparisons.
LEMMA AcceptedManifest ==
  ASSUME NEW m, AuthenticateFirmware(m) = "SUCCESS"
  PROVE  /\ m[0].kind = "manifest"
         /\ Verifies(m[0].signature, m[0].body, ManifestKey)
         /\ \A x \in 1 .. ManifestSize - 1 : m[x] = Empty
         /\ CheckL0(m) = "SUCCESS"
<1>1. VerifyKeyManifest(m, ManifestKey) = "SUCCESS"
  BY DEF AuthenticateFirmware
<1>2. Gap(IsSpaceEmpty(m, 1, ManifestSize - 1), "EXTRA_DATA_MANIFEST_L0", CheckL0(m))
        = "SUCCESS"
  BY <1>1 DEF AuthenticateFirmware
<1>3. ManifestSize - 1 \in Nat /\ 1 + (ManifestSize - 1) - 1 = ManifestSize - 1
  BY LayoutAssumption
<1>4. CheckL0(m) = "SUCCESS" /\ \A x \in 1 .. 1 + (ManifestSize - 1) - 1 : m[x] = Empty
  BY <1>2, <1>3, EmptyGap
<1>5. QED
  BY <1>1, <1>3, <1>4, VerifiedManifest

\* L1 lies behind L0, and both are signed.
LEMMA AcceptedImages ==
  ASSUME NEW m, Flash(m), CheckL0(m) = "SUCCESS"
  PROVE  /\ SignedImage(m, ManifestSize, m[0].body.l0_pub_key)
         /\ SignedImage(m, L1Base(m), m[0].body.l1_pub_key)
         /\ ImageEnd(m, ManifestSize) \in 0 .. L1Base(m)
         /\ L1Base(m) \in 0 .. ManifestSize + Slot - HeaderSize
         /\ ImageEnd(m, L1Base(m)) \in L1Base(m) .. Mem
         /\ Gap(IsSpaceEmpty(m, ImageEnd(m, ManifestSize),
                             L1Base(m) - ImageEnd(m, ManifestSize)),
                "EXTRA_DATA_L0_L1", CheckAfterL1(m)) = "SUCCESS"
<1>1. VerifyImage(m, ManifestSize, m[0].body.l0_pub_key) = "SUCCESS"
  BY DEF CheckL0
<1>2. m[ManifestSize].next_image_offset \in ValidL1Offsets(m)
  BY <1>1 DEF CheckL0
<1>3. CheckL1(m) = "SUCCESS"
  BY <1>1, <1>2 DEF CheckL0
<1>4. VerifyImage(m, L1Base(m), m[0].body.l1_pub_key) = "SUCCESS"
  BY <1>3 DEF CheckL1
<1>5. /\ SignedImage(m, ManifestSize, m[0].body.l0_pub_key)
      /\ m[ManifestSize].fw_size \in 1 .. MaxFw
      /\ SignedImage(m, L1Base(m), m[0].body.l1_pub_key)
      /\ m[L1Base(m)].fw_size \in 1 .. MaxFw
  BY <1>1, <1>4, VerifiedImage
<1>6. /\ ImageEnd(m, ManifestSize) \in 0 .. L1Base(m)
      /\ L1Base(m) \in 0 .. ManifestSize + Slot - HeaderSize
  <2>1. m[ManifestSize].fw_size \in Nat
    BY <1>5, LayoutAssumption
  <2>2. m[ManifestSize].next_image_offset \in Nat
    BY <1>2, <2>1, LayoutAssumption DEF ValidL1Offsets, HeaderSize
  <2>3. QED
    BY <1>2, <2>1, <2>2, LayoutAssumption
    DEF ValidL1Offsets, HeaderSize, ImageEnd, L1Base
<1>7. ImageEnd(m, L1Base(m)) \in L1Base(m) .. Mem
  BY <1>5, <1>6, LayoutAssumption DEF ImageEnd, HeaderSize
<1>8. QED
  BY <1>3, <1>4, <1>5, <1>6, <1>7 DEF CheckL1

\* L1 ends inside the slot, for the gap behind it can't have wrapped around.
LEMMA AcceptedEnd ==
  ASSUME NEW m, CheckAfterL1(m) = "SUCCESS", ImageEnd(m, L1Base(m)) \in 0 .. Mem
  PROVE  /\ ImageEnd(m, L1Base(m)) <= Slot
         /\ \A x \in ImageEnd(m, L1Base(m)) .. Slot - 1 : m[x] = Empty
<1> DEFINE end == ImageEnd(m, L1Base(m))
           gap == (Slot - end) % Width
<1>1. Gap(IsSpaceEmpty(m, end, gap), "EXTRA_DATA_AFTER_L1", "SUCCESS") = "SUCCESS"
  BY DEF CheckAfterL1, GapAfterL1
<1>2. end \in Nat /\ gap \in Nat
  BY LayoutAssumption, WrappedGapSize
<1>3. end > Slot => end + gap > Mem
  BY WrappedGap
<1>4. end <= Slot => gap = Slot - end
  BY <1>2, PlainGap
<1> HIDE DEF end, gap
<1>5. end + gap <= Mem /\ \A x \in end .. end + gap - 1 : m[x] = Empty
  BY <1>1, <1>2, EmptyGap
<1>6. end <= Slot /\ end + gap - 1 = Slot - 1
  BY <1>2, <1>3, <1>4, <1>5, LayoutAssumption
<1>7. end <= Slot /\ \A x \in end .. Slot - 1 : m[x] = Empty
  BY <1>5, <1>6
<1>8. QED
  BY <1>7 DEF end

\* Whatever the flash holds, what AuthenticateFirmware accepts is authentic.
LEMMA AcceptsAuthentic ==
  ASSUME NEW m, Flash(m), AuthenticateFirmware(m) = "SUCCESS"
  PROVE  Authentic(m)
<1> DEFINE l0_end == ImageEnd(m, ManifestSize)
           l1 == L1Base(m)
           l1_end == ImageEnd(m, l1)
<1>1. /\ m[0].kind = "manifest"
      /\ Verifies(m[0].signature, m[0].body, ManifestKey)
      /\ \A x \in 1 .. ManifestSize - 1 : m[x] = Empty
      /\ CheckL0(m) = "SUCCESS"
  BY AcceptedManifest
<1>2. /\ SignedImage(m, ManifestSize, m[0].body.l0_pub_key)
      /\ SignedImage(m, l1, m[0].body.l1_pub_key)
      /\ l0_end \in 0 .. l1 /\ l1 \in 0 .. ManifestSize + Slot - HeaderSize
      /\ l1_end \in l1 .. Mem
      /\ Gap(IsSpaceEmpty(m, l0_end, l1 - l0_end), "EXTRA_DATA_L0_L1", CheckAfterL1(m))
           = "SUCCESS"
  BY <1>1, AcceptedImages
<1>3. l0_end \in Nat /\ l1 \in Nat /\ l1_end \in 0 .. Mem /\ l1 - l0_end \in Nat
  BY <1>2, LayoutAssumption DEF HeaderSize
<1>4. CheckAfterL1(m) = "SUCCESS"
      /\ \A x \in l0_end .. l0_end + (l1 - l0_end) - 1 : m[x] = Empty
  <2> HIDE DEF l0_end, l1
  <2>1. QED
    BY <1>2, <1>3, EmptyGap
<1>5. l1_end <= Slot /\ \A x \in l1_end .. Slot - 1 : m[x] = Empty
  BY <1>3, <1>4, AcceptedEnd
<1>6. \A x \in 1 .. Slot - 1 :
        \/ x \in ManifestSize .. l0_end - 1
        \/ x \in l1 .. l1_end - 1
        \/ m[x] = Empty
  <2> HIDE DEF l0_end, l1, l1_end
  <2> SUFFICES ASSUME NEW x \in 1 .. Slot - 1, m[x] # Empty
               PROVE  x \in ManifestSize .. l0_end - 1 \/ x \in l1 .. l1_end - 1
    OBVIOUS
  <2>1. x \notin 1 .. ManifestSize - 1
    BY <1>1
  <2>2. x \notin l0_end .. l1 - 1
    BY <1>3, <1>4
  <2>3. x \notin l1_end .. Slot - 1
    BY <1>5
  <2>4. QED
    BY <1>3, <2>1, <2>2, <2>3, LayoutAssumption
<1>7. QED
  BY <1>1, <1>2, <1>3, <1>5, <1>6 DEF Authentic

-----------------------------------------------------------------------------
\* Every header the tools write has sizes and offsets in it.
LEMMA BuildWellFormed ==
  ASSUME Build
  PROVE  DOMAIN mem' = Address /\ \A x \in Address : WellFormed(mem'[x])
<1>1. PICK l0 \in ImageFiles,
           l1 \in ImageFiles, next \in Offsets,
           km \in Keys, k0 \in Keys, k1 \in Keys :
        mem' = [x \in Address |->
          IF x \in Occupies(ManifestSize + next, l1)
            THEN ImageAt(ManifestSize + next, HeaderOf(l1, 0), k1, l1, x)
          ELSE IF x \in Occupies(ManifestSize, l0)
            THEN ImageAt(ManifestSize, HeaderOf(l0, next), k0, l0, x)
          ELSE IF x = 0 THEN ManifestSignedBy(km) ELSE Empty]
  BY DEF Build, BuildOf
<1>2. l0.size \in Nat /\ l1.size \in Nat /\ next \in Nat
  BY InputsAssumption DEF ImageFiles
<1>3. \A c : WellFormed(Code(c))
  BY DEF WellFormed, Code
<1>4. \A k, o : WellFormed(Signature(k, o))
  BY DEF WellFormed, Signature
<1>5. \A image, n : image.size \in Nat /\ n \in Nat => WellFormed(HeaderOf(image, n))
  BY DEF WellFormed, HeaderOf
<1>6. \A k : WellFormed(ManifestSignedBy(k))
  BY DEF WellFormed, ManifestSignedBy
<1>7. WellFormed(Empty)
  BY DEF WellFormed, Empty
<1>8. \A a, h, k, image, x : WellFormed(h) => WellFormed(ImageAt(a, h, k, image, x))
  BY <1>3, <1>4 DEF ImageAt
<1>9. WellFormed(HeaderOf(l1, 0)) /\ WellFormed(HeaderOf(l0, next))
  BY <1>2, <1>5
<1>10. QED
  BY <1>1, <1>6, <1>7, <1>8, <1>9

\* AuthenticateFirmware ends with one of its results.
LEMMA StatusOf ==
  ASSUME NEW m
  PROVE  AuthenticateFirmware(m) \in Statuses
<1>1. \A empty, error, otherwise :
        error \in Statuses /\ otherwise \in Statuses
          => Gap(empty, error, otherwise) \in Statuses
  BY DEF Gap, Statuses
<1>2. CheckAfterL1(m) \in Statuses
  BY <1>1 DEF CheckAfterL1, Statuses
<1>3. CheckL1(m) \in Statuses
  BY <1>1, <1>2 DEF CheckL1, Statuses
<1>4. CheckL0(m) \in Statuses
  BY <1>3 DEF CheckL0, Statuses
<1>5. QED
  BY <1>1, <1>4 DEF AuthenticateFirmware, Statuses

-----------------------------------------------------------------------------
\* The variables of FirmwareAuth keep their types.
THEOREM TypeCorrect == Spec => []TypeOK
<1>1. Init => TypeOK
  BY InputsAssumption DEF Init, TypeOK, WellFormed, Empty, Statuses
<1>2. TypeOK /\ [Next]_vars => TypeOK'
  <2> SUFFICES ASSUME TypeOK, [Next]_vars PROVE TypeOK'
    OBVIOUS
  <2>1. CASE Build
    BY <2>1, BuildWellFormed DEF Build, TypeOK
  <2>2. CASE Damage
    BY <2>2, StraysAssumption, InputsAssumption DEF Damage, TypeOK
  <2>3. CASE Authenticate
    BY <2>3, StatusOf DEF Authenticate, TypeOK
  <2>4. CASE UNCHANGED vars
    BY <2>4 DEF vars, TypeOK
  <2>5. QED
    BY <2>1, <2>2, <2>3, <2>4 DEF Next
<1>3. QED
  BY <1>1, <1>2, PTL DEF Spec

\* Nothing is authenticated before it is built, which keeps the build from
\* changing what has been accepted.
BuiltFirst == built = NotBuilt => status = "NONE"

\* AuthenticateFirmware accepts nothing but an authentic package.
THEOREM OnlyAuthenticAccepted == Spec => []AcceptedIsAuthentic
<1> DEFINE IInv == TypeOK /\ BuiltFirst /\ AcceptedIsAuthentic
<1>1. Init => BuiltFirst /\ AcceptedIsAuthentic
  BY DEF Init, BuiltFirst, AcceptedIsAuthentic
<1>2. IInv /\ [Next]_vars => BuiltFirst' /\ AcceptedIsAuthentic'
  <2> SUFFICES ASSUME IInv, [Next]_vars
               PROVE  BuiltFirst' /\ AcceptedIsAuthentic'
    OBVIOUS
  <2>1. CASE Build
    BY <2>1 DEF Build, BuiltFirst, AcceptedIsAuthentic
  <2>2. CASE Damage
    BY <2>2 DEF Damage, BuiltFirst, AcceptedIsAuthentic
  <2>3. CASE Authenticate
    <3>1. Flash(mem)
      BY DEF TypeOK, Flash
    <3>2. AcceptedIsAuthentic'
      BY <2>3, <3>1, AcceptsAuthentic DEF Authenticate, AcceptedIsAuthentic
    <3>3. QED
      BY <2>3, <3>2 DEF Authenticate, BuiltFirst
  <2>4. CASE UNCHANGED vars
    BY <2>4 DEF vars, BuiltFirst, AcceptedIsAuthentic
  <2>5. QED
    BY <2>1, <2>2, <2>3, <2>4 DEF Next
<1>3. QED
  BY <1>1, <1>2, TypeCorrect, PTL DEF Spec

-----------------------------------------------------------------------------
(* What the tools build *)

\* The flash that BuildOf writes.
Laid(l0, l1, next, km, k0, k1) ==
  [x \in Address |->
    IF x \in Occupies(ManifestSize + next, l1)
      THEN ImageAt(ManifestSize + next, HeaderOf(l1, 0), k1, l1, x)
    ELSE IF x \in Occupies(ManifestSize, l0)
      THEN ImageAt(ManifestSize, HeaderOf(l0, next), k0, l0, x)
    ELSE IF x = 0 THEN ManifestSignedBy(km) ELSE Empty]

\* An image stands at a, header, signature and code.
Stands(m, a, image, next, pub) ==
  /\ m[a] = HeaderOf(image, next) /\ m[a + 1] = Signature(pub, HeaderOf(image, next))
  /\ \A i \in 1 .. image.size : m[a + HeaderSize + i - 1] = Code(image.code)

\* VerifyImage accepts an image that stands.
LEMMA StandingImage ==
  ASSUME NEW m, NEW a \in Nat, NEW image, NEW next, NEW pub,
         image.size \in 1 .. MaxFw, Stands(m, a, image, next, pub)
  PROVE  VerifyImage(m, a, pub) = "SUCCESS"
<1>1. /\ m[a].kind = "header" /\ m[a].fw_size = image.size
      /\ m[a].fw_hash = [i \in 1 .. image.size |-> Code(image.code)]
  BY DEF Stands, HeaderOf
<1>2. Hash(m, a + HeaderSize, image.size) = [i \in 1 .. image.size |-> Code(image.code)]
  BY DEF Stands, Hash
<1>3. Verifies(m[a + 1], m[a], pub)
  BY DEF Stands, Verifies
<1> QED
  BY <1>1, <1>2, <1>3 DEF VerifyImage

\* A gap where nothing was written.
LEMMA GapIsEmpty ==
  ASSUME NEW m, NEW from \in Nat, NEW size \in Nat, NEW error, NEW otherwise,
         from + size <= Mem, \A x \in from .. from + size - 1 : m[x] = Empty
  PROVE  Gap(IsSpaceEmpty(m, from, size), error, otherwise) = otherwise
<1>1. IsSpaceEmpty(m, from, size) = "yes"
  BY LayoutAssumption DEF IsSpaceEmpty
<1> QED
  BY <1>1 DEF Gap

\* A package in a layout that fits, made with the right keys, is accepted.
LEMMA AcceptsBuilt ==
  ASSUME NEW l0 \in ImageFiles, NEW l1 \in ImageFiles, NEW next \in Nat,
         l0.size <= MaxFw, l1.size <= MaxFw, next >= HeaderSize + l0.size,
         ManifestSize + next + HeaderSize + l1.size <= Slot
  PROVE  AuthenticateFirmware(Laid(l0, l1, next, ManifestKey, L0Key, L1Key)) = "SUCCESS"
<1> DEFINE m == Laid(l0, l1, next, ManifestKey, L0Key, L1Key)
           a1 == ManifestSize + next
<1>1. /\ ManifestSize \in Nat /\ ManifestSize > 0 /\ Mem \in Nat /\ Slot \in Nat
      /\ Slot <= Mem /\ MaxFw \in Nat /\ HeaderSize = 2
  BY LayoutAssumption DEF HeaderSize
<1>2. l0.size \in 1 .. MaxFw /\ l1.size \in 1 .. MaxFw
  BY <1>1, InputsAssumption DEF ImageFiles
<1>3. \A x \in Address : m[x] =
        IF x \in Occupies(a1, l1) THEN ImageAt(a1, HeaderOf(l1, 0), L1Key, l1, x)
        ELSE IF x \in Occupies(ManifestSize, l0)
          THEN ImageAt(ManifestSize, HeaderOf(l0, next), L0Key, l0, x)
        ELSE IF x = 0 THEN ManifestSignedBy(ManifestKey) ELSE Empty
  BY DEF Laid
<1> HIDE DEF m
<1>4. /\ Occupies(a1, l1) = a1 .. a1 + 2 + l1.size - 1
      /\ Occupies(ManifestSize, l0) = ManifestSize .. ManifestSize + 2 + l0.size - 1
      /\ Address = 0 .. Mem - 1
  BY <1>1 DEF Occupies, Address
<1> DEFINE s0 == l0.size
           s1 == l1.size
<1>sizes. /\ s0 \in Nat /\ s0 > 0 /\ s1 \in Nat /\ s1 > 0 /\ next >= 2 + s0 /\ a1 \in Nat
       /\ a1 = ManifestSize + next /\ a1 + 2 + s1 <= Slot
  BY <1>1, <1>2
<1>cells. \A x \in Nat :
         /\ x \in Occupies(a1, l1) <=> a1 <= x /\ x < a1 + 2 + s1
         /\ x \in Occupies(ManifestSize, l0) <=> ManifestSize <= x /\ x < ManifestSize + 2 + s0
         /\ x \in Address <=> x < Mem
  <2>1. \A a, k, x \in Nat : x \in a .. a + 2 + k - 1 <=> a <= x /\ x < a + 2 + k
    OBVIOUS
  <2>2. \A x \in Nat : x \in Address <=> x < Mem
    BY <1>1, <1>4
  <2> HIDE DEF a1, s0, s1
  <2>3. /\ Occupies(a1, l1) = a1 .. a1 + 2 + s1 - 1
        /\ Occupies(ManifestSize, l0) = ManifestSize .. ManifestSize + 2 + s0 - 1
    BY <1>4 DEF a1, s0, s1
  <2> QED
    BY <1>1, <1>sizes, <2>1, <2>2, <2>3
<1> HIDE DEF a1, s0, s1
<1>5. m[0] = ManifestSignedBy(ManifestKey)
  <2>1. 0 \in Address /\ 0 \notin Occupies(a1, l1) /\ 0 \notin Occupies(ManifestSize, l0)
    BY <1>1, <1>sizes, <1>cells
  <2> QED
    BY <1>3, <2>1
<1>6. \A x \in 0 .. 1 + s0 :
        m[ManifestSize + x] = ImageAt(ManifestSize, HeaderOf(l0, next), L0Key, l0, ManifestSize + x)
  <2> TAKE x \in 0 .. 1 + s0
  <2>1. /\ ManifestSize + x \in Address /\ ManifestSize + x \notin Occupies(a1, l1)
        /\ ManifestSize + x \in Occupies(ManifestSize, l0)
    BY <1>1, <1>sizes, <1>cells
  <2> QED
    BY <1>3, <2>1
<1>7. \A x \in 0 .. 1 + s1 :
        m[a1 + x] = ImageAt(a1, HeaderOf(l1, 0), L1Key, l1, a1 + x)
  <2> TAKE x \in 0 .. 1 + s1
  <2>1. a1 + x \in Address /\ a1 + x \in Occupies(a1, l1)
    BY <1>1, <1>sizes, <1>cells
  <2> QED
    BY <1>3, <2>1
<1>8. \A x \in 1 .. Slot - 1 :
        (\/ x < ManifestSize
         \/ x >= ManifestSize + 2 + s0 /\ x < a1
         \/ x >= a1 + 2 + s1) => m[x] = Empty
  <2> SUFFICES ASSUME NEW x \in 1 .. Slot - 1,
                      \/ x < ManifestSize
                      \/ x >= ManifestSize + 2 + s0 /\ x < a1
                      \/ x >= a1 + 2 + s1
               PROVE  m[x] = Empty
    OBVIOUS
  <2>1. /\ x \in Address /\ x \notin Occupies(a1, l1) /\ x # 0
        /\ x \notin Occupies(ManifestSize, l0)
    BY <1>1, <1>sizes, <1>cells
  <2> QED
    BY <1>3, <2>1
<1> USE DEF a1, s0, s1
<1>9. Stands(m, ManifestSize, l0, next, L0Key)
  <2>1. m[ManifestSize + 0] = HeaderOf(l0, next)
    BY <1>1, <1>2, <1>6 DEF ImageAt
  <2>2. m[ManifestSize + 1] = Signature(L0Key, HeaderOf(l0, next))
    BY <1>1, <1>2, <1>6 DEF ImageAt
  <2>3. \A i \in 1 .. l0.size : m[ManifestSize + 2 + i - 1] = Code(l0.code)
    <3> TAKE i \in 1 .. l0.size
    <3>1. 1 + i \in 0 .. 1 + l0.size /\ ManifestSize + 2 + i - 1 = ManifestSize + (1 + i)
      BY <1>1, <1>2
    <3>2. ManifestSize + (1 + i) # ManifestSize /\ ManifestSize + (1 + i) # ManifestSize + 1
      BY <1>1, <1>2
    <3> QED
      BY <1>6, <3>1, <3>2 DEF ImageAt
  <2> QED
    BY <1>1, <2>1, <2>2, <2>3 DEF Stands
<1>10. Stands(m, a1, l1, 0, L1Key)
  <2>1. m[a1 + 0] = HeaderOf(l1, 0)
    BY <1>1, <1>2, <1>7 DEF ImageAt
  <2>2. m[a1 + 1] = Signature(L1Key, HeaderOf(l1, 0))
    BY <1>1, <1>2, <1>7 DEF ImageAt
  <2>3. \A i \in 1 .. l1.size : m[a1 + 2 + i - 1] = Code(l1.code)
    <3> TAKE i \in 1 .. l1.size
    <3>1. 1 + i \in 0 .. 1 + l1.size /\ a1 + 2 + i - 1 = a1 + (1 + i)
      BY <1>1, <1>2
    <3>2. a1 + (1 + i) # a1 /\ a1 + (1 + i) # a1 + 1
      BY <1>1, <1>2
    <3> QED
      BY <1>7, <3>1, <3>2 DEF ImageAt
  <2> QED
    BY <1>1, <2>1, <2>2, <2>3 DEF Stands
<1>11. /\ m[0].kind = "manifest" /\ m[0].body.version = 0
       /\ m[0].body.l0_pub_key = L0Key /\ m[0].body.l1_pub_key = L1Key
       /\ m[0].signature = Signature(ManifestKey, m[0].body)
  BY <1>5 DEF ManifestSignedBy
<1>12. /\ m[ManifestSize].fw_size = l0.size /\ m[ManifestSize].next_image_offset = next
       /\ L1Base(m) = a1 /\ m[a1].fw_size = l1.size
  BY <1>9, <1>10 DEF Stands, HeaderOf, L1Base
<1>13. /\ ImageEnd(m, ManifestSize) = ManifestSize + 2 + l0.size
       /\ ImageEnd(m, L1Base(m)) = a1 + 2 + l1.size
  BY <1>1, <1>12 DEF ImageEnd
<1>14. CheckAfterL1(m) = "SUCCESS"
  <2> DEFINE end == a1 + 2 + l1.size
  <2>1. end \in Nat /\ end <= Slot /\ end > 0
    BY <1>1, <1>2
  <2>2. GapAfterL1(m) = Slot - end
    BY <1>13, <2>1, PlainGap DEF GapAfterL1
  <2>3. Slot - end \in Nat /\ end + (Slot - end) = Slot
    BY <1>1, <2>1
  <2>4. \A x \in end .. end + (Slot - end) - 1 : m[x] = Empty
    BY <1>1, <1>8, <2>1
  <2> HIDE DEF end
  <2> QED
    BY <1>1, <1>13, <2>1, <2>2, <2>3, <2>4, GapIsEmpty DEF CheckAfterL1, end
<1>15. CheckL1(m) = "SUCCESS"
  <2> DEFINE end == ManifestSize + 2 + l0.size
  <2>1. end \in Nat /\ a1 - end \in Nat /\ end + (a1 - end) <= Mem
    BY <1>1, <1>2
  <2>2. \A x \in end .. end + (a1 - end) - 1 : m[x] = Empty
    BY <1>1, <1>2, <1>8
  <2>3. VerifyImage(m, a1, L1Key) = "SUCCESS"
    BY <1>1, <1>2, <1>10, StandingImage
  <2>4. Gap(IsSpaceEmpty(m, end, a1 - end), "EXTRA_DATA_L0_L1", CheckAfterL1(m)) = "SUCCESS"
    BY <1>14, <2>1, <2>2, GapIsEmpty
  <2> QED
    BY <1>11, <1>12, <1>13, <2>3, <2>4 DEF CheckL1
<1>16. CheckL0(m) = "SUCCESS"
  <2>1. VerifyImage(m, ManifestSize, L0Key) = "SUCCESS"
    BY <1>1, <1>2, <1>9, StandingImage
  <2>2. next \in ValidL1Offsets(m)
    BY <1>1, <1>2, <1>12 DEF ValidL1Offsets
  <2> QED
    BY <1>11, <1>12, <1>15, <2>1, <2>2 DEF CheckL0
<1>17. VerifyKeyManifest(m, ManifestKey) = "SUCCESS"
  BY <1>11 DEF VerifyKeyManifest, Verifies
<1>18. Gap(IsSpaceEmpty(m, 1, ManifestSize - 1), "EXTRA_DATA_MANIFEST_L0", CheckL0(m)) = "SUCCESS"
  <2>1. ManifestSize - 1 \in Nat /\ 1 + (ManifestSize - 1) <= Mem
    BY <1>1, <1>2
  <2>2. \A x \in 1 .. 1 + (ManifestSize - 1) - 1 : m[x] = Empty
    BY <1>1, <1>2, <1>8
  <2> QED
    BY <1>16, <2>1, <2>2, GapIsEmpty
<1>19. AuthenticateFirmware(m) = "SUCCESS"
  BY <1>17, <1>18 DEF AuthenticateFirmware
<1> QED
  BY <1>19 DEF m

\* Until something is damaged, the flash is as it was built.
AsBuilt ==
  built # NotBuilt /\ damage = 0 =>
    /\ \E l0, l1 \in ImageFiles, next \in Nat, km, k0, k1 \in Keys :
         /\ built = [kind |-> "package", l0 |-> l0, l1 |-> l1, next |-> next,
                     keys |-> <<km, k0, k1>>]
         /\ mem = Laid(l0, l1, next, km, k0, k1)
    /\ status # "NONE" => status = AuthenticateFirmware(mem)

LEMMA AsBuiltStep == TypeOK /\ BuiltFirst /\ AsBuilt /\ [Next]_vars => AsBuilt' /\ BuiltFirst'
<1> SUFFICES ASSUME TypeOK, BuiltFirst, AsBuilt, [Next]_vars PROVE AsBuilt' /\ BuiltFirst'
  OBVIOUS
<1>1. CASE Build
  <2>1. PICK l0 \in ImageFiles, l1 \in ImageFiles, next \in Offsets,
             km \in Keys, k0 \in Keys, k1 \in Keys : BuildOf(l0, l1, next, km, k0, k1)
    BY <1>1 DEF Build
  <2>2. next \in Nat
    BY InputsAssumption
  <2>3. built' = [kind |-> "package", l0 |-> l0, l1 |-> l1, next |-> next,
                  keys |-> <<km, k0, k1>>]
    BY <2>1 DEF BuildOf
  <2>4. mem' = Laid(l0, l1, next, km, k0, k1)
    BY <2>1 DEF BuildOf, Laid
  <2>5. status' = "NONE"
    BY <1>1 DEF Build, BuiltFirst
  <2> QED
    BY <2>2, <2>3, <2>4, <2>5 DEF AsBuilt, BuiltFirst
<1>2. CASE Damage
  <2>1. damage' # 0 /\ built # NotBuilt /\ built' = built
    BY <1>2, InputsAssumption DEF Damage, TypeOK
  <2> QED
    BY <2>1 DEF AsBuilt, BuiltFirst
<1>3. CASE Authenticate
  BY <1>3 DEF Authenticate, AsBuilt, BuiltFirst
<1>4. CASE UNCHANGED vars
  BY <1>4 DEF vars, AsBuilt, BuiltFirst
<1> QED
  BY <1>1, <1>2, <1>3, <1>4 DEF Next

\* What keymanifesttool, headertool and signtool build is accepted by
\* AuthenticateFirmware, if it fits and the keys are the right ones.
THEOREM BuiltAccepted == Spec => []BuiltIsAccepted
<1>1. Init => AsBuilt /\ BuiltFirst
  BY DEF Init, AsBuilt, BuiltFirst
<1>2. AsBuilt => BuiltIsAccepted
  <2> SUFFICES ASSUME AsBuilt, built # NotBuilt, damage = 0, status # "NONE",
                      built.keys = <<ManifestKey, L0Key, L1Key>>, Fits(built)
               PROVE  status = "SUCCESS"
    BY DEF BuiltIsAccepted
  <2>1. PICK l0 \in ImageFiles, l1 \in ImageFiles, next \in Nat,
             km \in Keys, k0 \in Keys, k1 \in Keys :
          /\ built = [kind |-> "package", l0 |-> l0, l1 |-> l1, next |-> next,
                      keys |-> <<km, k0, k1>>]
          /\ mem = Laid(l0, l1, next, km, k0, k1)
    BY DEF AsBuilt
  <2>2. km = ManifestKey /\ k0 = L0Key /\ k1 = L1Key
    BY <2>1
  <2>3. /\ l0.size <= MaxFw /\ l1.size <= MaxFw /\ next >= HeaderSize + l0.size
        /\ ManifestSize + next + HeaderSize + l1.size <= Slot
    BY <2>1 DEF Fits
  <2>4. AuthenticateFirmware(mem) = "SUCCESS"
    BY <2>1, <2>2, <2>3, AcceptsBuilt
  <2> QED
    BY <2>4 DEF AsBuilt
<1> QED
  BY <1>1, <1>2, AsBuiltStep, TypeCorrect, PTL DEF Spec

-----------------------------------------------------------------------------
(* Whose package it is *)

\* Nothing that damage puts into the flash is signed with a key of the owner.
NoForgery ==
  \A c \in Strays :
    /\ c.kind = "signature" => c.key \notin {L0Key, L1Key}
    /\ c.kind = "manifest" => ~Verifies(c.signature, c.body, ManifestKey)

\* The three signatures that make the flash acceptable are the build's.
LEMMA AcceptedKeys ==
  ASSUME NoForgery,
         NEW l0 \in ImageFiles, NEW l1 \in ImageFiles, NEW next \in Nat,
         NEW km, NEW k0, NEW k1, NEW m, Flash(m),
         \A x \in Address : m[x] = Laid(l0, l1, next, km, k0, k1)[x] \/ m[x] \in Strays,
         AuthenticateFirmware(m) = "SUCCESS"
  PROVE  km = ManifestKey /\ k0 = L0Key /\ k1 = L1Key
<1> DEFINE a1 == ManifestSize + next
           laid(x) ==
             IF x \in Occupies(a1, l1) THEN ImageAt(a1, HeaderOf(l1, 0), k1, l1, x)
             ELSE IF x \in Occupies(ManifestSize, l0)
               THEN ImageAt(ManifestSize, HeaderOf(l0, next), k0, l0, x)
             ELSE IF x = 0 THEN ManifestSignedBy(km) ELSE Empty
<1>1. /\ ManifestSize \in Nat /\ ManifestSize > 0 /\ Mem \in Nat /\ Slot \in Nat
      /\ Slot >= 2 /\ ManifestSize + Slot <= Mem /\ HeaderSize = 2
      /\ l0.size \in Nat /\ l0.size > 0 /\ l1.size \in Nat /\ l1.size > 0
  BY LayoutAssumption, InputsAssumption DEF HeaderSize, ImageFiles
<1>2. /\ m[0].kind = "manifest" /\ Verifies(m[0].signature, m[0].body, ManifestKey)
      /\ CheckL0(m) = "SUCCESS"
  BY AcceptedManifest
<1>3. /\ SignedImage(m, ManifestSize, m[0].body.l0_pub_key)
      /\ SignedImage(m, L1Base(m), m[0].body.l1_pub_key)
      /\ ImageEnd(m, ManifestSize) \in 0 .. L1Base(m)
      /\ L1Base(m) \in 0 .. ManifestSize + Slot - HeaderSize
  BY <1>2, AcceptedImages
<1>4. \A x \in Address : m[x] = laid(x) \/ m[x] \in Strays
  BY DEF Laid
<1>5. \A x \in Nat :
        /\ x \in Occupies(a1, l1) <=> a1 <= x /\ x <= a1 + 1 + l1.size
        /\ x \in Occupies(ManifestSize, l0) <=> ManifestSize <= x /\ x <= ManifestSize + 1 + l0.size
        /\ x \in Address <=> x < Mem
  BY <1>1 DEF Occupies, Address
<1>6. \A x \in Nat : x < Mem => x \in Address
  BY <1>5
<1> HIDE DEF laid, a1
<1>7. a1 \in Nat /\ a1 = ManifestSize + next
  BY <1>1 DEF a1
<1>8. km = ManifestKey /\ m[0].body.l0_pub_key = L0Key /\ m[0].body.l1_pub_key = L1Key
  <2>1. m[0] = laid(0)
    BY <1>1, <1>2, <1>4, <1>6 DEF NoForgery
  <2>2. laid(0) = ManifestSignedBy(km)
    BY <1>1, <1>5, <1>7 DEF laid
  <2> QED
    BY <1>2, <2>1, <2>2 DEF ManifestSignedBy, Verifies, Signature
<1>9. m[ManifestSize].fw_size \in Nat /\ m[ManifestSize].next_image_offset \in Nat
  <2>1. ManifestSize \in Address /\ m[ManifestSize].kind = "header"
    BY <1>1, <1>3, <1>6 DEF SignedImage
  <2> QED
    BY <2>1 DEF Flash, WellFormed
<1>10. L1Base(m) = ManifestSize + m[ManifestSize].next_image_offset /\ L1Base(m) >= ManifestSize + 2
  BY <1>1, <1>3, <1>9 DEF L1Base, ImageEnd
<1>11. k0 = L0Key /\ m[ManifestSize] = HeaderOf(l0, next)
  <2> DEFINE sig == m[ManifestSize + 1]
  <2>1. sig = Signature(L0Key, m[ManifestSize])
    BY <1>3, <1>8 DEF SignedImage, Verifies
  <2>2. sig.kind = "signature" /\ sig.key = L0Key /\ sig.of = m[ManifestSize]
    BY <2>1 DEF Signature
  <2>3. sig = laid(ManifestSize + 1)
    BY <1>1, <1>4, <1>6, <2>2 DEF NoForgery
  <2>4. CASE a1 = ManifestSize
    <3>1. laid(ManifestSize + 1) = Signature(k1, HeaderOf(l1, 0))
      BY <1>1, <1>5, <1>7, <2>4 DEF laid, ImageAt
    <3>2. m[ManifestSize].next_image_offset = 0
      BY <2>2, <2>3, <3>1 DEF Signature, HeaderOf
    <3> QED
      BY <1>1, <1>10, <3>2
  <2>5. CASE a1 = ManifestSize + 1
    <3>1. laid(ManifestSize + 1) = HeaderOf(l1, 0)
      BY <1>1, <1>5, <1>7, <2>5 DEF laid, ImageAt
    <3> QED
      BY <2>2, <2>3, <3>1 DEF HeaderOf
  <2>6. CASE a1 > ManifestSize + 1
    <3>1. laid(ManifestSize + 1) = Signature(k0, HeaderOf(l0, next))
      BY <1>1, <1>5, <1>7, <2>6 DEF laid, ImageAt
    <3> QED
      BY <2>2, <2>3, <3>1 DEF Signature
  <2> QED
    BY <1>1, <1>7, <2>4, <2>5, <2>6
<1>12. L1Base(m) = a1
  BY <1>7, <1>10, <1>11 DEF HeaderOf
<1>13. k1 = L1Key
  <2> DEFINE sig == m[a1 + 1]
  <2>1. sig = Signature(L1Key, m[a1])
    BY <1>3, <1>8, <1>12 DEF SignedImage, Verifies
  <2>2. sig.kind = "signature" /\ sig.key = L1Key
    BY <2>1 DEF Signature
  <2>3. a1 + 1 \in Address
    BY <1>1, <1>3, <1>6, <1>7, <1>12
  <2>4. sig = laid(a1 + 1)
    BY <1>4, <2>2, <2>3 DEF NoForgery
  <2>5. laid(a1 + 1) = Signature(k1, HeaderOf(l1, 0))
    BY <1>1, <1>5, <1>7 DEF laid, ImageAt
  <2> QED
    BY <2>2, <2>4, <2>5 DEF Signature
<1> QED
  BY <1>8, <1>11, <1>13

\* The package b was built, and m is its flash, or damage.
OfBuild(b, m, l0, l1, next, km, k0, k1) ==
  /\ b = [kind |-> "package", l0 |-> l0, l1 |-> l1, next |-> next,
          keys |-> <<km, k0, k1>>]
  /\ \A x \in Address : m[x] = Laid(l0, l1, next, km, k0, k1)[x] \/ m[x] \in Strays

Owned ==
  /\ BuiltFirst
  /\ built # NotBuilt =>
       \E l0, l1 \in ImageFiles, next \in Nat, km, k0, k1 \in Keys :
         OfBuild(built, mem, l0, l1, next, km, k0, k1)
  /\ status = "SUCCESS" => AuthenticateFirmware(mem) = "SUCCESS"

LEMMA OwnedStep == TypeOK /\ Owned /\ [Next]_vars => Owned'
<1> SUFFICES ASSUME TypeOK, Owned, [Next]_vars PROVE Owned'
  OBVIOUS
<1>1. CASE Build
  <2>1. PICK l0 \in ImageFiles, l1 \in ImageFiles, next \in Offsets,
             km \in Keys, k0 \in Keys, k1 \in Keys : BuildOf(l0, l1, next, km, k0, k1)
    BY <1>1 DEF Build
  <2>2. next \in Nat
    BY InputsAssumption
  <2>3. OfBuild(built', mem', l0, l1, next, km, k0, k1)
    BY <2>1 DEF BuildOf, Laid, OfBuild
  <2>4. status' = "NONE"
    BY <1>1 DEF Build, Owned, BuiltFirst
  <2> QED
    BY <2>2, <2>3, <2>4 DEF Owned, BuiltFirst
<1>2. CASE Damage
  <2>1. PICK x \in Address, c \in Strays : mem' = [mem EXCEPT ![x] = c]
    BY <1>2 DEF Damage
  <2>2. \A y \in Address : mem'[y] = mem[y] \/ mem'[y] \in Strays
    BY <2>1 DEF TypeOK
  <2>3. built # NotBuilt /\ built' = built /\ status = "NONE" /\ status' = status
    BY <1>2 DEF Damage, Owned
  <2>4. PICK l0 \in ImageFiles, l1 \in ImageFiles, next \in Nat,
             km \in Keys, k0 \in Keys, k1 \in Keys :
          OfBuild(built, mem, l0, l1, next, km, k0, k1)
    BY <2>3 DEF Owned
  <2>5. OfBuild(built', mem', l0, l1, next, km, k0, k1)
    BY <2>2, <2>3, <2>4 DEF OfBuild
  <2> QED
    BY <2>3, <2>5 DEF Owned, BuiltFirst
<1>3. CASE Authenticate
  BY <1>3 DEF Authenticate, Owned, BuiltFirst
<1>4. CASE UNCHANGED vars
  BY <1>4 DEF vars, Owned, BuiltFirst
<1> QED
  BY <1>1, <1>2, <1>3, <1>4 DEF Next

\* What has been accepted is a package made with the owner's keys.
SignedByTheOwner == status = "SUCCESS" => built.keys = <<ManifestKey, L0Key, L1Key>>

\* AuthenticateFirmware accepts only what signtool has signed with the key it is
\* given and the two keys in the manifest, each part with its own: however much of
\* the flash is damaged, as long as damage doesn't forge a signature.
THEOREM OnlyTheOwnersAccepted ==
  ASSUME NoForgery
  PROVE  Spec => []SignedByTheOwner
<1>1. Init => Owned
  BY DEF Init, Owned, BuiltFirst
<1>2. TypeOK /\ Owned => SignedByTheOwner
  <2> SUFFICES ASSUME TypeOK, Owned, status = "SUCCESS"
               PROVE  built.keys = <<ManifestKey, L0Key, L1Key>>
    BY DEF SignedByTheOwner
  <2>1. Flash(mem) /\ AuthenticateFirmware(mem) = "SUCCESS" /\ built # NotBuilt
    BY DEF TypeOK, Flash, Owned, BuiltFirst
  <2>2. PICK l0 \in ImageFiles, l1 \in ImageFiles, next \in Nat,
             km \in Keys, k0 \in Keys, k1 \in Keys :
          OfBuild(built, mem, l0, l1, next, km, k0, k1)
    BY <2>1 DEF Owned
  <2>3. km = ManifestKey /\ k0 = L0Key /\ k1 = L1Key
    BY <2>1, <2>2, AcceptedKeys DEF OfBuild
  <2> QED
    BY <2>2, <2>3 DEF OfBuild
<1> QED
  BY <1>1, <1>2, OwnedStep, TypeCorrect, PTL DEF Spec

-----------------------------------------------------------------------------
(* The layer below *)

\* Only Deliver puts anything into flash.
LEMMA StepsAlone ==
  ASSUME \/ keymanifesttool \/ RunNinja \/ MakePackage \/ Clean
         \/ \E p \in Parts : signtool(p) \/ cat(p) \/ OpenKey(p) \/ WriteKey(p)
         \/ \E p \in Parts, r \in Rules : Skip(p, r)
         \/ \E p \in Images : headertool(p)
         \/ \E p \in Changing : Edit(p) \/ NewKey(p)
  PROVE  UNCHANGED auth /\ UNCHANGED <<built, delivered>>
<1>1. \A p, r, save, success :
        Ran(p, r, save, success) => UNCHANGED auth /\ UNCHANGED <<built, delivered>>
  BY DEF Ran, auth
<1>2. \A p : headertool(p) \/ signtool(p) \/ cat(p) \/ OpenKey(p) \/ WriteKey(p)
             \/ Edit(p) \/ NewKey(p) => UNCHANGED auth /\ UNCHANGED <<built, delivered>>
  BY <1>1 DEF headertool, signtool, cat, OpenKey, WriteKey, Edit, NewKey, NoInput, auth
<1>3. keymanifesttool \/ RunNinja \/ MakePackage \/ Clean =>
        UNCHANGED auth /\ UNCHANGED <<built, delivered>>
  BY <1>1 DEF keymanifesttool, RunNinja, MakePackage, Clean, NoInput, auth
<1>4. \A p, r : Skip(p, r) => UNCHANGED auth /\ UNCHANGED <<built, delivered>>
  BY DEF Skip, auth
<1> QED
  BY <1>2, <1>3, <1>4

\* Every step of the tools, the rules and the developer is one of FirmwareAuth's
\* or leaves its variables alone.
LEMMA BelowStep == [BuildNext]_buildVars => [Next]_vars
<1>1. Deliver => Build
  <2> SUFFICES ASSUME Deliver PROVE Build
    OBVIOUS
  <2>1. \A p, k : k \in Keys => Signer(p, k) \subseteq Keys
    BY DEF Signer
  <2>2. /\ Signer("manifest", ManifestKey) \subseteq Keys
        /\ Signer("L0", L0Key) \subseteq Keys /\ Signer("L1", L1Key) \subseteq Keys
    BY <2>1, KeysAssumption
  <2> QED
    BY <2>2 DEF Deliver, Build
<1>2. [BuildNext]_buildVars =>
        Deliver \/ UNCHANGED auth \/ Damage \/ Authenticate
  BY StepsAlone DEF BuildNext, buildVars
<1> QED
  BY <1>1, <1>2 DEF Next, auth, vars

\* The build of a package is a behaviour of FirmwareAuth.
THEOREM BuildsBelow == BuildSpec => Spec
<1>1. BuildInit => Init
  BY DEF BuildInit
<1> QED
  BY <1>1, BelowStep, PTL DEF BuildSpec, Spec

\* With the tools in front of it, too, the flash and its results keep their types.
THEOREM BuildTypes == BuildSpec => []TypeOK
  BY BuildsBelow, TypeCorrect, PTL

\* What comes out of a build, in whatever way it went, is accepted only if it is
\* authentic.
THEOREM BuildsAuthentic == BuildSpec => []AcceptedIsAuthentic
  BY BuildsBelow, OnlyAuthenticAccepted, PTL

\* A package the tools have made with the right keys is accepted.
THEOREM BuildsAccepted == BuildSpec => []BuiltIsAccepted
  BY BuildsBelow, BuiltAccepted, PTL

-----------------------------------------------------------------------------
(* The build *)

BuildTypeOK ==
  /\ key \in [Parts -> Int] /\ keys \in [Parts -> Nat] /\ bin \in [Images -> Nat]
  /\ file = [p \in Parts |-> [r \in Rules |-> file[p][r]]]
  /\ done \subseteq Parts \X Rules /\ at \in [Parts -> Rules \cup {"end"}]
  /\ make \in {"none", "running", "failed", "success"}
  /\ unnoticed \in BOOLEAN /\ rekeyed \in BOOLEAN

\* What a file may hold, however many builds have failed: a manifest is of the two
\* keys there are, and a signed part is an object and a signature, or less.
Single(S) == \A x, y \in S : x = y
OwnKeys(o) == HasKey("L0") /\ HasKey("L1") /\ o = Object("manifest")
ObjectOK(p, S) ==
  Single(S) /\ (p = "manifest" /\ ~rekeyed => \A o \in S : OwnKeys(o))
SignatureOK(S) == Single(S) /\ \A s \in S : s = [key |-> s.key, of |-> s.of]
SignedOK(p, S) ==
  Single(S) /\ \A b \in S : /\ b = [object |-> b.object, signature |-> b.signature]
                           /\ ObjectOK(p, b.object) /\ SignatureOK(b.signature)
FileOK(p, r, S) ==
  IF r = "object" THEN ObjectOK(p, S)
  ELSE IF r = "signature" THEN SignatureOK(S) ELSE SignedOK(p, S)
FilesInv == \A p \in Parts, r \in Rules : FileOK(p, r, file[p][r].holds)

\* What the rules that are done have made.
Made(p, r) ==
  IF r = "object" THEN Object(p)
  ELSE IF r = "signature" THEN SignatureOf(p, Object(p)) ELSE UpToDate(p)
Keyed(p) == HasKey(p) /\ (p = "manifest" => HasKey("L0") /\ HasKey("L1"))
DoneInv ==
  ~unnoticed /\ ~rekeyed => \A p \in Parts, r \in Rules :
    <<p, r>> \in done =>
      file[p][r].holds = {Made(p, r)} /\ (r # "object" => Keyed(p))

\* How far a part's chain is.
ProgressInv ==
  ~unnoticed =>
    /\ make = "running" => \A p \in Parts :
         /\ at[p] # "object" => <<p, "object">> \in done
         /\ at[p] \in {"signed", "end"} => <<p, "signature">> \in done
         /\ at[p] = "end" => <<p, "signed">> \in done
    /\ make = "success" => \A p \in Parts : <<p, "signed">> \in done

\* The package is of the files that are there.
PackageInv ==
  make = "success" => \A p \in Parts : package[p] = file[p].signed /\ HasKey(p)

\* A step that takes no key away, or says so.
KeysStay ==
  /\ rekeyed \in BOOLEAN /\ rekeyed' \in BOOLEAN
  /\ ~rekeyed' => ~rekeyed /\ \A p \in Parts : HasKey(p) => key'[p] = key[p]

\* What may be in a file may still be in it afterwards.
LEMMA ObjectStays ==
  ASSUME KeysStay, NEW p \in Parts, NEW S, ObjectOK(p, S)
  PROVE  ObjectOK(p, S)'
<1>1. ASSUME NEW o, OwnKeys(o), ~rekeyed' PROVE OwnKeys(o)'
  BY <1>1 DEF OwnKeys, HasKey, Object, KeysStay, Parts, Images
<1>2. rekeyed' \/ ~rekeyed
  BY DEF KeysStay
<1>3. Single(S)
  BY DEF ObjectOK
<1>4. ASSUME p = "manifest", ~rekeyed', NEW o \in S PROVE OwnKeys(o)'
  BY <1>1, <1>2, <1>4 DEF ObjectOK
<1> QED
  BY <1>3, <1>4 DEF ObjectOK

\* The same of a signed part, whose object is in it.
LEMMA SignedStays ==
  ASSUME KeysStay, NEW p \in Parts, NEW S, SignedOK(p, S)
  PROVE  SignedOK(p, S)'
<1>1. ASSUME NEW b \in S PROVE ObjectOK(p, b.object)'
  <2> DEFINE o == b.object
  <2>1. ObjectOK(p, o)
    BY DEF SignedOK
  <2> HIDE DEF o
  <2>2. ObjectOK(p, o)'
    BY <2>1, ObjectStays
  <2> QED
    BY <2>2 DEF o
<1> QED
  BY <1>1 DEF SignedOK

\* The same of a file of any rule.
LEMMA FileStays ==
  ASSUME KeysStay, NEW p \in Parts, NEW r, NEW S, FileOK(p, r, S)
  PROVE  FileOK(p, r, S)'
<1>1. ObjectOK(p, S) => ObjectOK(p, S)'
  BY ObjectStays
<1>2. SignatureOK(S) => SignatureOK(S)'
  BY DEF SignatureOK, Single
<1>3. SignedOK(p, S) => SignedOK(p, S)'
  BY SignedStays
<1> QED
  BY <1>1, <1>2, <1>3 DEF FileOK

\* A file that is missing, or was cut to nothing.
LEMMA EmptyOK == \A p, r : FileOK(p, r, {}) /\ FileOK(p, r, {})'
  BY DEF FileOK, ObjectOK, SignatureOK, SignedOK, Single

\* A step that writes to no file, or to all of them.
LEMMA FilesStay ==
  ASSUME FilesInv, KeysStay, file' = file
  PROVE  FilesInv'
  BY FileStays DEF FilesInv

\* The whole directory is removed.
LEMMA FilesGone == file' = NoFiles => FilesInv'
<1> SUFFICES ASSUME file' = NoFiles, NEW p \in Parts, NEW r \in Rules
             PROVE  FileOK(p, r, file[p][r].holds)'
  BY DEF FilesInv
<1>1. file'[p][r].holds = {}
  BY DEF NoFiles, Missing
<1> QED
  BY <1>1, EmptyOK

\* What is done stays done where a step changes neither the key nor the binary.
LEMMA MadeStays ==
  ASSUME BuildTypeOK, FilesInv, KeysStay, ~rekeyed', ~rekeyed,
         NEW p \in Parts, NEW r \in Rules,
         file[p][r].holds = {Made(p, r)}, r # "object" => Keyed(p),
         p \in Images => bin'[p] = bin[p]
  PROVE  Made(p, r)' = Made(p, r) /\ (r # "object" => Keyed(p)')
<1>1. \A q \in Parts : HasKey(q) => HasKey(q)' /\ key'[q] = key[q]
  BY DEF KeysStay, HasKey
<1>2. "L0" \in Parts /\ "L1" \in Parts /\ "manifest" \in Parts
  BY DEF Parts, Images
<1>3. r # "object" => Keyed(p)'
  BY <1>1, <1>2 DEF Keyed
<1>4. p = "manifest" => HasKey("L0") /\ HasKey("L1")
  <2>1. CASE r = "object"
    <3>1. ASSUME p = "manifest" PROVE OwnKeys(Made(p, r))
      BY <2>1, <3>1 DEF FilesInv, FileOK, ObjectOK
    <3> QED
      BY <3>1 DEF OwnKeys
  <2>2. CASE r # "object"
    BY <2>2 DEF Keyed
  <2> QED
    BY <2>1, <2>2
<1>5. Object(p)' = Object(p)
  BY <1>1, <1>2, <1>4 DEF Object, Parts
<1>6. r # "object" => key'[p] = key[p]
  BY <1>1 DEF Keyed
<1>7. CASE r = "object"
  BY <1>5, <1>7 DEF Made
<1>8. CASE r # "object"
  <2>1. \A o : SignatureOf(p, o)' = SignatureOf(p, o)
    BY <1>6, <1>8 DEF SignatureOf
  <2> QED
    BY <1>3, <1>5, <1>6 , <1>8, <2>1 DEF Made, UpToDate, SignatureOf
<1> QED
  BY <1>7, <1>8

\* The step keeps what is done of it.
LEMMA DoneStays ==
  ASSUME BuildTypeOK, FilesInv, KeysStay, DoneInv,
         ~unnoticed', ~unnoticed, ~rekeyed', ~rekeyed,
         NEW p \in Parts, NEW r \in Rules, <<p, r>> \in done,
         file'[p][r] = file[p][r], p \in Images => bin'[p] = bin[p]
  PROVE  file'[p][r].holds = {Made(p, r)'} /\ (r # "object" => Keyed(p)')
<1>1. file[p][r].holds = {Made(p, r)} /\ (r # "object" => Keyed(p))
  BY DEF DoneInv
<1> QED
  BY <1>1, MadeStays

-----------------------------------------------------------------------------
(* The tools *)

\* A rule touches its own file only.
LEMMA RanFile ==
  ASSUME BuildTypeOK, NEW p \in Parts, NEW r \in Rules, NEW save, NEW success,
         Ran(p, r, save, success)
  PROVE  /\ \A q \in Parts, s \in Rules :
              file'[q][s] = IF q = p /\ s = r THEN save.file ELSE file[q][s]
         /\ file' = [q \in Parts |-> [s \in Rules |-> file'[q][s]]]
  BY DEF Ran, BuildTypeOK

\* A rule keeps the types, and the keys.
LEMMA RanTypes ==
  ASSUME BuildTypeOK, NEW p \in Parts, NEW r \in Rules, NEW save, NEW success \in BOOLEAN,
         save.fault \in BOOLEAN, Ran(p, r, save, success)
  PROVE  BuildTypeOK' /\ KeysStay
<1>1. file' = [q \in Parts |-> [s \in Rules |-> file'[q][s]]]
  BY RanFile
<1>2. key' = key /\ keys' = keys /\ bin' = bin /\ rekeyed' = rekeyed
  BY DEF Ran
<1>3. done' \subseteq Parts \X Rules
  BY DEF Ran, BuildTypeOK
<1>4. NextRule(r) \in Rules \cup {"end"}
  BY DEF NextRule, Rules
<1>5. at' \in [Parts -> Rules \cup {"end"}] /\ make' \in {"none", "running", "failed", "success"}
  BY <1>4 DEF Ran, BuildTypeOK
<1>6. unnoticed' \in BOOLEAN
  BY Zenon DEF Ran, BuildTypeOK
<1>7. KeysStay
  BY <1>2 DEF KeysStay, BuildTypeOK
<1> QED
  BY <1>1, <1>2, <1>3, <1>5, <1>6, <1>7 DEF BuildTypeOK

\* A rule that runs leaves a file that may be.
LEMMA RanFiles ==
  ASSUME BuildTypeOK, FilesInv, NEW p \in Parts, NEW r \in Rules, NEW save,
         NEW success \in BOOLEAN, save.fault \in BOOLEAN, Ran(p, r, save, success),
         FileOK(p, r, save.file.holds)
  PROVE  FilesInv'
<1> SUFFICES ASSUME NEW q \in Parts, NEW s \in Rules
             PROVE  FileOK(q, s, file[q][s].holds)'
  BY DEF FilesInv
<1>1. KeysStay
  BY RanTypes
<1>2. CASE q = p /\ s = r
  <2>1. file'[q][s] = save.file
    BY <1>2, RanFile
  <2>2. FileOK(p, r, save.file.holds)'
    BY <1>1, FileStays
  <2> QED
    BY <1>2, <2>1, <2>2
<1>3. CASE ~(q = p /\ s = r)
  <2>1. file'[q][s] = file[q][s]
    BY <1>3, RanFile
  <2>2. FileOK(q, s, file[q][s].holds)
    BY DEF FilesInv
  <2>3. PICK S : S = file[q][s].holds
    OBVIOUS
  <2>4. FileOK(q, s, S)'
    BY <1>1, <2>2, <2>3, FileStays
  <2>5. file'[q][s].holds = S
    BY <2>1, <2>3
  <2> QED
    BY <2>4, <2>5
<1> QED
  BY <1>2, <1>3

\* A rule that succeeds has made what it should, where its inputs are what they
\* should be; one that doesn't isn't done, nor is what is made from it.
LEMMA RanDone ==
  ASSUME BuildTypeOK, FilesInv, DoneInv, ProgressInv,
         NEW p \in Parts, NEW r \in Rules, NEW save, NEW success \in BOOLEAN,
         save.fault \in BOOLEAN, Ran(p, r, save, success), IsAt(p, r),
         success /\ ~save.fault => save.touched = TRUE,
         success /\ ~save.fault /\ ~unnoticed /\ ~rekeyed =>
           save.file.holds = {Made(p, r)} /\ (r # "object" => Keyed(p))
  PROVE  DoneInv' /\ ProgressInv'
<1>1. KeysStay
  BY RanTypes
<1>2. /\ key' = key /\ bin' = bin /\ rekeyed' = rekeyed
      /\ ~unnoticed' => ~unnoticed /\ (success => ~save.fault)
  BY DEF Ran
<1>3. r \in From(r)
  BY DEF From, Rules
<1>4. \A q \in Parts, s \in Rules :
        /\ q # p => (<<q, s>> \in done' <=> <<q, s>> \in done)
        /\ s # r => (<<q, s>> \in done' => <<q, s>> \in done)
        /\ s \notin From(r) => (<<q, s>> \in done' <=> <<q, s>> \in done)
  <2> DEFINE new == IF success /\ save.touched THEN {<<p, r>>} ELSE {}
  <2>1. done' = (done \ ({p} \X From(r))) \cup new
    BY DEF Ran
  <2>2. \A q, s : <<q, s>> \in new => q = p /\ s = r
    OBVIOUS
  <2> HIDE DEF new
  <2>3. ASSUME NEW q \in Parts, NEW s \in Rules
        PROVE  <<q, s>> \in done' <=> \/ <<q, s>> \in done /\ ~(q = p /\ s \in From(r))
                                      \/ <<q, s>> \in new
    BY <2>1
  <2> QED
    BY <1>3, <2>2, <2>3
<1>5. <<p, r>> \in done' <=> success /\ save.touched
  BY <1>3 DEF Ran
<1>6. DoneInv'
  <2> SUFFICES ASSUME ~unnoticed', ~rekeyed', NEW q \in Parts, NEW s \in Rules,
                      <<q, s>> \in done'
               PROVE  file'[q][s].holds = {Made(q, s)'} /\ (s # "object" => Keyed(q)')
    BY DEF DoneInv
  <2>1. CASE q = p /\ s = r
    <3>1. file'[q][s] = save.file
      BY <2>1, RanFile
    <3>2. success /\ ~save.fault /\ ~unnoticed /\ ~rekeyed
      BY <1>2, <1>5, <2>1
    <3>3. Made(p, r)' = Made(p, r) /\ (Keyed(p) => Keyed(p)')
      BY <1>2 DEF Made, Keyed, HasKey, Object, SignatureOf, UpToDate
    <3> QED
      BY <2>1, <3>1, <3>2, <3>3
  <2>2. CASE ~(q = p /\ s = r)
    <3>1. file'[q][s] = file[q][s]
      BY <2>2, RanFile
    <3>2. <<q, s>> \in done
      BY <1>4, <2>2
    <3> QED
      BY <1>1, <1>2, <3>1, <3>2, DoneStays
  <2> QED
    BY <2>1, <2>2
<1>7. ProgressInv'
  <2> SUFFICES ASSUME ~unnoticed' PROVE ProgressInv'
    BY DEF ProgressInv
  <2>1. CASE ~success
    <3>1. make' = "failed"
      BY <2>1 DEF Ran
    <3> QED
      BY <3>1 DEF ProgressInv
  <2>2. CASE success
    <3>1. /\ make = "running" /\ make' = "running" /\ at[p] = r
          /\ at' = [at EXCEPT ![p] = NextRule(r)]
      BY <2>2 DEF Ran, IsAt
    <3>2. <<p, r>> \in done'
      BY <1>2, <1>5, <2>2
    <3> SUFFICES ASSUME NEW q \in Parts
                 PROVE  /\ at'[q] # "object" => <<q, "object">> \in done'
                        /\ at'[q] \in {"signed", "end"} => <<q, "signature">> \in done'
                        /\ at'[q] = "end" => <<q, "signed">> \in done'
      BY <3>1 DEF ProgressInv
    <3>3. /\ at[q] # "object" => <<q, "object">> \in done
          /\ at[q] \in {"signed", "end"} => <<q, "signature">> \in done
          /\ at[q] = "end" => <<q, "signed">> \in done
      BY <1>2, <3>1 DEF ProgressInv
    <3>4. CASE q # p
      <4>1. at'[q] = at[q]
        BY <3>1, <3>4 DEF BuildTypeOK
      <4> QED
        BY <1>4, <3>3, <3>4, <4>1 DEF Rules
    <3>5. CASE q = p
      <4>1. at'[p] = NextRule(r)
        BY <3>1 DEF BuildTypeOK
      <4> QED
        BY <1>4, <3>1, <3>2, <3>3, <3>5, <4>1 DEF Rules, NextRule, From
    <3> QED
      BY <3>4, <3>5
  <2> QED
    BY <2>1, <2>2
<1> QED
  BY <1>6, <1>7

\* The parts of the invariant that are about the build directory.
MakeInv == BuildTypeOK /\ FilesInv /\ DoneInv /\ ProgressInv /\ PackageInv

\* What any save of a file leaves.
LEMMA OfSaves ==
  ASSUME NEW f, NEW x, NEW save, save \in Saves(f, x)
  PROVE  /\ save.fault \in BOOLEAN /\ save.noticed \in BOOLEAN
         /\ ~save.fault => save.file = Full(x) /\ save.touched = TRUE /\ ~save.noticed
         /\ save.file.holds \in {f.holds, {}, {x}}
<1>1. \/ save = [file |-> Full(x), noticed |-> FALSE, fault |-> FALSE, touched |-> TRUE]
      \/ save = [file |-> f, noticed |-> TRUE, fault |-> TRUE, touched |-> FALSE]
      \/ save = [file |-> NoData, noticed |-> TRUE, fault |-> TRUE, touched |-> TRUE]
      \/ save = [file |-> NoData, noticed |-> FALSE, fault |-> TRUE, touched |-> TRUE]
  BY Zenon DEF Saves
<1>2. save.fault \in BOOLEAN /\ save.noticed \in BOOLEAN
  <2>1. (save.fault = FALSE \/ save.fault = TRUE) /\ (save.noticed = FALSE \/ save.noticed = TRUE)
    BY <1>1
  <2> QED
    BY <2>1, Zenon
<1>3. ~save.fault => save.file = Full(x) /\ save.touched = TRUE /\ ~save.noticed
  BY <1>1
<1>4. save.file = Full(x) \/ save.file = f \/ save.file = NoData
  BY <1>1
<1>5. save.file.holds \in {f.holds, {}, {x}}
  BY <1>4 DEF NoData, Full
<1> QED
  BY <1>2, <1>3, <1>5

\* A tool has run that saves x, or x is of no account.
LEMMA ToolRan ==
  ASSUME MakeInv, NEW p \in Parts, NEW r \in Rules, NEW save, NEW success \in BOOLEAN,
         NEW x, save \in Saves(file[p][r], x), Ran(p, r, save, success), IsAt(p, r),
         FileOK(p, r, {x}),
         ~unnoticed /\ ~rekeyed => x = Made(p, r) /\ (r # "object" => Keyed(p))
  PROVE  MakeInv'
<1>1. /\ save.fault \in BOOLEAN
      /\ ~save.fault => save.file = Full(x) /\ save.touched = TRUE
      /\ save.file.holds \in {file[p][r].holds, {}, {x}}
  <2>1. PICK f : f = file[p][r]
    OBVIOUS
  <2>2. save \in Saves(f, x)
    BY <2>1
  <2>3. /\ save.fault \in BOOLEAN /\ save.noticed \in BOOLEAN
        /\ ~save.fault => save.file = Full(x) /\ save.touched = TRUE /\ ~save.noticed
        /\ save.file.holds \in {f.holds, {}, {x}}
    BY <2>2, OfSaves
  <2> QED
    BY <2>1, <2>3
<1>2. FileOK(p, r, file[p][r].holds) /\ FileOK(p, r, {})
  BY EmptyOK DEF MakeInv, FilesInv
<1>3. FileOK(p, r, save.file.holds)
  BY <1>1, <1>2
<1>4. FilesInv'
  BY <1>1, <1>3, RanFiles DEF MakeInv
<1>5. Full(x).holds = {x}
  BY DEF Full
<1>6. DoneInv' /\ ProgressInv'
  BY <1>1, <1>5, RanDone DEF MakeInv
<1>7. PackageInv'
  BY DEF Ran, IsAt, PackageInv
<1>8. BuildTypeOK'
  BY <1>1, RanTypes DEF MakeInv
<1> QED
  BY <1>4, <1>6, <1>7, <1>8 DEF MakeInv

\* A tool has failed that left its file as it was, or empty.
LEMMA ToolFailed ==
  ASSUME MakeInv, NEW p \in Parts, NEW r \in Rules, NEW save, Ran(p, r, save, FALSE),
         IsAt(p, r), save.fault \in BOOLEAN, save.file.holds \in {file[p][r].holds, {}}
  PROVE  MakeInv'
<1>1. FileOK(p, r, save.file.holds)
  BY EmptyOK DEF MakeInv, FilesInv
<1>2. FilesInv'
  BY <1>1, RanFiles DEF MakeInv
<1>3. DoneInv' /\ ProgressInv'
  BY RanDone DEF MakeInv
<1>4. PackageInv'
  BY DEF Ran, IsAt, PackageInv
<1>5. BuildTypeOK'
  BY RanTypes DEF MakeInv
<1> QED
  BY <1>2, <1>3, <1>4, <1>5 DEF MakeInv

\* A tool that fails before it writes.
LEMMA FailsAtOnce ==
  ASSUME MakeInv, NEW p \in Parts, NEW r \in Rules, NoInput(p, r), IsAt(p, r)
  PROVE  MakeInv'
<1>1. PICK save : /\ save = [file |-> file[p][r], noticed |-> TRUE, fault |-> FALSE,
                             touched |-> FALSE]
                  /\ Ran(p, r, save, FALSE)
  BY DEF NoInput
<1>2. save.fault = FALSE /\ save.file.holds = file[p][r].holds
  BY <1>1
<1>3. save.fault \in BOOLEAN
  BY <1>2, Zenon
<1> QED
  BY <1>1, <1>2, <1>3, ToolFailed

\* headertool, of either image.
LEMMA HeaderStep == ASSUME MakeInv, NEW p \in Images, headertool(p) PROVE MakeInv'
<1>1. PICK x : x = Object(p)
  OBVIOUS
<1>2. PICK save \in Saves(file[p]["object"], x) : Ran(p, "object", save, ~save.noticed)
  BY <1>1 DEF headertool
<1>3. p \in Parts /\ "object" \in Rules /\ IsAt(p, "object")
  BY DEF headertool, Due, Parts, Rules
<1>4. FileOK(p, "object", {x})
  BY <1>3 DEF FileOK, ObjectOK, Single, Images
<1>5. Made(p, "object") = x
  BY <1>1 DEF Made
<1>6. (~save.noticed) \in BOOLEAN
  OBVIOUS
<1> QED
  BY <1>2, <1>3, <1>4, <1>5, <1>6, ToolRan

\* keymanifesttool.
LEMMA ManifestStep == ASSUME MakeInv, keymanifesttool PROVE MakeInv'
<1>1. "manifest" \in Parts /\ "object" \in Rules /\ IsAt("manifest", "object")
  BY DEF keymanifesttool, Due, Parts, Rules
<1>2. CASE HasKey("L0") /\ HasKey("L1")
  <2>1. PICK x : x = Object("manifest")
    OBVIOUS
  <2>2. PICK save \in Saves(file["manifest"]["object"], x) :
          Ran("manifest", "object", save, TRUE)
    BY <1>2, <2>1 DEF keymanifesttool
  <2>3. FileOK("manifest", "object", {x})
    BY <1>2, <2>1 DEF FileOK, ObjectOK, Single, OwnKeys
  <2>4. Made("manifest", "object") = x
    BY <2>1 DEF Made
  <2> QED
    BY <1>1, <2>2, <2>3, <2>4, ToolRan
<1>3. CASE ~(HasKey("L0") /\ HasKey("L1"))
  BY <1>1, <1>3, FailsAtOnce DEF keymanifesttool
<1> QED
  BY <1>2, <1>3

\* signtool has the object that is there to sign, and the key.
LEMMA SignStep == ASSUME MakeInv, NEW p \in Parts, signtool(p) PROVE MakeInv'
<1>1. "signature" \in Rules /\ IsAt(p, "signature")
  BY DEF signtool, Due, Rules
<1>2. CASE ~HasKey(p) \/ file[p]["object"].holds = {}
  BY <1>1, <1>2, FailsAtOnce DEF signtool
<1>3. CASE HasKey(p) /\ file[p]["object"].holds # {}
  <2>1. PICK o \in file[p]["object"].holds :
          \E save \in Saves(file[p]["signature"], SignatureOf(p, o)) :
            Ran(p, "signature", save, TRUE)
    BY <1>3 DEF signtool
  <2>2. PICK x : x = SignatureOf(p, o)
    OBVIOUS
  <2>3. PICK save \in Saves(file[p]["signature"], x) : Ran(p, "signature", save, TRUE)
    BY <2>1, <2>2
  <2>4. FileOK(p, "signature", {x})
    BY <2>2 DEF FileOK, SignatureOK, Single, SignatureOf
  <2>5. ASSUME ~unnoticed, ~rekeyed
        PROVE  x = Made(p, "signature") /\ Keyed(p)
    <3>1. <<p, "object">> \in done
      BY <1>1, <2>5 DEF MakeInv, ProgressInv, IsAt
    <3>2. file[p]["object"].holds = {Object(p)}
      BY <2>5, <3>1 DEF MakeInv, DoneInv, Made, Rules
    <3>3. p = "manifest" => HasKey("L0") /\ HasKey("L1")
      BY <2>5, <3>2 DEF MakeInv, FilesInv, FileOK, ObjectOK, OwnKeys, Rules
    <3> QED
      BY <1>3, <2>2, <3>2, <3>3 DEF Made, Keyed
  <2> QED
    BY <1>1, <2>3, <2>4, <2>5, ToolRan
<1> QED
  BY <1>2, <1>3

\* cat puts the two together.
LEMMA CatStep == ASSUME MakeInv, NEW p \in Parts, cat(p) PROVE MakeInv'
<1>1. "signed" \in Rules /\ IsAt(p, "signed")
  BY DEF cat, Due, Rules
<1>2. CASE file[p]["object"].there /\ file[p]["signature"].there
  <2>1. PICK x : x = [object |-> file[p]["object"].holds,
                      signature |-> file[p]["signature"].holds]
    OBVIOUS
  <2>2. PICK save \in Saves(file[p]["signed"], x) : Ran(p, "signed", save, ~save.fault)
    BY <1>2, <2>1 DEF cat
  <2>3. FileOK(p, "signed", {x})
    <3>1. /\ ObjectOK(p, file[p]["object"].holds) /\ SignatureOK(file[p]["signature"].holds)
      BY DEF MakeInv, FilesInv, FileOK, Rules
    <3>2. /\ x = [object |-> x.object, signature |-> x.signature]
          /\ x.object = file[p]["object"].holds /\ x.signature = file[p]["signature"].holds
      BY <2>1
    <3>3. ObjectOK(p, x.object) /\ SignatureOK(x.signature)
      BY <3>1, <3>2
    <3> QED
      BY <3>2, <3>3 DEF FileOK, SignedOK, Single
  <2>4. ASSUME ~unnoticed, ~rekeyed
        PROVE  x = Made(p, "signed") /\ Keyed(p)
    <3>1. <<p, "object">> \in done /\ <<p, "signature">> \in done
      BY <1>1, <2>4 DEF MakeInv, ProgressInv, IsAt
    <3>2. /\ file[p]["object"].holds = {Object(p)}
          /\ file[p]["signature"].holds = {SignatureOf(p, Object(p))} /\ Keyed(p)
      BY <2>4, <3>1 DEF MakeInv, DoneInv, Made, Rules
    <3> QED
      BY <2>1, <3>2 DEF Made, UpToDate
  <2> QED
    BY <1>1, <2>2, <2>3, <2>4, ToolRan
<1>3. CASE ~(file[p]["object"].there /\ file[p]["signature"].there)
  <2>1. PICK save : /\ save = [file |-> NoData, noticed |-> TRUE, fault |-> FALSE,
                               touched |-> TRUE]
                    /\ Ran(p, "signed", save, FALSE)
    BY <1>3 DEF cat
  <2>2. save.fault = FALSE /\ save.file.holds = {}
    BY <2>1 DEF NoData
  <2>3. save.fault \in BOOLEAN
    BY <2>2, Zenon
  <2> QED
    BY <1>1, <2>1, <2>2, <2>3, ToolFailed
<1> QED
  BY <1>2, <1>3

-----------------------------------------------------------------------------
(* The other steps *)

\* A rule that finds its file up to date.
LEMMA SkipStep ==
  ASSUME MakeInv, NEW p \in Parts, NEW r \in Rules, Skip(p, r)
  PROVE  MakeInv'
<1>1. /\ make = "running" /\ make' = make /\ at[p] = r /\ <<p, r>> \in done
      /\ at' = [at EXCEPT ![p] = NextRule(r)] /\ done' = done /\ file' = file
      /\ key' = key /\ keys' = keys /\ bin' = bin
      /\ unnoticed' = unnoticed /\ rekeyed' = rekeyed
  BY DEF Skip, IsAt, flags
<1>2. NextRule(r) \in Rules \cup {"end"}
  BY DEF NextRule, Rules
<1>3. BuildTypeOK'
  BY <1>1, <1>2 DEF MakeInv, BuildTypeOK
<1>4. KeysStay
  BY <1>1 DEF KeysStay, MakeInv, BuildTypeOK
<1>5. FilesInv'
  BY <1>1, <1>4, FilesStay DEF MakeInv
<1>6. DoneInv'
  BY <1>1 DEF MakeInv, DoneInv, Made, Keyed, HasKey, Object, SignatureOf, UpToDate
<1>7. PackageInv'
  BY <1>1 DEF PackageInv
<1>8. ProgressInv'
  <2> SUFFICES ASSUME ~unnoticed', NEW q \in Parts
               PROVE  /\ at'[q] # "object" => <<q, "object">> \in done'
                      /\ at'[q] \in {"signed", "end"} => <<q, "signature">> \in done'
                      /\ at'[q] = "end" => <<q, "signed">> \in done'
    BY <1>1 DEF ProgressInv
  <2>1. /\ at[q] # "object" => <<q, "object">> \in done
        /\ at[q] \in {"signed", "end"} => <<q, "signature">> \in done
        /\ at[q] = "end" => <<q, "signed">> \in done
    BY <1>1 DEF MakeInv, ProgressInv
  <2>2. CASE q = p
    BY <1>1, <2>1, <2>2 DEF MakeInv, BuildTypeOK, NextRule, Rules
  <2>3. CASE q # p
    BY <1>1, <2>1, <2>3 DEF MakeInv, BuildTypeOK
  <2> QED
    BY <2>2, <2>3
<1> QED
  BY <1>3, <1>5, <1>6, <1>7, <1>8 DEF MakeInv

\* A key that comes is one that was missing.
LEMMA KeyStep ==
  ASSUME MakeInv, NEW p \in Parts, OpenKey(p) \/ WriteKey(p)
  PROVE  MakeInv'
<1>1. /\ make' = make /\ at' = at /\ done' = done /\ file' = file /\ bin' = bin
      /\ unnoticed' = unnoticed /\ rekeyed' = rekeyed /\ package' = package
  BY DEF OpenKey, WriteKey, flags
<1>2. /\ key' \in [Parts -> Int] /\ keys' \in [Parts -> Nat] /\ ~HasKey(p)
      /\ \A q \in Parts : q # p => key'[q] = key[q]
  <2>1. CASE OpenKey(p)
    BY <2>1, BoundsAssumption DEF OpenKey, NoKey, NoBytes, HasKey, MakeInv, BuildTypeOK
  <2>2. CASE WriteKey(p)
    BY <2>2, BoundsAssumption DEF WriteKey, NoBytes, HasKey, MakeInv, BuildTypeOK
  <2> QED
    BY <2>1, <2>2
<1>3. BuildTypeOK'
  BY <1>1, <1>2 DEF MakeInv, BuildTypeOK
<1>4. KeysStay
  BY <1>1, <1>2 DEF KeysStay, MakeInv, BuildTypeOK
<1>5. FilesInv'
  BY <1>1, <1>4, FilesStay DEF MakeInv
<1>6. DoneInv'
  <2> SUFFICES ASSUME ~unnoticed', ~rekeyed', NEW q \in Parts, NEW s \in Rules,
                      <<q, s>> \in done'
               PROVE  file'[q][s].holds = {Made(q, s)'} /\ (s # "object" => Keyed(q)')
    BY DEF DoneInv
  <2> QED
    BY <1>1, <1>4, DoneStays DEF MakeInv
<1>7. PackageInv'
  <2>1. make' # "success"
    BY <1>1, <1>2 DEF MakeInv, PackageInv
  <2> QED
    BY <2>1 DEF PackageInv
<1>8. ProgressInv'
  BY <1>1 DEF MakeInv, ProgressInv
<1> QED
  BY <1>3, <1>5, <1>6, <1>7, <1>8 DEF MakeInv

\* ninja begins.
LEMMA NinjaStep == ASSUME MakeInv, RunNinja PROVE MakeInv'
<1>1. /\ make' = "running" /\ at' = [p \in Parts |-> "object"]
      /\ done' = done \ ({"manifest"} \X Rules) /\ file' = file /\ key' = key
      /\ keys' = keys /\ bin' = bin /\ unnoticed' = unnoticed /\ rekeyed' = rekeyed
  BY DEF RunNinja, flags
<1>2. "object" \in Rules
  BY DEF Rules
<1>3. BuildTypeOK'
  BY <1>1, <1>2 DEF MakeInv, BuildTypeOK
<1>4. KeysStay
  BY <1>1 DEF KeysStay, MakeInv, BuildTypeOK
<1>5. FilesInv'
  BY <1>1, <1>4, FilesStay DEF MakeInv
<1>6. DoneInv'
  BY <1>1 DEF MakeInv, DoneInv, Made, Keyed, HasKey, Object, SignatureOf, UpToDate
<1>7. PackageInv'
  BY <1>1 DEF PackageInv
<1>8. ProgressInv'
  BY <1>1 DEF ProgressInv
<1> QED
  BY <1>3, <1>5, <1>6, <1>7, <1>8 DEF MakeInv

\* The package is made, after all rules.
LEMMA PackageStep == ASSUME MakeInv, MakePackage PROVE MakeInv'
<1>1. /\ make = "running" /\ make' = "success" /\ at' = at /\ done' = done /\ file' = file
      /\ key' = key /\ keys' = keys /\ bin' = bin
      /\ unnoticed' = unnoticed /\ rekeyed' = rekeyed
      /\ \A p \in Parts : at[p] = "end" /\ HasKey(p) /\ package'[p] = file[p].signed
  BY DEF MakePackage, flags
<1>2. BuildTypeOK'
  BY <1>1 DEF MakeInv, BuildTypeOK
<1>3. KeysStay
  BY <1>1 DEF KeysStay, MakeInv, BuildTypeOK
<1>4. FilesInv'
  BY <1>1, <1>3, FilesStay DEF MakeInv
<1>5. DoneInv'
  BY <1>1 DEF MakeInv, DoneInv, Made, Keyed, HasKey, Object, SignatureOf, UpToDate
<1>6. PackageInv'
  BY <1>1 DEF PackageInv, HasKey
<1>7. ProgressInv'
  BY <1>1 DEF MakeInv, ProgressInv
<1> QED
  BY <1>2, <1>4, <1>5, <1>6, <1>7 DEF MakeInv

\* A source file changes, and the binary with it.
LEMMA EditStep == ASSUME MakeInv, NEW p \in Changing, Edit(p) PROVE MakeInv'
<1>1. /\ make' = "none" /\ done' = done \ ({p} \X Rules) /\ file' = file
      /\ key' = key /\ keys' = keys /\ bin' = [bin EXCEPT ![p] = @ + 1]
      /\ at' = at /\ unnoticed' = unnoticed /\ rekeyed' = rekeyed
  BY DEF Edit, flags, From
<1>2. p \in Images /\ p \in Parts
  BY BoundsAssumption DEF Images, Parts
<1>3. BuildTypeOK'
  BY <1>1, <1>2 DEF MakeInv, BuildTypeOK
<1>4. KeysStay
  BY <1>1 DEF KeysStay, MakeInv, BuildTypeOK
<1>5. FilesInv'
  BY <1>1, <1>4, FilesStay DEF MakeInv
<1>6. DoneInv'
  <2> SUFFICES ASSUME ~unnoticed', ~rekeyed', NEW q \in Parts, NEW s \in Rules,
                      <<q, s>> \in done'
               PROVE  file'[q][s].holds = {Made(q, s)'} /\ (s # "object" => Keyed(q)')
    BY DEF DoneInv
  <2>1. <<q, s>> \in done /\ q # p
    BY <1>1
  <2>2. q \in Images => bin'[q] = bin[q]
    BY <1>1, <2>1 DEF MakeInv, BuildTypeOK
  <2> QED
    BY <1>1, <1>4, <2>1, <2>2, DoneStays DEF MakeInv
<1>7. PackageInv' /\ ProgressInv'
  BY <1>1 DEF PackageInv, ProgressInv
<1> QED
  BY <1>3, <1>5, <1>6, <1>7 DEF MakeInv

\* A key file is removed.
LEMMA NewKeyStep == ASSUME MakeInv, NEW p \in Changing, NewKey(p) PROVE MakeInv'
<1>1. /\ make' = "none" /\ done' = done /\ file' = file /\ at' = at /\ bin' = bin
      /\ key' = [key EXCEPT ![p] = NoKey] /\ keys' = keys
      /\ unnoticed' = unnoticed
  BY DEF NewKey
<1>2. rekeyed' /\ rekeyed' \in BOOLEAN
  BY Zenon DEF NewKey
<1>3. BuildTypeOK'
  <2>1. NoKey \in Int
    BY DEF NoKey
  <2>2. key' \in [Parts -> Int]
    BY <1>1, <2>1 DEF MakeInv, BuildTypeOK
  <2>3. rekeyed' \in BOOLEAN
    BY <1>2
  <2> QED
    BY <1>1, <2>2, <2>3 DEF MakeInv, BuildTypeOK
<1>4. KeysStay
  BY <1>2 DEF KeysStay, MakeInv, BuildTypeOK
<1>5. FilesInv'
  BY <1>1, <1>4, FilesStay DEF MakeInv
<1>6. DoneInv' /\ PackageInv' /\ ProgressInv'
  BY <1>1, <1>2 DEF MakeInv, DoneInv, PackageInv, ProgressInv
<1> QED
  BY <1>3, <1>5, <1>6 DEF MakeInv

\* An empty build directory.
LEMMA EmptyStep ==
  ASSUME file' = NoFiles, done' = {}, make' = "none",
         unnoticed' = FALSE, rekeyed' = FALSE,
         key' \in [Parts -> Int], keys' \in [Parts -> Nat], bin' \in [Images -> Nat],
         at' \in [Parts -> Rules \cup {"end"}]
  PROVE  MakeInv'
<1>1. BuildTypeOK'
  <2>1. file' = [p \in Parts |-> [r \in Rules |-> file'[p][r]]]
    BY DEF NoFiles
  <2>2. unnoticed' \in BOOLEAN /\ rekeyed' \in BOOLEAN
    BY Zenon
  <2> QED
    BY <2>1, <2>2 DEF BuildTypeOK
<1>2. FilesInv'
  BY FilesGone
<1>3. DoneInv' /\ PackageInv' /\ ProgressInv'
  BY DEF DoneInv, PackageInv, ProgressInv
<1> QED
  BY <1>1, <1>2, <1>3 DEF MakeInv

\* The build, whatever is run, edited, removed or has failed.
LEMMA MakeStep == ASSUME MakeInv, [BuildNext]_buildVars PROVE MakeInv'
<1>1. CASE Clean
  BY <1>1, EmptyStep DEF Clean, MakeInv, BuildTypeOK
<1>2. CASE Deliver
  <2>1. /\ file' = NoFiles /\ done' = {} /\ make' = "none"
        /\ unnoticed' = FALSE /\ rekeyed' = FALSE
    BY <1>2 DEF Deliver
  <2>2. /\ key' = [p \in Parts |-> NoKey] /\ keys' = [p \in Parts |-> 0]
        /\ bin' = [p \in Images |-> 1] /\ at' = [p \in Parts |-> "object"]
    BY <1>2 DEF Deliver
  <2>3. /\ key' \in [Parts -> Int] /\ keys' \in [Parts -> Nat] /\ bin' \in [Images -> Nat]
        /\ at' \in [Parts -> Rules \cup {"end"}]
    BY <2>2 DEF NoKey, Rules
  <2> QED
    BY <2>1, <2>3, EmptyStep
<1>3. CASE UNCHANGED workspace
  <2>1. /\ make' = make /\ at' = at /\ done' = done /\ file' = file /\ bin' = bin
        /\ key' = key /\ keys' = keys
        /\ unnoticed' = unnoticed /\ rekeyed' = rekeyed /\ package' = package
    BY <1>3 DEF workspace, flags
  <2>2. KeysStay
    BY <2>1 DEF KeysStay, MakeInv, BuildTypeOK
  <2>3. FilesInv'
    BY <2>1, <2>2, FilesStay DEF MakeInv
  <2>4. DoneInv'
    BY <2>1 DEF MakeInv, DoneInv, Made, Keyed, HasKey, Object, SignatureOf, UpToDate
  <2>5. BuildTypeOK' /\ ProgressInv'
    BY <2>1 DEF MakeInv, BuildTypeOK, ProgressInv
  <2>6. PackageInv'
    BY <2>1 DEF MakeInv, PackageInv, HasKey
  <2> QED
    BY <2>3, <2>4, <2>5, <2>6 DEF MakeInv
<1> QED
  BY <1>1, <1>2, <1>3, HeaderStep, ManifestStep, SignStep, CatStep, SkipStep, KeyStep,
     NinjaStep, PackageStep, EditStep, NewKeyStep DEF BuildNext, buildVars

\* A fresh checkout.
LEMMA MakeInit == ASSUME BuildInit PROVE MakeInv
<1>1. BuildTypeOK
  <2>1. file = [p \in Parts |-> [r \in Rules |-> file[p][r]]]
    BY DEF BuildInit, NoFiles
  <2>2. unnoticed \in BOOLEAN /\ rekeyed \in BOOLEAN
    BY Zenon DEF BuildInit
  <2>3. /\ key = [p \in Parts |-> NoKey] /\ keys = [p \in Parts |-> 0]
        /\ bin = [p \in Images |-> 1] /\ at = [p \in Parts |-> "object"]
        /\ done = {} /\ make = "none"
    BY DEF BuildInit
  <2> QED
    BY <2>1, <2>2, <2>3 DEF BuildTypeOK, NoKey, Rules
<1>2. FilesInv
  <2> SUFFICES ASSUME NEW p \in Parts, NEW r \in Rules
               PROVE  FileOK(p, r, file[p][r].holds)
    BY DEF FilesInv
  <2>1. file[p][r].holds = {}
    BY DEF BuildInit, NoFiles, Missing
  <2> QED
    BY <2>1, EmptyOK
<1>3. DoneInv /\ PackageInv /\ ProgressInv
  BY DEF BuildInit, DoneInv, PackageInv, ProgressInv
<1> QED
  BY <1>1, <1>2, <1>3 DEF MakeInv

\* A build that succeeds is up to date (the property and what it is about are in
\* BuildTools), for any number of failed writes, and in every order of the tools.
THEOREM SuccessCurrent == BuildSpec => []SuccessIsCurrent
<1>1. BuildInit => MakeInv
  BY MakeInit
<1>2. MakeInv /\ [BuildNext]_buildVars => MakeInv'
  BY MakeStep
<1>3. MakeInv => SuccessIsCurrent
  <2> SUFFICES ASSUME MakeInv, make = "success", ~unnoticed, ~rekeyed, NEW p \in Parts
               PROVE  Current(p)
    BY DEF SuccessIsCurrent
  <2>1. <<p, "signed">> \in done
    BY DEF MakeInv, ProgressInv
  <2>2. file[p]["signed"].holds = {UpToDate(p)}
    BY <2>1 DEF MakeInv, DoneInv, Made, Rules
  <2>3. package[p] = file[p]["signed"]
    BY DEF MakeInv, PackageInv
  <2> QED
    BY <2>2, <2>3 DEF Current
<1> QED
  BY <1>1, <1>2, <1>3, PTL DEF BuildSpec

-----------------------------------------------------------------------------
(* What has been flashed *)

(* The manifest of a build is of the keys of now, whatever was replaced before it: its
   rules always run.  A write that fails unnoticed is what may leave an old one. *)
AllOwn(S) == \A o \in S : OwnKeys(o)
OwnObjects(S) == \A b \in S : AllOwn(b.object)

\* No rule of the manifest is done before its turn, so that none is skipped.
ManifestInv ==
  /\ make = "running" =>
       \A r \in Rules : at["manifest"] = r => <<"manifest", r>> \notin done
  /\ ~unnoticed =>
       /\ make = "running" /\ at["manifest"] # "object" =>
            AllOwn(file["manifest"]["object"].holds)
       /\ make = "running" /\ at["manifest"] = "end" =>
            OwnObjects(file["manifest"]["signed"].holds)
       /\ make = "success" => OwnObjects(package["manifest"].holds)

\* No key is taken away.
KeysKept == \A q \in Parts : HasKey(q) => key'[q] = key[q]

\* Then the objects made of them stay what they are.
LEMMA OwnStays ==
  ASSUME KeysKept, NEW S
  PROVE  /\ AllOwn(S) => AllOwn(S)'
         /\ OwnObjects(S) => OwnObjects(S)'
<1>1. ASSUME NEW o, OwnKeys(o) PROVE OwnKeys(o)'
  BY <1>1 DEF OwnKeys, HasKey, Object, KeysKept, Parts, Images
<1> QED
  BY <1>1 DEF AllOwn, OwnObjects

\* A step that has nothing to do with the manifest.
LEMMA ManifestRests ==
  ASSUME ManifestInv, KeysKept, make' \in {make, "failed"}, ~unnoticed' => ~unnoticed,
         at'["manifest"] = at["manifest"], package' = package,
         \A r \in Rules : /\ file'["manifest"][r] = file["manifest"][r]
                          /\ <<"manifest", r>> \in done' => <<"manifest", r>> \in done
  PROVE  ManifestInv'
<1>1. PICK S, T, U : /\ S = file["manifest"]["object"].holds
                     /\ T = file["manifest"]["signed"].holds
                     /\ U = package["manifest"].holds
  OBVIOUS
<1>2. /\ S = file'["manifest"]["object"].holds /\ T = file'["manifest"]["signed"].holds
      /\ U = package'["manifest"].holds
  BY <1>1 DEF Rules
<1>3. make' = "running" =>
        \A r \in Rules : at'["manifest"] = r => <<"manifest", r>> \notin done'
  BY DEF ManifestInv
<1>4. ASSUME ~unnoticed'
      PROVE  /\ make' = "running" /\ at'["manifest"] # "object" => AllOwn(S)'
             /\ make' = "running" /\ at'["manifest"] = "end" => OwnObjects(T)'
             /\ make' = "success" => OwnObjects(U)'
  BY <1>1, <1>4, OwnStays DEF ManifestInv
<1> QED
  BY <1>2, <1>3, <1>4 DEF ManifestInv

\* A rule of an image.
LEMMA ImageRan ==
  ASSUME MakeInv, ManifestInv, NEW p \in Images, NEW r \in Rules, NEW save,
         NEW success \in BOOLEAN, Ran(p, r, save, success)
  PROVE  ManifestInv'
<1>1. p \in Parts /\ p # "manifest" /\ "manifest" \in Parts
  BY DEF Images, Parts
<1>2. \A s \in Rules : file'["manifest"][s] = file["manifest"][s]
  BY <1>1, RanFile DEF MakeInv
<1>3. /\ key' = key /\ package' = package /\ make' \in {make, "failed"}
      /\ ~unnoticed' => ~unnoticed
  BY DEF Ran
<1>4. at'["manifest"] = at["manifest"]
  BY <1>1 DEF Ran, MakeInv, BuildTypeOK
<1>5. \A s \in Rules : <<"manifest", s>> \in done' => <<"manifest", s>> \in done
  BY <1>1 DEF Ran
<1> QED
  BY <1>2, <1>3, <1>4, <1>5, ManifestRests DEF KeysKept

\* A rule of the manifest.
LEMMA ManifestRan ==
  ASSUME MakeInv, ManifestInv, NEW r \in Rules, NEW save, NEW success \in BOOLEAN,
         Ran("manifest", r, save, success), IsAt("manifest", r),
         success /\ ~save.fault /\ ~unnoticed =>
           /\ r = "object" => AllOwn(save.file.holds)
           /\ r = "signed" => OwnObjects(save.file.holds)
  PROVE  ManifestInv'
<1>1. "manifest" \in Parts
  BY DEF Parts
<1>2. \A s \in Rules :
        file'["manifest"][s] = IF s = r THEN save.file ELSE file["manifest"][s]
  <2>1. PICK p : p = "manifest" /\ Ran(p, r, save, success)
    OBVIOUS
  <2>2. BuildTypeOK /\ p \in Parts
    BY <1>1, <2>1 DEF MakeInv
  <2>3. \A q \in Parts, s \in Rules :
          file'[q][s] = IF q = p /\ s = r THEN save.file ELSE file[q][s]
    BY <2>1, <2>2, RanFile
  <2> QED
    BY <1>1, <2>1, <2>3
<1> SUFFICES ASSUME success PROVE ManifestInv'
  BY DEF Ran, ManifestInv
<1>3. /\ key' = key /\ make' = "running" /\ make = "running" /\ at["manifest"] = r
      /\ ~unnoticed' => ~unnoticed /\ ~save.fault
  BY DEF Ran, IsAt
<1>4. at'["manifest"] = NextRule(r)
  BY <1>1 DEF Ran, MakeInv, BuildTypeOK
<1>5. NextRule(r) \in Rules => <<"manifest", NextRule(r)>> \notin done'
  BY <1>1 DEF Ran, NextRule, From, Rules
<1>6. PICK S, T, U : /\ S = file["manifest"]["object"].holds
                     /\ T = file["manifest"]["signed"].holds /\ U = save.file.holds
  OBVIOUS
<1>7. KeysKept
  BY <1>3 DEF KeysKept
<1>8. ASSUME ~unnoticed'
      PROVE  /\ at'["manifest"] # "object" => AllOwn(file["manifest"]["object"].holds)'
             /\ at'["manifest"] = "end" => OwnObjects(file["manifest"]["signed"].holds)'
  <2>1. CASE r = "object"
    <3>1. AllOwn(U)'
      BY <1>3, <1>6, <1>7, <1>8, <2>1, OwnStays
    <3> QED
      BY <1>2, <1>4, <1>6, <2>1, <3>1 DEF NextRule, Rules
  <2>2. CASE r = "signature"
    <3>1. AllOwn(S)'
      BY <1>3, <1>6, <1>7, <1>8, <2>2, OwnStays DEF ManifestInv
    <3> QED
      BY <1>2, <1>4, <1>6, <2>2, <3>1 DEF NextRule, Rules
  <2>3. CASE r = "signed"
    <3>1. AllOwn(S)' /\ OwnObjects(U)'
      BY <1>3, <1>6, <1>7, <1>8, <2>3, OwnStays DEF ManifestInv
    <3> QED
      BY <1>2, <1>6, <2>3, <3>1 DEF Rules
  <2> QED
    BY <2>1, <2>2, <2>3 DEF Rules
<1> QED
  BY <1>3, <1>4, <1>5, <1>8 DEF ManifestInv

\* What the tools make of the manifest.
LEMMA ManifestTools ==
  ASSUME MakeInv, ManifestInv, keymanifesttool \/ signtool("manifest") \/ cat("manifest")
  PROVE  ManifestInv'
<1>1. "object" \in Rules /\ "signature" \in Rules /\ "signed" \in Rules
  BY DEF Rules
<1>2. ASSUME NEW r, NoInput("manifest", r) PROVE ManifestInv'
  BY <1>2 DEF NoInput, Ran, ManifestInv
<1>3. CASE keymanifesttool
  <2>1. CASE HasKey("L0") /\ HasKey("L1")
    <3>1. PICK x : x = Object("manifest")
      OBVIOUS
    <3>2. PICK f : f = file["manifest"]["object"]
      OBVIOUS
    <3>3. PICK save \in Saves(f, x) : Ran("manifest", "object", save, TRUE)
      BY <1>3, <2>1, <3>1, <3>2 DEF keymanifesttool
    <3>4. /\ save.fault \in BOOLEAN /\ save.noticed \in BOOLEAN
          /\ ~save.fault => save.file = Full(x) /\ save.touched = TRUE /\ ~save.noticed
          /\ save.file.holds \in {f.holds, {}, {x}}
      BY <3>3, OfSaves
    <3>5. ~save.fault => AllOwn(save.file.holds)
      BY <2>1, <3>1, <3>4 DEF AllOwn, OwnKeys, Full
    <3>6. IsAt("manifest", "object")
      BY <1>3 DEF keymanifesttool, Due
    <3> QED
      BY <1>1, <3>3, <3>5, <3>6, ManifestRan
  <2>2. CASE ~(HasKey("L0") /\ HasKey("L1"))
    BY <1>2, <1>3, <2>2 DEF keymanifesttool
  <2> QED
    BY <2>1, <2>2
<1>4. CASE signtool("manifest")
  <2>1. IsAt("manifest", "signature")
    BY <1>4 DEF signtool, Due
  <2>2. ASSUME NEW save, Ran("manifest", "signature", save, TRUE) PROVE ManifestInv'
    BY <1>1, <2>1, <2>2, ManifestRan
  <2> QED
    BY <1>2, <1>4, <2>2 DEF signtool
<1>5. CASE cat("manifest")
  <2>1. IsAt("manifest", "signed")
    BY <1>5 DEF cat, Due
  <2>2. ASSUME NEW save, Ran("manifest", "signed", save, FALSE) PROVE ManifestInv'
    BY <2>2 DEF Ran, ManifestInv
  <2>3. CASE file["manifest"]["object"].there /\ file["manifest"]["signature"].there
    <3>1. PICK x : x = [object |-> file["manifest"]["object"].holds,
                        signature |-> file["manifest"]["signature"].holds]
      OBVIOUS
    <3>2. PICK f : f = file["manifest"]["signed"]
      OBVIOUS
    <3>3. PICK save \in Saves(f, x) : Ran("manifest", "signed", save, ~save.fault)
      BY <1>5, <2>3, <3>1, <3>2 DEF cat
    <3>4. /\ save.fault \in BOOLEAN /\ save.noticed \in BOOLEAN
          /\ ~save.fault => save.file = Full(x) /\ save.touched = TRUE /\ ~save.noticed
          /\ save.file.holds \in {f.holds, {}, {x}}
      BY <3>3, OfSaves
    <3>5. ~unnoticed => AllOwn(x.object)
      BY <2>1, <3>1 DEF ManifestInv, IsAt
    <3>6. ~save.fault /\ ~unnoticed => OwnObjects(save.file.holds)
      BY <3>4, <3>5 DEF OwnObjects, Full
    <3>7. PICK success \in BOOLEAN :
            (success <=> ~save.fault) /\ Ran("manifest", "signed", save, success)
      BY <3>3, <3>4
    <3> QED
      BY <1>1, <2>1, <3>6, <3>7, ManifestRan
  <2>4. CASE ~(file["manifest"]["object"].there /\ file["manifest"]["signature"].there)
    BY <1>5, <2>2, <2>4 DEF cat
  <2> QED
    BY <2>3, <2>4
<1> QED
  BY <1>3, <1>4, <1>5

\* What they make of the images.
LEMMA ImageTools ==
  ASSUME MakeInv, ManifestInv, NEW p \in Images, headertool(p) \/ signtool(p) \/ cat(p)
  PROVE  ManifestInv'
<1>1. "object" \in Rules /\ "signature" \in Rules /\ "signed" \in Rules
  BY DEF Rules
<1>2. ASSUME NEW r \in Rules, NEW save, NEW success \in BOOLEAN, Ran(p, r, save, success)
      PROVE  ManifestInv'
  BY <1>2, ImageRan
<1>3. ASSUME NEW r \in Rules, NoInput(p, r) PROVE ManifestInv'
  BY <1>2, <1>3 DEF NoInput
<1>4. CASE headertool(p)
  <2>1. PICK save : Ran(p, "object", save, ~save.noticed)
    BY <1>4 DEF headertool
  <2> QED
    BY <1>1, <1>2, <2>1
<1>5. CASE signtool(p)
  BY <1>1, <1>2, <1>3, <1>5 DEF signtool
<1>6. CASE cat(p)
  <2>1. \/ \E save : Ran(p, "signed", save, ~save.fault)
        \/ \E save : Ran(p, "signed", save, FALSE)
    BY <1>6 DEF cat
  <2> QED
    BY <1>1, <1>2, <2>1
<1> QED
  BY <1>4, <1>5, <1>6

\* The build, whatever is run, edited, replaced or has failed.
LEMMA ManifestInvStep ==
  ASSUME MakeInv, ManifestInv, [BuildNext]_buildVars
  PROVE  ManifestInv'
<1>1. CASE make' = "none"
  BY <1>1 DEF ManifestInv
<1>2. CASE RunNinja
  BY <1>2 DEF RunNinja, ManifestInv, MakeInv, BuildTypeOK, Rules, Parts
<1>3. CASE MakePackage
  <2>1. PICK T : T = file["manifest"]["signed"].holds
    OBVIOUS
  <2>2. /\ T = package'["manifest"].holds /\ make' = "success"
        /\ key' = key /\ unnoticed' = unnoticed
    BY <1>3, <2>1 DEF MakePackage, Parts, flags
  <2>3. ~unnoticed => OwnObjects(T)
    BY <1>3, <2>1 DEF MakePackage, ManifestInv, Parts
  <2>4. ~unnoticed => OwnObjects(T)'
    BY <2>2, <2>3, OwnStays DEF KeysKept
  <2> QED
    BY <2>2, <2>4 DEF ManifestInv
<1>4. ASSUME NEW p \in Parts, NEW r \in Rules, Skip(p, r) PROVE ManifestInv'
  <2>1. /\ make' = make /\ file' = file /\ done' = done /\ key' = key
        /\ package' = package /\ unnoticed' = unnoticed
        /\ at' = [at EXCEPT ![p] = NextRule(r)]
    BY <1>4 DEF Skip, flags
  <2>2. p # "manifest"
    BY <1>4 DEF Skip, IsAt, ManifestInv
  <2>3. at'["manifest"] = at["manifest"]
    BY <2>1, <2>2 DEF MakeInv, BuildTypeOK, Parts
  <2> QED
    BY <2>1, <2>3, ManifestRests DEF KeysKept
<1>5. ASSUME NEW p \in Parts, OpenKey(p) \/ WriteKey(p) PROVE ManifestInv'
  <2>1. /\ make' = make /\ file' = file /\ done' = done /\ at' = at
        /\ package' = package /\ unnoticed' = unnoticed
    BY <1>5 DEF OpenKey, WriteKey, flags
  <2>2. ~HasKey(p) /\ \A q \in Parts : q # p => key'[q] = key[q]
    BY <1>5 DEF OpenKey, WriteKey, HasKey, NoKey, NoBytes, MakeInv, BuildTypeOK
  <2> QED
    BY <2>1, <2>2, ManifestRests DEF KeysKept
<1>6. CASE UNCHANGED workspace
  <2>1. /\ make' = make /\ file' = file /\ done' = done /\ at' = at /\ key' = key
        /\ package' = package /\ unnoticed' = unnoticed
    BY <1>6 DEF workspace, flags
  <2> QED
    BY <2>1, ManifestRests DEF KeysKept
<1>7. ASSUME NEW p \in Parts, signtool(p) \/ cat(p) PROVE ManifestInv'
  BY <1>7, ManifestTools, ImageTools DEF Parts
<1> QED
  BY <1>1, <1>2, <1>3, <1>4, <1>5, <1>6, <1>7, ManifestTools, ImageTools
  DEF BuildNext, buildVars, Clean, Deliver, Edit, NewKey
\* A part that verifies is the one of now: it can't be an old one, for the manifest
\* next to it has the keys of now.
LEMMA VerifiedIsCurrent ==
  ASSUME MakeInv, ManifestInv, make = "success", ~rekeyed \/ ~unnoticed,
         NEW p \in Parts, Verified(p)
  PROVE  Current(p)
<1>1. \A q \in Parts : SignedOK(q, package[q].holds)
  BY DEF MakeInv, PackageInv, FilesInv, FileOK, Rules
<1>2. "manifest" \in Parts
  BY DEF Parts
<1>3. PICK s \in package[p].holds, m \in package["manifest"].holds :
        \E o \in s.object, sig \in s.signature, ks \in m.object :
          /\ sig.of = o
          /\ p \in Images => o = <<bin[p]>> /\ sig.key = ks[IF p = "L0" THEN 1 ELSE 2]
          /\ p = "manifest" => sig.key = key[p]
  BY DEF Verified
<1>4. PICK o \in s.object, sig \in s.signature, ks \in m.object :
        /\ sig.of = o
        /\ p \in Images => o = <<bin[p]>> /\ sig.key = ks[IF p = "L0" THEN 1 ELSE 2]
        /\ p = "manifest" => sig.key = key[p]
  BY <1>3
<1>5. OwnObjects(package["manifest"].holds)
  <2>1. CASE rekeyed
    BY <2>1 DEF ManifestInv
  <2>2. CASE ~rekeyed
    <3> SUFFICES ASSUME NEW b \in package["manifest"].holds PROVE AllOwn(b.object)
      BY DEF OwnObjects
    <3>1. ObjectOK("manifest", b.object)
      BY <1>1, <1>2 DEF SignedOK
    <3> QED
      BY <2>2, <3>1 DEF ObjectOK, AllOwn
  <2> QED
    BY <2>1, <2>2
<1>6. /\ Single(package[p].holds) /\ s = [object |-> s.object, signature |-> s.signature]
      /\ ObjectOK(p, s.object) /\ SignatureOK(s.signature)
  BY <1>1 DEF SignedOK
<1>7. package[p].holds = {s} /\ s.object = {o} /\ s.signature = {sig}
  BY <1>6 DEF Single, ObjectOK, SignatureOK
<1>8. sig = [key |-> sig.key, of |-> o]
  BY <1>4, <1>6 DEF SignatureOK
<1>9. o = Object(p) /\ sig.key = key[p]
  <2>1. CASE p = "manifest"
    BY <1>4, <1>5, <2>1 DEF OwnObjects, AllOwn, OwnKeys
  <2>2. CASE p \in Images
    BY <1>4, <1>5, <2>2 DEF OwnObjects, AllOwn, OwnKeys, Object, Images
  <2> QED
    BY <2>1, <2>2 DEF Parts
<1>10. sig = SignatureOf(p, Object(p))
  BY <1>8, <1>9 DEF SignatureOf
<1>11. s = UpToDate(p)
  BY <1>6, <1>7, <1>9, <1>10 DEF UpToDate
<1> QED
  BY <1>7, <1>11 DEF Current

\* A package whose parts are signed with the right keys is the one of the last build.
DeliveredInv ==
  (/\ built # NotBuilt /\ (delivered.sameKeys \/ delivered.noticed)
   /\ built.keys = <<ManifestKey, L0Key, L1Key>>) => delivered.current

\* What is in flash has come with the last delivery.
LEMMA FlashedOnce ==
  [BuildNext]_buildVars => Deliver \/ UNCHANGED <<built, delivered>>
<1>1. (Damage \/ Authenticate) /\ UNCHANGED <<workspace, delivered>>
        => UNCHANGED <<built, delivered>>
  BY DEF Damage, Authenticate
<1> QED
  BY <1>1, StepsAlone DEF BuildNext, buildVars, auth

\* Nothing but the build names what was built.
LEMMA BuiltFirstStep == BuiltFirst /\ [Next]_vars => BuiltFirst'
  BY DEF BuiltFirst, Next, Build, BuildOf, Damage, Authenticate, vars, NotBuilt

\* What is delivered passed Verified where its keys are right, so it is of now.
LEMMA DeliveredStep ==
  ASSUME MakeInv, ManifestInv, DeliveredInv, [BuildNext]_buildVars
  PROVE  DeliveredInv'
<1>1. CASE Deliver
  <2>1. PICK l0, l1 \in ImageFiles, next \in Offsets, km \in Signer("manifest", ManifestKey),
             k0 \in Signer("L0", L0Key), k1 \in Signer("L1", L1Key) :
          BuildOf(l0, l1, next, km, k0, k1)
    BY <1>1 DEF Deliver
  <2>2. built'.keys = <<km, k0, k1>>
    BY <2>1 DEF BuildOf
  <2>3. /\ delivered'.current <=> \A p \in Parts : Current(p)
        /\ delivered'.sameKeys <=> ~rekeyed
        /\ delivered'.noticed <=> ~unnoticed
    BY <1>1 DEF Deliver
  <2> SUFFICES ASSUME ~rekeyed \/ ~unnoticed, km = ManifestKey, k0 = L0Key, k1 = L1Key
               PROVE  \A p \in Parts : Current(p)
    BY <2>2, <2>3 DEF DeliveredInv
  <2>4. \A p \in Parts : Verified(p)
    BY DEF Signer, Parts, Images
  <2> QED
    BY <1>1, <2>4, VerifiedIsCurrent DEF Deliver
<1>2. CASE UNCHANGED <<built, delivered>>
  BY <1>2 DEF DeliveredInv
<1> QED
  BY <1>1, <1>2, FlashedOnce

\* What AuthenticateFirmware accepts is up to date (AcceptedIsCurrent, in BuildTools),
\* unless somebody else has the owner's keys: it finds what comes out of a build that
\* went wrong unnoticed, or that goes on with a new key beside old signatures, but not
\* out of one of both kinds; and whatever was put into flash later.
THEOREM AcceptedCurrent ==
  ASSUME NoForgery
  PROVE  BuildSpec => []AcceptedIsCurrent
<1>1. BuildInit => MakeInv /\ ManifestInv /\ DeliveredInv /\ BuiltFirst
  BY MakeInit DEF BuildInit, Init, ManifestInv, DeliveredInv, BuiltFirst
<1>2. MakeInv /\ ManifestInv /\ DeliveredInv /\ [BuildNext]_buildVars =>
        MakeInv' /\ ManifestInv' /\ DeliveredInv'
  BY MakeStep, ManifestInvStep, DeliveredStep
<1>3. BuiltFirst /\ [BuildNext]_buildVars => BuiltFirst'
  BY BelowStep, BuiltFirstStep
<1>4. Spec => []SignedByTheOwner
  BY OnlyTheOwnersAccepted
<1>5. DeliveredInv /\ BuiltFirst /\ SignedByTheOwner => AcceptedIsCurrent
  BY DEF DeliveredInv, BuiltFirst, SignedByTheOwner, AcceptedIsCurrent
<1> QED
  BY <1>1, <1>2, <1>3, <1>4, <1>5, BuildsBelow, PTL DEF BuildSpec

\* A part that is the one of now verifies, for the manifest next to it is, too.
LEMMA CurrentIsVerified ==
  ASSUME \A p \in Parts : Current(p)
  PROVE  \A p \in Parts : Verified(p)
<1> SUFFICES ASSUME NEW p \in Parts PROVE Verified(p)
  OBVIOUS
<1>1. /\ package[p].holds = {UpToDate(p)}
      /\ package["manifest"].holds = {UpToDate("manifest")}
  BY DEF Current, Parts
<1>2. /\ UpToDate(p).object = {Object(p)}
      /\ UpToDate(p).signature = {SignatureOf(p, Object(p))}
      /\ UpToDate("manifest").object = {Object("manifest")}
  BY DEF UpToDate
<1>3. /\ SignatureOf(p, Object(p)).of = Object(p)
      /\ SignatureOf(p, Object(p)).key = key[p]
  BY DEF SignatureOf
<1>4. p \in Images => /\ Object(p) = <<bin[p]>>
                      /\ key[p] = Object("manifest")[IF p = "L0" THEN 1 ELSE 2]
  BY DEF Object, Images
<1>5. \E s \in package[p].holds, m \in package["manifest"].holds :
        \E o \in s.object, sig \in s.signature, ks \in m.object :
          /\ sig.of = o
          /\ p \in Images => o = <<bin[p]>> /\ sig.key = ks[IF p = "L0" THEN 1 ELSE 2]
          /\ p = "manifest" => sig.key = key[p]
  BY <1>1, <1>2, <1>3, <1>4
<1> QED
  BY <1>5 DEF Verified

\* What is up to date has been signed with the right keys.
CurrentInv ==
  /\ BuiltFirst
  /\ built # NotBuilt /\ delivered.current => built.keys = <<ManifestKey, L0Key, L1Key>>

\* What is delivered as current passed Verified, so its keys are right.
LEMMA CurrentStep ==
  ASSUME CurrentInv, [BuildNext]_buildVars
  PROVE  CurrentInv'
<1>1. CASE Deliver
  <2>1. PICK l0, l1 \in ImageFiles, next \in Offsets, km \in Signer("manifest", ManifestKey),
             k0 \in Signer("L0", L0Key), k1 \in Signer("L1", L1Key) :
          BuildOf(l0, l1, next, km, k0, k1)
    BY <1>1 DEF Deliver
  <2>2. built'.keys = <<km, k0, k1>> /\ built' # NotBuilt
    BY <2>1 DEF BuildOf, NotBuilt
  <2>3. delivered'.current <=> \A p \in Parts : Current(p)
    BY <1>1 DEF Deliver
  <2>4. ASSUME \A p \in Parts : Current(p)
        PROVE  km = ManifestKey /\ k0 = L0Key /\ k1 = L1Key
    <3>1. Verified("manifest") /\ Verified("L0") /\ Verified("L1")
      BY <2>4, CurrentIsVerified DEF Parts, Images
    <3> QED
      BY <3>1 DEF Signer
  <2> QED
    BY <2>2, <2>3, <2>4 DEF CurrentInv, BuiltFirst
<1>2. CASE ~Deliver
  <2>1. UNCHANGED <<built, delivered>>
    BY <1>2, FlashedOnce
  <2>2. BuiltFirst'
    BY BelowStep, BuiltFirstStep DEF CurrentInv
  <2> QED
    BY <2>1, <2>2 DEF CurrentInv
<1> QED
  BY <1>1, <1>2

\* What was up to date when it was flashed, in a layout that fits, is accepted as
\* long as nobody damages it: with SuccessIsCurrent, every package of a build that
\* succeeds in a build directory no failure went unnoticed in.
CurrentIsAccepted ==
  (/\ built # NotBuilt /\ delivered.current /\ damage = 0 /\ Fits(built)
   /\ status # "NONE") => status = "SUCCESS"

\* From the sources to AuthenticateFirmware: it, the tools, the rules that run them
\* and the flash agree on what a package is.
THEOREM CurrentAccepted == BuildSpec => []CurrentIsAccepted
<1>1. BuildInit => CurrentInv
  BY DEF BuildInit, Init, CurrentInv, BuiltFirst
<1>2. CurrentInv /\ [BuildNext]_buildVars => CurrentInv'
  BY CurrentStep
<1>3. CurrentInv /\ BuiltIsAccepted => CurrentIsAccepted
  BY DEF CurrentInv, BuiltIsAccepted, CurrentIsAccepted
<1> QED
  BY <1>1, <1>2, <1>3, BuildsAccepted, PTL DEF BuildSpec
=============================================================================
