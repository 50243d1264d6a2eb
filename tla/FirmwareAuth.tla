---------------------------- MODULE FirmwareAuth ----------------------------
(***************************************************************************)
(* A firmware package, key manifest + L0 + L1: how the build makes it      *)
(* (fw/keymanifesttool, fw/headertool, fw/signtool), and what              *)
(* AuthenticateFirmware (common/firmware_auth.c, common/image_auth.c)      *)
(* makes of it once it is in flash, where any of it may have been damaged  *)
(* or replaced.                                                            *)
(*                                                                         *)
(* The flash is a row of cells, the package at 0.  The header of an image  *)
(* fills two: what is signed, and the signature.  The hash of some cells   *)
(* is their contents, a signature is the key and what it has signed.       *)
(***************************************************************************)
EXTENDS Integers

CONSTANTS
  Slot,          \* GetFwSlotSize()
  ManifestSize,  \* KEY_MANIFEST_SIZE, of which key_manifest_t fills the first cell
  MaxFw,         \* L1_IMAGE_SIZE, which bounds any image
  Mem,           \* the end of the flash
  Width,         \* values of a size_t
  Keys, ManifestKey, L0Key, L1Key,
  Codes,         \* what a cell of an image may hold
  MaxFile,       \* bound: the largest image built
  Offsets,       \* bound: offsets of L1 given to headertool
  Strays,        \* bound: what may be put into a cell of flash instead
  MaxDamage      \* bound: how many cells are

HeaderSize == 2

ASSUME LayoutAssumption ==
  /\ Slot \in Nat /\ ManifestSize \in Nat \ {0} /\ MaxFw \in Nat
  /\ Mem \in Nat /\ Width \in Nat
  /\ HeaderSize <= Slot
  /\ ManifestSize + Slot + MaxFw <= Mem /\ Mem <= Width
ASSUME KeysAssumption == {ManifestKey, L0Key, L1Key} \subseteq Keys
ASSUME InputsAssumption == MaxFile \in Nat /\ Offsets \subseteq Nat /\ MaxDamage \in Nat

VARIABLES
  mem,     \* the flash
  built,   \* history: the package, or NotBuilt
  damage,  \* cells changed since
  status   \* the result of AuthenticateFirmware

vars == <<mem, built, damage, status>>

Address == 0 .. Mem - 1

Empty == [kind |-> "empty"]
Code(c) == [kind |-> "code", code |-> c]
Signature(k, o) == [kind |-> "signature", key |-> k, of |-> o]

\* The cells read as a header have sizes and offsets in them.
WellFormed(c) ==
  c.kind = "header" => c.fw_size \in Nat /\ c.next_image_offset \in Nat

ASSUME StraysAssumption == \A c \in Strays : WellFormed(c)

Hash(m, from, size) == [i \in 1 .. size |-> m[from + i - 1]]

-----------------------------------------------------------------------------
(* The build *)

\* image_header_build, in headertool.
HeaderOf(image, next) ==
  [kind |-> "header", fw_size |-> image.size,
   fw_hash |-> [i \in 1 .. image.size |-> Code(image.code)],
   next_image_offset |-> next]

\* generateKeyManifest takes the keys; signtool signs it, with any key it is given.
ManifestSignedBy(k) ==
  LET unsigned == [version |-> 0, l0_pub_key |-> L0Key, l1_pub_key |-> L1Key]
  IN [kind |-> "manifest", body |-> unsigned, signature |-> Signature(k, unsigned)]

\* Header, signature and code of an image at address a.
ImageAt(a, h, k, image, x) ==
  IF x = a THEN h ELSE IF x = a + 1 THEN Signature(k, h) ELSE Code(image.code)

Occupies(a, image) == a .. a + HeaderSize + image.size - 1

NotBuilt == [kind |-> "not built"]

\* The three signed parts, one after the other, in an empty flash; km, k0 and k1
\* have signed the manifest, L0's header and L1's.  Of an L0 that L1 overlaps (Fits
\* excludes it) the end stays behind L1, where truncate would cut it off.
BuildOf(l0, l1, next, km, k0, k1) ==
  LET a1 == ManifestSize + next IN
  /\ built' = [kind |-> "package", l0 |-> l0, l1 |-> l1, next |-> next,
               keys |-> <<km, k0, k1>>]
  /\ mem' = [x \in Address |->
       IF x \in Occupies(a1, l1)
         THEN ImageAt(a1, HeaderOf(l1, 0), k1, l1, x)
       ELSE IF x \in Occupies(ManifestSize, l0)
         THEN ImageAt(ManifestSize, HeaderOf(l0, next), k0, l0, x)
       ELSE IF x = 0 THEN ManifestSignedBy(km) ELSE Empty]

ImageFiles == [size : 1 .. MaxFile, code : Codes]

Build ==
  /\ built = NotBuilt
  /\ \E l0, l1 \in ImageFiles, next \in Offsets, km, k0, k1 \in Keys :
       BuildOf(l0, l1, next, km, k0, k1)
  /\ UNCHANGED <<damage, status>>

\* Anything may be found in flash instead of what was written there.
Damage ==
  /\ built # NotBuilt /\ status = "NONE" /\ damage < MaxDamage
  /\ \E x \in Address, c \in Strays : mem' = [mem EXCEPT ![x] = c]
  /\ damage' = damage + 1
  /\ UNCHANGED <<built, status>>

-----------------------------------------------------------------------------
(* VerifyImage and VerifyKeyManifest *)

\* Mutant: any signature will do.
NotVerified(sig, object, key) == sig.kind = "signature"

\* ED25519_Verify
Verifies(sig, object, key) == sig = Signature(key, object)

VerifyImage(m, a, key) ==
  LET h == m[a] IN
  IF h.kind # "header" THEN "ERROR_MAGIC"
  ELSE IF h.fw_size \notin 1 .. MaxFw THEN "ERROR_SIZE"
  ELSE IF Hash(m, a + HeaderSize, h.fw_size) # h.fw_hash THEN "ERROR_HASH"
  ELSE IF ~Verifies(m[a + 1], h, key) THEN "ERROR_SIGNATURE"
  ELSE "SUCCESS"

VerifyKeyManifest(m, key) ==
  IF m[0].kind # "manifest" \/ m[0].body.version # 0 THEN "ERROR_VERSION"
  ELSE IF ~Verifies(m[0].signature, m[0].body, key) THEN "ERROR_SIGNATURE"
  ELSE "SUCCESS"

-----------------------------------------------------------------------------
(* AuthenticateFirmware *)

\* IsSpaceEmpty reads on until it finds something, or the end of the flash.
IsSpaceEmpty(m, from, size) ==
  IF \E x \in from .. from + size - 1 : x < Mem /\ m[x] # Empty THEN "no"
  ELSE IF from + size > Mem THEN "fault" ELSE "yes"

ImageEnd(m, a) == a + HeaderSize + m[a].fw_size

L1Base(m) == ManifestSize + m[ManifestSize].next_image_offset

\* Mutant: L1 may not follow L0 at once.
LaterL1Offsets(m) ==
  HeaderSize + m[ManifestSize].fw_size + 1 .. Slot - HeaderSize

ValidL1Offsets(m) ==
  HeaderSize + m[ManifestSize].fw_size .. Slot - HeaderSize

\* Mutant: a size that can't be is taken for none.
NoGapAfterL1(m) ==
  IF ImageEnd(m, L1Base(m)) > Slot THEN 0 ELSE Slot - ImageEnd(m, L1Base(m))

\* l1_end_gap_size, a size_t.
GapAfterL1(m) == (Slot - ImageEnd(m, L1Base(m))) % Width

\* What AuthenticateFirmware makes of a gap between two images.
Gap(empty, error, otherwise) ==
  IF empty = "yes" THEN otherwise ELSE IF empty = "no" THEN error ELSE "FAULT"

CheckAfterL1(m) ==
  Gap(IsSpaceEmpty(m, ImageEnd(m, L1Base(m)), GapAfterL1(m)),
      "EXTRA_DATA_AFTER_L1", "SUCCESS")

\* Mutant: what VerifyImage says, a verify_status, is returned as it is.
StatusOfL1(m) ==
  LET status_of_l1 == VerifyImage(m, L1Base(m), m[0].body.l1_pub_key)
      l0_end == ImageEnd(m, ManifestSize)
  IN IF status_of_l1 # "SUCCESS" THEN status_of_l1
     ELSE Gap(IsSpaceEmpty(m, l0_end, L1Base(m) - l0_end),
              "EXTRA_DATA_L0_L1", CheckAfterL1(m))

CheckL1(m) ==
  LET l0_end == ImageEnd(m, ManifestSize) IN
  IF VerifyImage(m, L1Base(m), m[0].body.l1_pub_key) # "SUCCESS" THEN "INVALID_L1"
  ELSE Gap(IsSpaceEmpty(m, l0_end, L1Base(m) - l0_end),
           "EXTRA_DATA_L0_L1", CheckAfterL1(m))

CheckL0(m) ==
  IF VerifyImage(m, ManifestSize, m[0].body.l0_pub_key) # "SUCCESS" THEN "INVALID_L0"
  ELSE IF m[ManifestSize].next_image_offset \notin ValidL1Offsets(m)
    THEN "INVALID_L1_OFFSET"
  ELSE CheckL1(m)

AuthenticateFirmware(m) ==
  IF VerifyKeyManifest(m, ManifestKey) # "SUCCESS" THEN "INVALID_MANIFEST"
  ELSE Gap(IsSpaceEmpty(m, 1, ManifestSize - 1), "EXTRA_DATA_MANIFEST_L0", CheckL0(m))

Authenticate ==
  /\ built # NotBuilt /\ status = "NONE"
  /\ status' = AuthenticateFirmware(mem)
  /\ UNCHANGED <<mem, built, damage>>

Init ==
  /\ mem = [x \in Address |-> Empty]
  /\ built = NotBuilt /\ damage = 0 /\ status = "NONE"

Next == Build \/ Damage \/ Authenticate

Spec == Init /\ [][Next]_vars

-----------------------------------------------------------------------------
(* Properties *)

Statuses ==
  {"NONE", "FAULT", "SUCCESS", "INVALID_MANIFEST", "INVALID_L0", "INVALID_L1",
   "INVALID_L1_OFFSET", "EXTRA_DATA_MANIFEST_L0", "EXTRA_DATA_L0_L1",
   "EXTRA_DATA_AFTER_L1"}

TypeOK ==
  /\ DOMAIN mem = Address /\ \A x \in Address : WellFormed(mem[x])
  /\ damage \in 0 .. MaxDamage /\ status \in Statuses

\* An image of the given key lies at a: its header is signed with the key, and
\* the code behind it is the code the header was made for.
SignedImage(m, a, key) ==
  /\ m[a].kind = "header" /\ Verifies(m[a + 1], m[a], key)
  /\ m[a].fw_hash = Hash(m, a + HeaderSize, m[a].fw_size)

\* The slot holds a key manifest of the owner, one L0 and one L1 that its keys
\* have signed, side by side, and nothing else.
Authentic(m) ==
  LET l1 == L1Base(m) IN
  /\ m[0].kind = "manifest" /\ Verifies(m[0].signature, m[0].body, ManifestKey)
  /\ SignedImage(m, ManifestSize, m[0].body.l0_pub_key)
  /\ SignedImage(m, l1, m[0].body.l1_pub_key)
  /\ ImageEnd(m, ManifestSize) <= l1 /\ ImageEnd(m, l1) <= Slot
  /\ \A x \in 1 .. Slot - 1 :
       \/ x \in ManifestSize .. ImageEnd(m, ManifestSize) - 1
       \/ x \in l1 .. ImageEnd(m, l1) - 1
       \/ m[x] = Empty

\* AuthenticateFirmware accepts nothing but an authentic package, whatever sizes,
\* offsets and data are found in the slot: an L1 that runs out of it among them,
\* for which no comparison is made ("authenticates a package of Key manifest + L0 +
\* L1 images").  The host tests call it; no image does.
AcceptedIsAuthentic == status = "SUCCESS" => Authentic(mem)

\* What the tools build with the right keys, in a layout that fits, is accepted
\* as long as it is as it was written (the tests SuccessFullSpaceUsed and
\* SuccessHalfSpaceUsed, and L1OffsetRightAfterEndL0).
Fits(p) ==
  /\ p.l0.size <= MaxFw /\ p.l1.size <= MaxFw
  /\ p.next >= HeaderSize + p.l0.size
  /\ ManifestSize + p.next + HeaderSize + p.l1.size <= Slot
BuiltIsAccepted ==
  (/\ built # NotBuilt /\ damage = 0 /\ status # "NONE"
   /\ built.keys = <<ManifestKey, L0Key, L1Key>> /\ Fits(built))
    => status = "SUCCESS"

=============================================================================
