------------------------------- MODULE HwRng -------------------------------
(***************************************************************************)
(* HW_RNG_Rand (common/arm/hw_rng.c): a buffer is filled with the numbers  *)
(* the RNG draws, four bytes each, the last one with what is left.  size   *)
(* is unsigned and its decrements wrap around.                             *)
(***************************************************************************)
EXTENDS Integers, Sequences

CONSTANTS
  Sizes,   \* the sizes asked for, all of them in 0 .. Width - 1
  Width    \* values of a size_t

VARIABLES
  asked,    \* the caller's size
  size,     \* the code's
  buffer,   \* the bytes stored so far: which byte of which draw
  draws,    \* numbers drawn
  ret       \* the result, or "none" yet

vars == <<asked, size, buffer, draws, ret>>

Init ==
  /\ asked \in Sizes /\ size = asked
  /\ buffer = <<>> /\ draws = 0 /\ ret = "none"

Bytes(ks) == [i \in 1 .. Len(ks) |-> <<draws, ks[i]>>]

\* HAL_RNG_GenerateRandomNumber answers HAL_OK in the while loop.
DrawWord ==
  /\ ret = "none" /\ size > 4
  /\ buffer' = buffer \o Bytes(<<0, 1, 2, 3>>)
  /\ size' = size - 4
  /\ draws' = draws + 1
  /\ UNCHANGED <<asked, ret>>

\* The bytes of the last word that pass their "if (size-- > 0)".
TailByte(left, k) == IF (left - k) % Width > 0 THEN <<k>> ELSE <<>>
TailBytes(left) == TailByte(left, 0) \o TailByte(left, 1) \o TailByte(left, 2) \o TailByte(left, 3)

DrawTail ==
  /\ ret = "none" /\ size \in 1 .. 4
  /\ buffer' = buffer \o Bytes(TailBytes(size))
  /\ size' = (size - 4) % Width
  /\ draws' = draws + 1
  /\ ret' = "ok"
  /\ UNCHANGED asked

Nothing ==
  /\ ret = "none" /\ size = 0
  /\ ret' = "ok"
  /\ UNCHANGED <<asked, size, buffer, draws>>

DrawFails ==
  /\ ret = "none" /\ size > 0
  /\ ret' = "failed"
  /\ UNCHANGED <<asked, size, buffer, draws>>

Next == DrawWord \/ DrawTail \/ Nothing \/ DrawFails

Spec == Init /\ [][Next]_vars

-----------------------------------------------------------------------------
(* Properties *)

\* Success means that exactly the caller's buffer is filled, each byte with a
\* random byte of its own, and nothing is ever stored behind it ("Fill buffer
\* with 'size' bytes of random numbers").
FillsTheBuffer ==
  /\ Len(buffer) <= asked
  /\ ret = "ok" => Len(buffer) = asked
  /\ \A i, j \in DOMAIN buffer : buffer[i] = buffer[j] => i = j

=============================================================================
