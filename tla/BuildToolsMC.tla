--------------------------- MODULE BuildToolsMC -----------------------------
(* What TLC puts into the cells of FirmwareAuth's flash. *)
EXTENDS BuildTools

\* A header nobody has signed, of a size too small, right, largest and too large.
MCHeader(size) ==
  [kind |-> "header", fw_size |-> size, fw_hash |-> <<>>, next_image_offset |-> 3]

MCStrays == {Empty, Code("stray")} \cup {MCHeader(s) : s \in {0, 1, MaxFw, MaxFw + 1}}

=============================================================================
