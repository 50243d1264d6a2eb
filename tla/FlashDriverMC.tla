---------------------------- MODULE FlashDriverMC ----------------------------
(* Two banks of one sector of two words; a bit per word, so that a word is    *)
(* blank or not; a write may cross from one bank into the other.              *)
EXTENDS FlashDriver

MCHardware ==
  {[misprograms |-> FALSE, dcache |-> FALSE, host |-> TRUE]} \cup
  [misprograms : BOOLEAN, dcache : BOOLEAN, host : {FALSE}]

=============================================================================
