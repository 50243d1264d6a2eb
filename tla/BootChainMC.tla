---------------------------- MODULE BootChainMC ----------------------------
(* The builds for which TLC checks BootChain. *)
EXTENDS BootChain

Build(ignore, rss, current) ==
  [ignoreProtections |-> ignore, setRss |-> rss, scarCurrent |-> current]

\* Every combination of HW_IGNORE_PROTECTION_CHECKS, HW_SET_RSS_PROTECTIONS_AT_RUNTIME
\* and an EXPECTED_SCAR_CUR1 that agrees with the linker's.
MCBuilds == {Build(i, r, c) : i, r, c \in BOOLEAN}

\* A build that checks the protections and doesn't set them up.
MCProduction == {Build(FALSE, FALSE, TRUE)}

=============================================================================
