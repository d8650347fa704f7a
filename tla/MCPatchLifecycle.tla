--------------------------- MODULE MCPatchLifecycle ---------------------------
(***************************************************************************)
(* Two patches, so that each may replace the other and be rolled back to,  *)
(* on four devices.                                                        *)
(***************************************************************************)
EXTENDS PatchLifecycle, TLC

CONSTANTS p1, p2

MCPatches == {p1, p2}

\* Every fault with an update, every fault fclose does not hide with more kills,
\* nothing but kills, and nothing at all.
MCSettings ==
    { [faults |-> {"disk", "flush"}, careful |-> FALSE, updates |-> 1, crashes |-> 1],
      [faults |-> {"disk"}, careful |-> FALSE, updates |-> 0, crashes |-> 1],
      [faults |-> {}, careful |-> FALSE, updates |-> 0, crashes |-> 3],
      [faults |-> {}, careful |-> TRUE, updates |-> 0, crashes |-> 0] }

\* A careful game and one update of the package.
UpdatedSettings ==
    { [faults |-> {}, careful |-> TRUE, updates |-> 1, crashes |-> 0] }
=============================================================================
