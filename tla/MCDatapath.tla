------------------------------ MODULE MCDatapath ------------------------------
(***************************************************************************)
(* Instances of Datapath for TLC.                                          *)
(***************************************************************************)
EXTENDS Datapath, TLC

CONSTANTS h1, h2

\* Two paths to different next hops and one that does not fit.
ThreeEntries == {[hop |-> h1, pathLen |-> 8],
                 [hop |-> h2, pathLen |-> 256],
                 [hop |-> h2, pathLen |-> 257]}

\* Two next hops.
TwoEntries == {[hop |-> h1, pathLen |-> 8], [hop |-> h2, pathLen |-> 8]}

Complete == EthHdr + StripLen(5, 1, 2) + IpHdr

\* A complete frame with a valid MAC: one info field, two hop fields.
ValidFrame ==
    {[scion |-> TRUE, len |-> Complete, ihl |-> 5, numInf |-> 1, numHf |-> 2, curHf |-> 1,
      mac |-> ComputedMac]}

=============================================================================
