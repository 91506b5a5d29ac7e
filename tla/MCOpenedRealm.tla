---------------------------- MODULE MCOpenedRealm ----------------------------
(***************************************************************************)
(* Keys that are empty, of the right length and one byte off it on either   *)
(* side, given directly, in a file, both ways or not at all.  Two Realms    *)
(* with the same object in both: a link to it in each, and in the one that  *)
(* is opened a field that cannot be decoded and a timestamp; two threads.   *)
(***************************************************************************)
EXTENDS OpenedRealm, TLC

CONSTANTS t1, t2, r1, r2, f, g, h, target

MCThreads == {t1, t2}
MCRealms == {r1, r2}
MCRealmOf == (f :> r1) @@ (g :> r2) @@ (h :> r2)

Moment == [seconds |-> 0, nanoseconds |-> -1]
MCTimestamps == {Moment}
MCRaws == { (f :> target) @@ (g :> target) @@ (h :> Unconvertible),
            (f :> target) @@ (h :> Moment) }

MCSymmetry == Permutations(MCThreads)
=============================================================================
