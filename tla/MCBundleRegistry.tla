-------------------------- MODULE MCBundleRegistry --------------------------
(***************************************************************************)
(* An instance of BundleAlone: two sets of extensions, one of them with two *)
(* members, and two versions of the same extension in them.                 *)
(***************************************************************************)
EXTENDS BundleAlone, TLC

CONSTANTS p1, p2, sA, sB, x, y, z

ExtOf == x :> "e1" @@ y :> "e2" @@ z :> "e2"
MembersOfTwo == sA :> {x, y} @@ sB :> {z}
Sym == Permutations({p1, p2})
=============================================================================
