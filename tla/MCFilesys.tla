----------------------------- MODULE MCFilesys ------------------------------
(***************************************************************************)
(* A device of a few sectors of two cells each, and a scratch device with  *)
(* one file in an archive.                                                 *)
(***************************************************************************)
EXTENDS Filesys, TLC

MCArchive ==
    0 :> ustar_make_header("a", 3) @@ 1 :> [ZeroBlock EXCEPT !.cells = <<Byte(1), Byte(1)>>]
    @@ 2 :> [ZeroBlock EXCEPT !.cells = <<Byte(1), ZeroCell>>] @@ 3 :> ZeroBlock @@ 4 :> ZeroBlock

MCSymmetry == Permutations(Handles)
=============================================================================
