---------------------------- MODULE MCPackageLoad ----------------------------
(* A package with a file, an empty file and a subdirectory with a third; a   *)
(* second directory outside the package and a link to it.                    *)
EXTENDS PackageLoad

CONSTANTS top, sub, elsewhere, link, plain, empty, deep

MCTree == [b \in Directory \X Name |->
             CASE b = <<top, 1>> -> plain
               [] b = <<top, 2>> -> empty
               [] b = <<top, 3>> -> sub
               [] b = <<sub, 1>> -> deep
               [] b = <<elsewhere, 1>> -> deep
               [] OTHER -> None]
MCTarget == [l \in Link |-> elsewhere]
MCText == [x \in File |-> IF x = empty THEN << >> ELSE <<0, 0>>]
=============================================================================
