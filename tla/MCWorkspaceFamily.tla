-------------------------- MODULE MCWorkspaceFamily --------------------------
(***************************************************************************)
(* lib/package.mo, lib/sub/package.mo and lib/sub/x.mo: three nested        *)
(* candidates for a root.                                                   *)
(***************************************************************************)
EXTENDS WorkspaceFamily, TLC

CONSTANTS libPackage, subPackage, x, input, lib, sub, libRoot, subRoot, looseRoot, t1, t2

MCFilesOf == [k \in Roots |-> {}]
MCAncestors == libPackage :> <<lib>> @@ subPackage :> <<lib, sub>> @@ x :> <<lib, sub>>
               @@ input :> <<>>
MCPackageFile == lib :> libPackage @@ sub :> subPackage
MCRootOf == lib :> libRoot @@ sub :> subRoot
=============================================================================
