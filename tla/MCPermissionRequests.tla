------------------------ MODULE MCPermissionRequests ------------------------
(***************************************************************************)
(* Small instances of PermissionRequests for TLC, with what the granted    *)
(* permissions open (GrantedAccess).                                       *)
(***************************************************************************)
EXTENDS GrantedAccess, TLC

Symmetry ==
    Permutations(Users) \cup Permutations(Requests) \cup Permutations(Sessions)
=============================================================================
