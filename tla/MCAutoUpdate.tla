---------------------------- MODULE MCAutoUpdate ----------------------------
(***************************************************************************)
(* Maintenance with three versions, two of which are the same one.         *)
(***************************************************************************)
EXTENDS Maintenance

MCVersions == {<<1, 0, 1>>, <<1, 1>>, <<1, 1, 0>>}
MCFirstVersion == <<1, 0, 1>>

=============================================================================
