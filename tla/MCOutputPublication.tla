------------------------ MODULE MCOutputPublication ------------------------
(***************************************************************************)
(* Instances of OutputPublication for TLC.                                 *)
(***************************************************************************)
EXTENDS OutputPublication, TLC

(* Commands are interchangeable.                                           *)
RendererSymmetry == Permutations(Renderers)
=============================================================================
