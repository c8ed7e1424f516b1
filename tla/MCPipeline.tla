----------------------------- MODULE MCPipeline -----------------------------
(* Small instances of Pipeline for TLC.                                    *)
EXTENDS Pipeline, TLC

\* The assets are interchangeable: no operator chooses one.
AssetSymmetry == Permutations(Assets)
=============================================================================
