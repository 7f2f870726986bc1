---------------------------- MODULE MCModelPipeline ----------------------------
EXTENDS ModelPipeline, TLC

\* Nothing tells one artifact from another.
Symmetry == Permutations(File)
================================================================================
