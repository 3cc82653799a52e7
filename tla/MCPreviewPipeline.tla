-------------------------- MODULE MCPreviewPipeline --------------------------
\* Two GitRepositories that may name one repository, or two.
EXTENDS PreviewPipeline
CONSTANTS r1, r2, u1, u2
=============================================================================
