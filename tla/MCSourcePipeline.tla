--------------------------- MODULE MCSourcePipeline ---------------------------
\* SourcePipeline on the small instances of the SourcePipeline*.cfg files.
EXTENDS SourcePipeline
=============================================================================
