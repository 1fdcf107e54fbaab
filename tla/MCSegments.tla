---------------------------- MODULE MCSegments ----------------------------
\* Instance of Segments.  Two runs, of any two of the programs.
EXTENDS Segments
=============================================================================
