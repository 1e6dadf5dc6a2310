------------------------------ MODULE MCResults ------------------------------
(* An instance of Results for TLC: every combination of options that makes  *)
(* a difference.  Streams do not ask for metadata in an array.              *)
EXTENDS Results

MCOptions ==
  {o \in [metaAsArray : BOOLEAN, stream : BOOLEAN, binary : BOOLEAN, eofDeprecated : BOOLEAN, permitLocalInfile : BOOLEAN] :
     o.stream => ~o.metaAsArray}
=============================================================================
