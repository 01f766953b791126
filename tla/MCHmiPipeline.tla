--------------------------- MODULE MCHmiPipeline ---------------------------
(* The pipeline for TLC: a server that may restart with its variables        *)
(* shifted by one, one of them read-only.                                    *)
EXTENDS HmiPipeline

CONSTANTS n1, n2, n3

MCNodes == {n1, n2, n3, Plant}
MCSpaces == {<<n1, n2>>, <<n2, n3>>}
=============================================================================
