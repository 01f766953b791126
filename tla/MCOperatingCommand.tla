------------------------- MODULE MCOperatingCommand -------------------------
(* Two taps on the two switches of a compressor, for TLC.  Two requests fill   *)
(* the queue, so that a RUN and what it takes first may not fit together.      *)
EXTENDS OperatingCommand

\* The first values and the kind are missed, or one of the roles the page goes by.
\* A report brings a missed value later, and the kind then follows from the
\* variables, so a discovery that misses nothing is among these.
MCUnread ==
    {{<<"compressor", "EntityKind">>} \union ((Commands \union {"run_status"}) \X {"Value"})}
    \union {{<<v, "SemanticRole">>} : v \in Commands \union {"run_status"}}
=============================================================================
