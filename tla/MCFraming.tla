----------------------------- MODULE MCFraming -----------------------------
(* A short message, a longer one, and one that the reader refuses. *)
EXTENDS Framing

MCMessage == {"short", "long", "too long"}
MCPayloadSize == [m \in MCMessage |-> CASE m = "short" -> 1
                                        [] m = "long" -> 2
                                        [] m = "too long" -> 3]
=============================================================================
