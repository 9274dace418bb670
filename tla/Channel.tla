------------------------------ MODULE Channel ------------------------------
(***************************************************************************)
(* What read_message and write_message promise together: the messages that *)
(* were written are read, whole and in order, up to some point at which    *)
(* the connection ends.                                                    *)
(***************************************************************************)
EXTENDS SequencesExt

CONSTANT Message

VARIABLES written, received, ended

Init == written = <<>> /\ received = <<>> /\ ended = FALSE

Write(m) == written' = Append(written, m) /\ UNCHANGED <<received, ended>>

Read ==
  /\ ~ended
  /\ Len(received) < Len(written)
  /\ received' = Append(received, written[Len(received) + 1])
  /\ UNCHANGED <<written, ended>>

End == ~ended /\ ended' = TRUE /\ UNCHANGED <<written, received>>

Next == (\E m \in Message : Write(m)) \/ Read \/ End

ChannelSpec == Init /\ [][Next]_<<written, received, ended>>
=============================================================================
