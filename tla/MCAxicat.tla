------------------------------ MODULE MCAxicat ------------------------------
(***************************************************************************)
(* Instances of Axicat: what the application asks of the bus.              *)
(***************************************************************************)
EXTENDS Axicat

MCProbe     == [dir |-> "write", sc |-> 0, force |-> FALSE]
MCWrite     == [dir |-> "write", sc |-> 3, force |-> TRUE]
MCRead      == [dir |-> "read", sc |-> 2, force |-> FALSE]
MCCardWrite == [dir |-> "write", sc |-> 1, force |-> TRUE]
MCCardRead  == [dir |-> "read", sc |-> 2, force |-> TRUE]

\* Two kinds of application: one writes and reads, one also probes.
MCTwiRequests == [twi |-> {MCWrite, MCRead}, twi_probe |-> {MCProbe}]

=============================================================================
