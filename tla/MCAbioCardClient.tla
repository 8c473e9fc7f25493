-------------------------- MODULE MCAbioCardClient --------------------------
(***************************************************************************)
(* Instances of AbioCardClient: the thread of the tubes drives two of its   *)
(* pins, the consumer thread switches the power supply.                    *)
(***************************************************************************)
EXTENDS AbioCardClient, TLC

CONSTANTS tubes, consumer, data, clock, power

Bits(pins) == pins \X Bit

\* Both threads write, each a pin of its own.
MCThreads == {tubes, consumer}
MCTwoPins == {data, power}
MCTwoPinWrites == (tubes :> Bits({data})) @@ (consumer :> Bits({power}))

\* Only the thread of the tubes writes; the consumer may read.
MCPins == {data, clock, power}
MCOneWriterReads == (tubes :> Bits(MCPins)) @@ (consumer :> {})

=============================================================================
