-------------------------- MODULE MCPacketSession --------------------------
(* Small instances of PacketSession for TLC.                               *)
EXTENDS PacketSession

\* The client uploads two payloads.
UploadWrites == [e \in Side |-> IF e = "client" THEN 2 ELSE 0]

\* Each application writes one payload.
ExchangeWrites == [e \in Side |-> 1]
\* The client writes one payload, the server none.
UploadOne == [e \in Side |-> IF e = "client" THEN 1 ELSE 0]
=============================================================================
