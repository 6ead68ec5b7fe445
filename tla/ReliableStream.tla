--------------------------- MODULE ReliableStream ---------------------------
(***************************************************************************)
(* What a session promises to the two applications that use it as a        *)
(* net.Conn: two independent FIFO streams.  Each side appends to its       *)
(* stream until it is closed; the other side reads the stream from the     *)
(* start, one element at a time, also after a close.  The elements are the *)
(* payloads of the numbered segments (0 for a control segment).            *)
(***************************************************************************)
EXTENDS Naturals, Sequences

CONSTANTS Side, Peer(_)

VARIABLES sent, received, closed

streamVars == <<sent, received, closed>>

Extends(old, new) ==
    /\ Len(old) <= Len(new)
    /\ \A i \in 1..Len(old) : new[i] = old[i]

Init ==
    /\ sent = [e \in Side |-> <<>>]
    /\ received = [e \in Side |-> <<>>]
    /\ closed = {}

OnlyGrows(e) ==
    /\ Extends(sent[e], sent'[e])
    /\ sent' = [sent EXCEPT ![e] = sent'[e]]

\* Elements are numbered on side e, by its application or by the protocol.
Extend(e) ==
    /\ e \notin closed
    /\ OnlyGrows(e)
    /\ UNCHANGED <<received, closed>>

\* The application on side e reads the next element of its peer's stream.
Deliver(e) ==
    /\ Len(received[e]) < Len(sent[Peer(e)])
    /\ received' = [received EXCEPT ![e] = Append(@, sent[Peer(e)][Len(@) + 1])]
    /\ UNCHANGED <<sent, closed>>

\* Side e stops writing; closing may number a last element.
Finish(e) ==
    /\ e \notin closed
    /\ closed' = closed \cup {e}
    /\ OnlyGrows(e)
    /\ UNCHANGED received

Next == \E e \in Side : Extend(e) \/ Deliver(e) \/ Finish(e)

Spec == Init /\ [][Next]_streamVars
=============================================================================
