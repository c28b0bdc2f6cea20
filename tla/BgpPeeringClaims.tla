--------------------------- MODULE BgpPeeringClaims ---------------------------
(***************************************************************************)
(* What documents and messages say of peers, stated as properties that the *)
(* code does not have.                                                     *)
(***************************************************************************)
EXTENDS BgpPeering

\* "BGP Speaker ... is already configured to peer with a BGP Peer at ..., it
\* cannot peer with BGP Peer ..." (extensions/bgp.py:59): a speaker has one
\* peer at an address.  Two calls may both validate before either inserts.
OnePeerAtAnAddress ==
    \A p, q \in peerings : AddressOf[p] = AddressOf[q] => p = q

\* "If add peers into speaker which is running, Dragent will call driver to add
\* peer dynamically ... it will register a new neighbor based on your peer
\* configuration" (doc/source/admin/bgp-speaker.rst:146): a peer of a running
\* speaker gets a session in the end.  An agent that still has another peer at
\* that address in its cache, which is bound no more, keeps the session of that
\* one: associations and syncs compare addresses only.
AddedPeersGetSessions ==
    <>[](\A a \in hosts \cap cached, p \in peerings :
            \E c \in known[a] : c.peer = p)
=============================================================================
