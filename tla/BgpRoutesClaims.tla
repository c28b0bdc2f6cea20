--------------------------- MODULE BgpRoutesClaims ---------------------------
(***************************************************************************)
(* What the documents say of routes and the code does not do.               *)
(***************************************************************************)
EXTENDS BgpRoutes

\* "the BGP speaker advertises self-service network prefixes" of routers "with
\* gateways on provider and self-service networks within the same address scope"
\* (bgp-speaker.rst:35-38): between two scopes a router translates addresses, and
\* a prefix of the one cannot be reached by way of the other.  The query looks
\* for the scope of a prefix among those of all networks of the speaker, and
\* the callbacks do not look for it.
ScopesKeptApart ==
    \A s \in Speakers : \A q \in announced[s] :
        q.destination \in Subnets =>
            ScopeOf[q.destination] = ScopeOf[q.next_hop.subnet]
=============================================================================
