---------------------------- MODULE ClientAddress ----------------------------
(***************************************************************************)
(* The client address of a request: the chain of X-Forwarded-For as the    *)
(* proxies write it, and the position client_ip.py reads, once per request *)
(* in ClientIPMiddleware.  The proxies are the operator's; how they write  *)
(* the header is modelled from what client_ip.py says of them.             *)
(***************************************************************************)
EXTENDS Policy

CONSTANTS
    Client,     \* the texts a client's own address is written as
    Proxy,      \* the proxies, by the REMOTE_ADDR a request from them has
    Forged,     \* the headers a client may send
    Address,    \* what normalize_ip makes of a text: an address or NoAddress
    NoAddress,
    MaxRelays   \* bound: proxies on the way of a request

ASSUME AddressAssumption ==
    Client \cup Proxy \subseteq DOMAIN Address /\ Forged \subseteq Seq(DOMAIN Address)

Unspecified == "0.0.0.0"

VARIABLES
    hops,       \* who sent the request on: the client, then the proxies
    forwarded,  \* the entries of X-Forwarded-For
    written,    \* how many of them, from the right, the proxies wrote
    ip,         \* request.bouncer_ip, NoAddress until the middleware ran
    shadowIp    \* request.bouncer_ip_shadow

requestVars == <<hops, forwarded, written, ip, shadowIp>>

NoRequest ==
    /\ hops = <<>> /\ forwarded = <<>> /\ written = 0
    /\ ip = NoAddress /\ shadowIp = NoAddress

(* REMOTE_ADDR of the hop `back` hops before the last one, as an address.   *)
Hop(back) == Address[hops[Len(hops) - back]]
Fallback == IF Hop(0) = NoAddress THEN Unspecified ELSE Hop(0)

(* Mutant: positions are counted from zero. *)
ResolveClientIpOffByOne(count) ==
    IF count = 0 \/ Len(forwarded) <= count THEN Fallback
    ELSE LET candidate == Address[forwarded[Len(forwarded) - count]]
         IN  IF candidate = NoAddress THEN Fallback ELSE candidate

(* resolve_client_ip: the entry `count` positions from the right, unless    *)
(* the chain is shorter or the entry is no address.                         *)
ResolveClientIp(count) ==
    IF count = 0 \/ Len(forwarded) < count THEN Fallback
    ELSE LET candidate == Address[forwarded[Len(forwarded) + 1 - count]]
         IN  IF candidate = NoAddress THEN Fallback ELSE candidate

-----------------------------------------------------------------------------
Send ==
    /\ hops = <<>>
    /\ \E client \in Client, header \in Forged :
           hops' = <<client>> /\ forwarded' = header
    /\ written' = 0
    /\ UNCHANGED <<ip, shadowIp>>

(* A proxy appends its peer to the header, or replaces the header by it.    *)
Relay ==
    /\ hops # <<>> /\ Len(hops) <= MaxRelays /\ ip = NoAddress
    /\ \E proxy \in Proxy : hops' = Append(hops, proxy)
    /\ \/ /\ forwarded' = Append(forwarded, Last(hops))
          /\ written' = written + 1
       \/ forwarded' = <<Last(hops)>> /\ written' = 1
    /\ UNCHANGED <<ip, shadowIp>>

ClientIPMiddleware ==
    /\ hops # <<>> /\ ip = NoAddress
    /\ ip' = ResolveClientIp(TrustedProxyCount)
    /\ shadowIp' = IF ShadowProxyCount > 0 THEN ResolveClientIp(ShadowProxyCount)
                   ELSE NoAddress
    /\ UNCHANGED <<hops, forwarded, written>>

Respond ==
    /\ ip # NoAddress
    /\ hops' = <<>> /\ forwarded' = <<>> /\ written' = 0
    /\ ip' = NoAddress /\ shadowIp' = NoAddress

-----------------------------------------------------------------------------
(* Properties *)

Hops == {Address[hops[i]] : i \in DOMAIN hops} \ {NoAddress}

(* "The right-most trusted position is used ... instead of accepting        *)
(* another header value" (resolve_client_ip): while no more proxies are     *)
(* counted than wrote the header, the address is the peer that many hops    *)
(* back, whatever the client put into the header and wherever a proxy       *)
(* dropped it; and where a hop has no address, nobody else's is taken.      *)
AddressIsAHop ==
    ip # NoAddress /\ TrustedProxyCount <= written =>
        /\ ip \in Hops \cup {Unspecified}
        /\ Hop(TrustedProxyCount) # NoAddress => ip = Hop(TrustedProxyCount)

=============================================================================
