----------------------------- MODULE MCApiGate -----------------------------
(* Key settings and requests for TLC: one key of two roles, a key written  *)
(* with white space, bindings with holes, and limits on and off.           *)
EXTENDS ApiGate

CONSTANTS k1, k2, k3, t1, t2

\* The callers followed through the limiter: a key and an address.
MCKeys == {<<"api-key", k3>>, <<"ip", "host">>}

Bare(k) == <<k, "">>
Spaced(k) == <<k, " ">>
Binding(raw, tenant) == [raw |-> raw, tenant |-> tenant]

Setup(auth, reader, writer, admin, bindings, limited) ==
  [auth |-> auth, reader |-> reader, writer |-> writer, admin |-> admin,
   bindings |-> bindings, limited |-> limited]

MCSettings ==
  {Setup(TRUE, None, Spaced(k3), Bare(k3), {}, TRUE),
   Setup(TRUE, Bare(k1), Spaced(k2), None, {Binding(Spaced(k1), t1), Binding(Bare(k2), t2)}, FALSE),
   Setup(TRUE, Bare(k1), None, Spaced(k1), {}, FALSE),
   Setup(TRUE, Bare(k1), None, Bare(k2), {Binding(Bare(k1), t1), Binding(Bare(k2), t2)}, FALSE),
   Setup(TRUE, Spaced(k1), Bare(k2), Bare(k1), {Binding(Bare(k2), t2)}, FALSE),
   Setup(TRUE, Bare(k1), Bare(k2), None, {Binding(Bare(k1), t1)}, FALSE),
   Setup(TRUE, Bare(k1), None, None, {Binding(Bare(k1), t1), Binding(Spaced(k1), t2)}, FALSE),
   Setup(TRUE, Spaced(Blank), None, None, {}, FALSE),
   Setup(FALSE, Bare(k1), None, None, {}, FALSE),
   Setup(FALSE, Bare(k1), None, None, {Binding(Bare(k1), t1)}, FALSE)}

Named(names) == {r \in Routes : r.name \in names}
Path == [parent |-> "none", plain |-> TRUE, leaves |-> FALSE, inside |-> TRUE, csv |-> TRUE]
Away == [Path EXCEPT !.leaves = TRUE]

RequestsFor(routes, raws, host, tenants, foreign, paths) ==
  [route : Named(routes), raw : raws, host : {host}, tenant : tenants, foreign : foreign,
   index : paths, input : {Path}]

\* Few requests meet the limiter.
MCFollowed ==
  RequestsFor({"ready", "get_ingestion_job"}, {Spaced(k3)}, "host", {None}, {FALSE}, {Path})
    \cup RequestsFor({"query"}, {Spaced(Blank)}, "host", {None}, {FALSE}, {Path})

MCCalls ==
  RequestsFor({r.name : r \in Routes}, {None, Spaced(k1), Bare(k2), Bare(k3), Spaced(Blank)}, "lan",
              {None, t1, t2}, BOOLEAN, {Path, Away})
=============================================================================
