------------------------------ MODULE Discovery -----------------------------
(***************************************************************************)
(* internal/discovery: one watcher per configured backend endpoint         *)
(* resolves its host name every five seconds and reconciles the pool       *)
(* entries of its own source with the answer.                              *)
(***************************************************************************)
EXTENDS Pool

VARIABLE
  dns         \* the IPv4 A records of each source, as URLs

discoveryVars == <<dns>>

DiscoveryTypeOK ==
  /\ dns \in [Sources -> SUBSET URLs]
  /\ \A tag \in Sources : dns[tag] \subseteq SourceURLs(tag)

DiscoveryInit == dns \in [Sources -> SUBSET URLs] /\ DiscoveryTypeOK

\* Cloud Map adds or removes the record of one task (scaling, deployment).
DNSChange(u) ==
  LET tag == SourceOf[u]
  IN  /\ dns' = [dns EXCEPT ![tag] = IF u \in @ THEN @ \ {u} ELSE @ \cup {u}]
      /\ UNCHANGED poolVars

(***************************************************************************)
(* One tick of a watcher.  A failed lookup, or an answer without a usable  *)
(* address, leaves the pool alone: that tick is a stuttering step.  The    *)
(* time between the lookup and the reconciliation needs no step of its     *)
(* own: nothing else reads dns, so a late reconciliation is one that       *)
(* happens before the records change.                                      *)
(***************************************************************************)
syncDNS(tag) ==
  /\ dns[tag] # {}
  /\ SyncServersBySource(tag, dns[tag])
  /\ UNCHANGED dns

DiscoveryNext ==
  \/ \E u \in URLs : DNSChange(u)
  \/ \E tag \in Sources : syncDNS(tag)

=============================================================================
