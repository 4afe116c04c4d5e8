----------------------------- MODULE MCSessions -----------------------------
EXTENDS Sessions

Admin == [role |-> "admin", line |-> ""]
Seller == [role |-> "sales", line |-> ""]

MCGrants == {Admin, Seller}

Waits(r) == calls[r].at \in {"ready", "sent"}

AnyRequest == CHOOSE r \in Requests : TRUE

\* Nobody waits for Redis for ever, neither for the connection that all share nor
\* for an answer on it, also when Redis answers nobody.
EveryWaitEnds == Waits(AnyRequest) ~> ~Waits(AnyRequest)
=============================================================================
