---------------------------- MODULE WebhookDelivery ----------------------------
(***************************************************************************)
(* The deliveries of one webhook endpoint.  Every run that ends creates    *)
(* one; a message carries it to the workers until the destination accepts  *)
(* it, refuses it for good or was tried often enough.  An attempt holds    *)
(* the lock of its delivery while it posts.  Revoking the endpoint reads   *)
(* the pending deliveries and fails them when it commits, which waits for  *)
(* the locks of what it read.                                              *)
(***************************************************************************)
EXTENDS Integers, FiniteSets

CONSTANTS
  Posters,            \* workers
  Deliveries,         \* runs that end, each with the delivery it may create
  MaxAttempts,        \* MAX_ATTEMPTS
  MaxLosses,          \* workers lost, messages refused or given twice
  Free                \* a worker without a delivery

VARIABLES
  endpoint,     \* "on", "off" or "revoked"
  delivery,     \* the run of a delivery: "running", "noticed", "skipped", or the status of its delivery
  attempts,     \* delivery -> attempts counted
  carried,      \* delivery -> messages that carry it
  poster,       \* worker -> [of, code] or Free
  revoking,     \* the deliveries a revocation has read as pending, or Free
  losses,       \* faults so far
  posts,        \* history: delivery -> requests sent
  accepted,     \* history: deliveries whose acceptance was committed
  dropped,      \* history: deliveries whose message was refused
  late          \* history: deliveries created while the endpoint was being revoked, or after

webhookHistory == <<losses, posts, accepted, dropped, late>>
webhookVars == <<endpoint, delivery, attempts, carried, poster, revoking, webhookHistory>>

Codes == {"2xx", "4xx", "5xx", "timeout", "blocked"}
Posting(d) == \E w \in Posters : poster[w] # Free /\ poster[w].of = d

-----------------------------------------------------------------------------
(* enqueue_completed                                                       *)

\* A run is committed and the endpoints are read ...
RunEnds(d) ==
  /\ delivery[d] = "running"
  /\ delivery' = [delivery EXCEPT ![d] = IF endpoint = "on" THEN "noticed" ELSE "skipped"]
  /\ UNCHANGED <<endpoint, attempts, carried, poster, revoking, webhookHistory>>

\* ... and the delivery is committed before its message is sent, which may be refused.
Enqueue(d) ==
  /\ delivery[d] = "noticed"
  /\ delivery' = [delivery EXCEPT ![d] = "pending"]
  /\ late' = IF revoking # Free \/ endpoint = "revoked" THEN late \cup {d} ELSE late
  /\ \/ carried' = [carried EXCEPT ![d] = 1] /\ UNCHANGED <<losses, dropped>>
     \/ /\ losses < MaxLosses /\ losses' = losses + 1
        /\ dropped' = dropped \cup {d} /\ UNCHANGED carried
  /\ UNCHANGED <<endpoint, attempts, poster, revoking, posts, accepted>>

-----------------------------------------------------------------------------
(* attempt_delivery and deliver_webhook_task                               *)

\* Mutant of Attemptable: a failed delivery is attempted again.
AttemptableAgain(d) == delivery[d] \in {"pending", "failed", "delivered"}

\* The status read under the lock of the row.
Attemptable(d) == delivery[d] = "pending"

\* A message is taken: skipped, failed with an inactive endpoint, or posted.  A blocked destination is not.
Attempt(w, d) ==
  /\ poster[w] = Free /\ carried[d] > 0 /\ ~Posting(d)
  /\ carried' = [carried EXCEPT ![d] = @ - 1]
  /\ IF Attemptable(d) /\ endpoint = "on"
     THEN \E code \in Codes :
            /\ poster' = [poster EXCEPT ![w] = [of |-> d, code |-> code]]
            /\ posts' = IF code = "blocked" THEN posts ELSE [posts EXCEPT ![d] = @ + 1]
            /\ UNCHANGED delivery
     ELSE /\ delivery' = [delivery EXCEPT ![d] = IF Attemptable(d) THEN "failed" ELSE @]
          /\ UNCHANGED <<poster, posts>>
  /\ UNCHANGED <<endpoint, attempts, revoking, losses, accepted, dropped, late>>

\* What becomes of a delivery whose n-th attempt had this code.
Outcome(code, n) ==
  CASE code = "2xx" -> "delivered"
    [] code \in {"4xx", "blocked"} \/ n >= MaxAttempts -> "failed"
    [] OTHER -> "retry"

\* self.retry puts the message back; any other outcome ends it.
Carry(outcome) == IF outcome = "retry" THEN 1 ELSE 0

Answer(w) ==
  LET d == poster[w].of
      outcome == Outcome(poster[w].code, attempts[d] + 1) IN
  /\ poster[w] # Free
  /\ attempts' = [attempts EXCEPT ![d] = @ + 1]
  /\ delivery' = [delivery EXCEPT ![d] = IF outcome = "retry" THEN @ ELSE outcome]
  /\ carried' = [carried EXCEPT ![d] = @ + Carry(outcome)]
  /\ accepted' = IF outcome = "delivered" THEN accepted \cup {d} ELSE accepted
  /\ poster' = [poster EXCEPT ![w] = Free]
  /\ UNCHANGED <<endpoint, revoking, losses, posts, dropped, late>>

-----------------------------------------------------------------------------
(* The endpoint                                                            *)

\* update_endpoint.
Switch ==
  /\ endpoint # "revoked" /\ revoking = Free
  /\ endpoint' = IF endpoint = "on" THEN "off" ELSE "on"
  /\ UNCHANGED <<delivery, attempts, carried, poster, revoking, webhookHistory>>

\* revoke_endpoint reads the pending deliveries ...
RevokeReads ==
  /\ endpoint # "revoked" /\ revoking = Free
  /\ revoking' = {d \in Deliveries : delivery[d] = "pending"}
  /\ UNCHANGED <<endpoint, delivery, attempts, carried, poster, webhookHistory>>

RowsFree(ds) == \A d \in ds : ~Posting(d)

\* ... and writes over them, whatever they have become.
RevokeCommits ==
  /\ revoking # Free /\ RowsFree(revoking)
  /\ endpoint' = "revoked"
  /\ delivery' = [d \in Deliveries |-> IF d \in revoking THEN "failed" ELSE delivery[d]]
  /\ revoking' = Free
  /\ UNCHANGED <<attempts, carried, poster, webhookHistory>>

-----------------------------------------------------------------------------
(* Faults                                                                  *)

\* A worker is lost between its request and its commit: its message comes back.
PosterLost(w) ==
  /\ poster[w] # Free
  /\ losses < MaxLosses /\ losses' = losses + 1
  /\ carried' = [carried EXCEPT ![poster[w].of] = @ + 1]
  /\ poster' = [poster EXCEPT ![w] = Free]
  /\ UNCHANGED <<endpoint, delivery, attempts, revoking, posts, accepted, dropped, late>>

\* The broker gives a message twice.
Twice(d) ==
  /\ carried[d] > 0
  /\ losses < MaxLosses /\ losses' = losses + 1
  /\ carried' = [carried EXCEPT ![d] = @ + 1]
  /\ UNCHANGED <<endpoint, delivery, attempts, poster, revoking, posts, accepted, dropped, late>>

-----------------------------------------------------------------------------
WebhookInit ==
  /\ endpoint = "on"
  /\ delivery = [d \in Deliveries |-> "running"]
  /\ attempts = [d \in Deliveries |-> 0]
  /\ carried = attempts /\ posts = attempts
  /\ poster = [w \in Posters |-> Free]
  /\ revoking = Free /\ losses = 0
  /\ accepted = {} /\ dropped = {} /\ late = {}

Deliver(w) == Answer(w) \/ \E d \in Deliveries : Attempt(w, d)

WebhookNext ==
  \/ \E d \in Deliveries : RunEnds(d) \/ Enqueue(d) \/ Twice(d)
  \/ \E w \in Posters : Deliver(w) \/ PosterLost(w)
  \/ Switch \/ RevokeReads \/ RevokeCommits

\* Some worker keeps taking messages while any is there.
WebhookSpec == WebhookInit /\ [][WebhookNext]_webhookVars /\ WF_webhookVars(\E w \in Posters : Deliver(w))

-----------------------------------------------------------------------------
(* Properties                                                              *)

\* At least one attempt is made; the mark of a free worker is no attempt, and no set read.
WebhookAssumption ==
  /\ MaxAttempts \in Nat \ {0}
  /\ Free \notin [of : Deliveries, code : Codes]
  /\ \A ds \in SUBSET Deliveries : ds # Free

\* However answers, retries, repeated messages and lost workers are mixed, an endpoint is
\* sent a result MAX_ATTEMPTS times at most, and once more for each worker lost before it
\* could count (attempt_delivery commits the count after the request).
PostedWithinAttempts == \A d \in Deliveries : posts[d] <= MaxAttempts + losses

\* A result whose acceptance was recorded is never sent again, not even after a revocation
\* that wrote "failed" over it.
AcceptedOnce == [][\A d \in accepted : posts'[d] = posts[d]]_webhookVars

\* Once a revocation has committed, the only requests still under way are of deliveries it
\* could not see (revoke_endpoint, the locks of attempt_delivery).
RevokedIsQuiet == endpoint = "revoked" => \A d \in Deliveries \ late : ~Posting(d)

\* Every pending delivery ends, unless the broker refused its message (enqueue_completed
\* only logs that).
EveryDeliveryEnds == []<>(\A d \in Deliveries : delivery[d] = "pending" => d \in dropped)
=============================================================================
