------------------------------- MODULE Requests -------------------------------
(***************************************************************************)
(* Karakeep.addBookmark of src/karakeep and Pushover.notify of             *)
(* src/services/pushover.ts, called through withRetry of src/async: one    *)
(* caller, a server, and a network that loses requests and responses or    *)
(* delays them beyond the end of the call.                                 *)
(*                                                                         *)
(* Each operation is one POST with a deadline of its own, repeated by the  *)
(* client while the failure is transient and tries are left.  A POST whose *)
(* response is lost may have been served, and may still be served later.   *)
(***************************************************************************)
EXTENDS Naturals

CONSTANTS
    Times,        \* retryTransient: POSTs that repeat a first one
    MaxAttempts,  \* withRetry: calls, the first included
    Retryable     \* the failed operations that shouldRetry accepts

VARIABLES
    enabled,    \* layerConfig has found its credentials (and a token)
    call,       \* "add", "addTagged" or "notify"
    attempt,    \* calls begun
    stage,      \* the operation under way: "idle", "createBookmark",
                \* "attachTags", "notify", "backoff", or "done"
    posts,      \* POSTs of the operation so far
    wire,       \* its current POST: "none", "sent", or the status that the
                \* server has answered: "ok", "transient", "refused"
    reply,      \* the bookmark id in the server's answer
    id,         \* the bookmark id that createBookmark resolved
    outcome,    \* "none", "ok", the failed operation, "disabled",
                \* or "interrupted"
    strays,     \* strays[k]: given-up POSTs of kind k still on their way
    bookmarks,  \* the bookmarks on the server are 1..bookmarks
    tagged,     \* those with the tags
    delivered   \* the notification is

vars == <<enabled, call, attempt, stage, posts, wire, reply, id, outcome, strays,
          bookmarks, tagged, delivered>>

clientVars == <<enabled, call, attempt, stage, posts, id, outcome>>
serverVars == <<bookmarks, tagged, delivered>>

Operations == {"createBookmark", "attachTags", "notify"}
MaxPosts == MaxAttempts * (Times + 1)

TypeOK ==
    /\ enabled \in BOOLEAN /\ call \in {"add", "addTagged", "notify"}
    /\ attempt \in 0..MaxAttempts
    /\ stage \in Operations \cup {"idle", "backoff", "done"}
    /\ posts \in 0..(Times + 1)
    /\ wire \in {"none", "sent", "ok", "transient", "refused"}
    /\ id \in 0..MaxPosts /\ reply \in 0..MaxPosts
    /\ outcome \in Operations \cup {"none", "ok", "disabled", "interrupted"}
    /\ strays \in [Operations -> 0..MaxPosts]
    /\ bookmarks \in 0..MaxPosts /\ tagged \subseteq 1..bookmarks
    /\ delivered \in BOOLEAN

Init ==
    /\ enabled \in BOOLEAN /\ call \in {"add", "addTagged", "notify"}
    /\ attempt = 0 /\ posts = 0 /\ reply = 0 /\ id = 0 /\ bookmarks = 0
    /\ stage = "idle" /\ wire = "none" /\ outcome = "none"
    /\ strays = [k \in Operations |-> 0]
    /\ tagged = {} /\ delivered = FALSE

-----------------------------------------------------------------------------
(* The client *)

(* A POST that is given up may be on its way still. *)
GiveUpPost ==
    /\ wire' = "none"
    /\ strays' = IF wire = "sent" THEN [strays EXCEPT ![stage] = @ + 1] ELSE strays

Enter(operation) == stage' = operation /\ posts' = 0

(* retrySchedule: attempts are left and shouldRetry agrees. *)
ShouldRetry(failed) == failed \in Retryable /\ attempt < MaxAttempts

(* The operation fails with its KarakeepError or PushoverError. *)
Fail ==
    /\ GiveUpPost
    /\ posts' = 0
    /\ IF ShouldRetry(stage)
       THEN stage' = "backoff" /\ UNCHANGED outcome
       ELSE stage' = "done" /\ outcome' = stage
    /\ UNCHANGED <<enabled, call, attempt, reply, id, serverVars>>

(* Without credentials notify sends nothing and the others fail. *)
Disabled ==
    /\ stage = "idle" /\ ~enabled
    /\ stage' = "done"
    /\ outcome' = IF call = "notify" THEN "ok" ELSE "disabled"
    /\ UNCHANGED <<enabled, call, attempt, posts, wire, reply, id, strays, serverVars>>

Begin ==
    /\ stage \in {"idle", "backoff"} /\ enabled
    /\ attempt' = attempt + 1
    /\ Enter(IF call = "notify" THEN "notify" ELSE "createBookmark")
    /\ UNCHANGED <<enabled, call, wire, reply, id, outcome, strays, serverVars>>

Post ==
    /\ stage \in Operations /\ wire = "none"
    /\ posts' = posts + 1
    /\ wire' = "sent"
    /\ UNCHANGED <<enabled, call, attempt, stage, reply, id, outcome, strays, serverVars>>

(* retryTransient, which notify does not have. *)
MayRepeat == stage # "notify" /\ posts <= Times

(* A transport error or a transient status. *)
PostFails ==
    /\ stage \in Operations /\ wire # "none"
    /\ wire # "refused"
    /\ IF MayRepeat
       THEN GiveUpPost /\ UNCHANGED <<clientVars, reply, serverVars>>
       ELSE Fail

(* Another status, or a body that does not decode. *)
PostRefused ==
    /\ wire = "refused" \/ (wire = "ok" /\ stage = "createBookmark")
    /\ Fail

Succeed ==
    /\ stage' = "done" /\ outcome' = "ok"
    /\ UNCHANGED posts

\* Mutant: any status is as good as 2xx.
PostServedAnyhow ==
    /\ wire \in {"ok", "transient", "refused"}
    /\ wire' = "none"
    /\ id' = IF stage = "createBookmark" THEN reply ELSE id
    /\ IF stage = "createBookmark" /\ call = "addTagged"
       THEN Enter("attachTags") /\ UNCHANGED outcome
       ELSE Succeed
    /\ UNCHANGED <<enabled, call, attempt, reply, strays, serverVars>>

(* createBookmark resolves the id; addBookmark attaches tags if there are. *)
PostServed ==
    /\ wire = "ok"
    /\ wire' = "none"
    /\ id' = IF stage = "createBookmark" THEN reply ELSE id
    /\ IF stage = "createBookmark" /\ call = "addTagged"
       THEN Enter("attachTags") /\ UNCHANGED outcome
       ELSE Succeed
    /\ UNCHANGED <<enabled, call, attempt, reply, strays, serverVars>>

(* Effect.timeout, around the POSTs of an operation. *)
Timeout ==
    /\ stage \in Operations
    /\ Fail

Interrupt ==
    /\ stage \in Operations \cup {"backoff"}
    /\ IF stage = "backoff" THEN UNCHANGED <<wire, strays>> ELSE GiveUpPost
    /\ stage' = "done" /\ outcome' = "interrupted"
    /\ UNCHANGED <<enabled, call, attempt, posts, reply, id, serverVars>>

-----------------------------------------------------------------------------
(* The server *)

(* What a POST of kind k does when it is served. *)
Serve(k) ==
    /\ bookmarks' = bookmarks + (IF k = "createBookmark" THEN 1 ELSE 0)
    /\ tagged' = IF k = "attachTags" THEN tagged \cup {id} ELSE tagged
    /\ delivered' = (delivered \/ k = "notify")

(* A failure may come before or after the POST has had its effect. *)
ServerAnswers ==
    /\ wire = "sent"
    /\ \/ wire' \in {"ok", "transient"} /\ Serve(stage)
       \/ wire' \in {"transient", "refused"} /\ UNCHANGED serverVars
    /\ reply' = IF stage = "createBookmark" THEN bookmarks' ELSE reply
    /\ UNCHANGED <<clientVars, strays>>

StrayServed ==
    /\ \E k \in Operations :
         /\ strays[k] > 0
         /\ strays' = [strays EXCEPT ![k] = @ - 1]
         /\ Serve(k) \/ UNCHANGED serverVars
    /\ UNCHANGED <<clientVars, wire, reply>>

-----------------------------------------------------------------------------
Steps == Disabled \/ Begin \/ Post \/ PostFails \/ PostRefused \/ PostServed \/ Timeout

Next == Steps \/ ServerAnswers \/ StrayServed

Spec == Init /\ [][Next \/ Interrupt]_vars

(* Whatever the server does, deadlines expire and delays end. *)
Fairness == WF_vars(Steps)

-----------------------------------------------------------------------------
(* addBookmark resolves a bookmark that is there, with its tags; "a tag     *)
(* failure still fails (with the bookmarkId on the error) so the caller can *)
(* see the bookmark exists"; no other bookmark gets the tags, whatever was  *)
(* lost, repeated or served late.  A notification sent is delivered.        *)
AnswersAreTrue ==
    /\ outcome = "ok" /\ call = "notify" /\ enabled => delivered
    /\ ~enabled => bookmarks = 0 /\ ~delivered
    /\ (outcome = "ok" /\ call # "notify") \/ outcome = "attachTags" => id \in 1..bookmarks
    /\ outcome = "ok" /\ call = "addTagged" => id \in tagged
    /\ tagged \subseteq {id}
=============================================================================
