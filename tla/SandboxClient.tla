---------------------------- MODULE SandboxClient ----------------------------
(***************************************************************************)
(* The Go SDK (packages/sdk-go) against the control plane: a Pager that    *)
(* lists the leases of a scope page by page, through Backend.List and the  *)
(* encrypted cursors of cursor.go, and a Sandbox handle that several       *)
(* goroutines release, delete or close.                                    *)
(*                                                                         *)
(* The API server (external) lists claims in key order, at most a limit of *)
(* matching ones at a time, and answers a continue token with the snapshot *)
(* the first page was read from.  The server keeps nothing between two     *)
(* pages, so that one pager shows all that any number of them can.  A      *)
(* claim is "none", "live", "deleting" (with a deletion timestamp, still   *)
(* listed) or "gone".                                                      *)
(*                                                                         *)
(* An application here either lists or ends a sandbox: the two share the   *)
(* Client's closed flag only, and a claim the one deletes is to the other  *)
(* as one the platform deletes.                                            *)
(***************************************************************************)
EXTENDS Integers, FiniteSets, FiniteSetsExt, TLC

CONSTANTS
    Leases,       \* claim names: numbers, in key order
    ScopeOf, PoolOf, ExpiresAt,   \* lease -> what its claim says
    AnyPool,      \* no pool is asked for
    Queries,      \* records [scope, pool, limit]: the lists asked for
    Held,         \* the lease of the shared Sandbox handle
    Callers,      \* goroutines that end it
    None,
    MaxTime       \* bound: the clock stops here

\* What a nextCursor holds: see Encode.
Cursors ==
    [query : Queries, asOf : Nat, live : SUBSET Leases, present : SUBSET Leases, after : Nat]

ASSUME ClientAssumption ==
    /\ IsFiniteSet(Leases) /\ Leases \subseteq Nat \ {0} /\ Held \in Leases
    /\ ExpiresAt \in [Leases -> Nat \ {0}]
    /\ \A q \in Queries : q.limit \in Nat \ {0}
    /\ None \notin Cursors

VARIABLES
    now, phase,
    closed,       \* Client.closed
    pager,        \* the Pager, its request and the history of its traversal
    transition,   \* the handle's terminalTransition: "nil", "pending" or "ended"
    pc            \* caller -> where its Release, Delete or Close is

handle == <<transition, pc>>
vars == <<now, phase, closed, pager, handle>>

Live == {l \in Leases : phase[l] = "live"}
Present == Live \cup {l \in Leases : phase[l] = "deleting"}
Unexpired(t) == {l \in Leases : t < ExpiresAt[l]}
Active == Live \cap Unexpired(now)

\* st: "idle", "begin" (no page yet), "sent" (a request is out), "listing" (List
\* has its asOf), "next" (a page was received), "done" or "error".  cursor is
\* options.Cursor or the nextCursor received, page what Next has still to return.
\* History: begun and barred are the leases active and already ended when the
\* traversal began, snapshot those live when it was first listed, given those
\* returned so far and twice whether one was returned again.
IdlePager ==
    [st |-> "idle", query |-> None, cursor |-> None, asOf |-> 0, page |-> {},
     begun |-> {}, barred |-> {}, snapshot |-> {}, given |-> {}, twice |-> FALSE]

Init ==
    /\ now = 0
    /\ closed = FALSE
    /\ transition = "nil"
    /\ \/ /\ pager = IdlePager /\ pc = [c \in Callers |-> "absent"]
          /\ phase = [l \in Leases |-> "none"]
       \/ /\ pager = [IdlePager EXCEPT !.st = "absent"] /\ pc = [c \in Callers |-> "idle"]
          /\ phase = [l \in Leases |-> IF l = Held THEN "live" ELSE "none"]

----------------------------------------------------------------------------
(* The platform (external): leases are acquired, and end by expiry, the    *)
(* sweep or other clients.                                                 *)

Tick ==
    /\ now < MaxTime
    /\ now' = now + 1
    /\ UNCHANGED <<phase, closed, pager, handle>>

Becomes(l, p) == phase' = [phase EXCEPT ![l] = p]

Platform(l) ==
    /\ \/ phase[l] = "none" /\ now < ExpiresAt[l] /\ Becomes(l, "live")
       \/ phase[l] = "live" /\ Becomes(l, "deleting")
       \/ phase[l] = "deleting" /\ Becomes(l, "gone")
    /\ UNCHANGED <<now, closed, pager, handle>>

\* Client.Close.
Close ==
    /\ ~closed
    /\ closed' = TRUE
    /\ UNCHANGED <<now, phase, pager, handle>>

----------------------------------------------------------------------------
(* The Pager.                                                              *)

PagerStep(p) == pager' = p /\ UNCHANGED <<now, phase, closed, handle>>

\* Client.Iterate, from the beginning; or ListPage with the nextCursor of a page
\* the application received, or tries again, and whatever other options.
Iterate(q) ==
    \/ /\ pager.st \in {"idle", "done", "error"}
       /\ PagerStep([IdlePager EXCEPT !.st = "begin", !.query = q, !.begun = Active,
                                      !.barred = {l \in Leases : phase[l] # "none"} \ Active])
    \/ /\ pager.st \in {"next", "error"} /\ pager.cursor # None
       /\ PagerStep([pager EXCEPT !.st = "begin", !.query = q, !.page = {},
                                  !.given = @ \cup pager.page,
                                  !.twice = @ \/ pager.page \cap pager.given # {}])

\* Next returns a lease of the page ...
Yield ==
    /\ pager.st = "next" /\ pager.page # {}
    /\ LET l == Min(pager.page) IN
        PagerStep([pager EXCEPT !.page = @ \ {l}, !.given = @ \cup {l},
                                !.twice = @ \/ l \in pager.given])

\* ... and is past it when there is none left.
PastPage == pager.st = "next" /\ pager.page = {}

\* The last page was the one without a nextCursor.
Exhausted ==
    /\ PastPage /\ pager.cursor = None
    /\ PagerStep([pager EXCEPT !.st = "done"])

\* ListPage sends the next request; a closed Client fails it.  Cursors differ in
\* their nonce, so none is seen twice.
ListPage ==
    /\ pager.st = "begin" \/ (PastPage /\ pager.cursor # None)
    /\ PagerStep([pager EXCEPT !.st = IF closed THEN "error" ELSE "sent"])

\* The response is an error, is not valid or does not come: the platform refuses
\* the request, the API server fails or has compacted the snapshot (410), the
\* context is cancelled.  The Pager keeps the error.
RequestFails ==
    /\ pager.st \in {"sent", "listing"}
    /\ PagerStep([pager EXCEPT !.st = "error"])

----------------------------------------------------------------------------
(* Backend.List.                                                           *)

\* What decode compares: scope, pool and limit are those the cursor was made for.
Decodes(c, q) == c.query = q

\* Fault: expiry is judged anew for every page.
AsOfNow == now

\* The instant at which expiry is judged: the first page's for all of them.
AsOf == IF pager.cursor = None THEN now ELSE pager.cursor.asOf

\* The request is checked, its cursor decoded or the clock read; a cursor that
\* does not decode is INVALID_CURSOR.
ListBegins ==
    /\ pager.st = "sent"
    /\ IF pager.cursor = None \/ Decodes(pager.cursor, pager.query)
       THEN PagerStep([pager EXCEPT !.st = "listing", !.asOf = AsOf])
       ELSE PagerStep([pager EXCEPT !.st = "error"])

\* The label selector.
Selected(q) == {l \in Leases : ScopeOf[l] = q.scope /\ q.pool \in {AnyPool, PoolOf[l]}}

\* What the API server lists from: its state, or the snapshot of the token.
Snapshot ==
    IF pager.cursor = None THEN [live |-> Live, present |-> Present, after |-> 0]
    ELSE [live |-> pager.cursor.live, present |-> pager.cursor.present,
          after |-> pager.cursor.after]

\* The first claims of the snapshot after the token's position that q selects.
Items(q, from) ==
    LET matching == {l \in from.present \cap Selected(q) : l > from.after} IN
    {l \in matching : Cardinality({m \in matching : m <= l}) <= q.limit}

\* The loop over claims.Items.
Page(items, live, asOf) == items \cap live \cap Unexpired(asOf)

\* Fault: the cursor holds the continue token of the request.
EncodeSame(from, last) ==
    [query |-> pager.query, asOf |-> pager.asOf, live |-> from.live, present |-> from.present,
     after |-> from.after]

\* The payload sealed in nextCursor; live, present and after are the API server's
\* continue token.
Encode(from, last) ==
    [query |-> pager.query, asOf |-> pager.asOf, live |-> from.live, present |-> from.present,
     after |-> last]

\* The claims are listed.  There is a continue token whenever the limit was
\* reached and keys of any scope follow.
ListAnswers ==
    /\ pager.st = "listing"
    /\ LET q == pager.query
           from == Snapshot
           items == Items(q, from)
           page == Page(items, from.live, pager.asOf)
           more == Cardinality(items) = q.limit /\ \E l \in from.present : l > Max(items)
       IN  PagerStep([pager EXCEPT !.st = "next", !.page = page, !.snapshot = from.live,
                        !.cursor = IF more THEN Encode(from, Max(items)) ELSE None])

----------------------------------------------------------------------------
(* The Sandbox handle: terminal().                                         *)

To(c, label) == pc' = [pc EXCEPT ![c] = label]

\* A caller that joined a transition waits for its done channel, and when that is
\* closed is still to wake with the outcome it carries.
Joined == {"joined", "joinedOk", "joinedFailed"}

\* The leader c returns, and the done channel of its transition is closed.
Outcome(c, label, news) ==
    pc' = [d \in Callers |-> IF d = c THEN label ELSE IF pc[d] = "joined" THEN news ELSE pc[d]]

HandleStep == UNCHANGED <<now, closed, pager>>

\* Release, Delete or Close: the first caller leads, the others join it, and when
\* it has succeeded there is nothing left to do (a context that has ended may still
\* win the select).
terminal(c) ==
    /\ pc[c] = "idle"
    /\ \/ transition = "nil" /\ To(c, "begun") /\ transition' = "pending"
       \/ transition = "pending" /\ To(c, "joined") /\ UNCHANGED transition
       \/ transition = "ended" /\ (To(c, "ok") \/ To(c, "failed")) /\ UNCHANGED transition
    /\ HandleStep /\ UNCHANGED phase

\* The leader's request is sent unless the Client is closed.
newRequest(c) ==
    /\ pc[c] = "begun" /\ ~closed
    /\ To(c, "sent")
    /\ HandleStep /\ UNCHANGED <<phase, transition>>

\* Backend.Release and Backend.Delete find the claim ...
requireClaim(c) ==
    /\ pc[c] = "sent" /\ phase[Held] = "live"
    /\ To(c, "found")
    /\ HandleStep /\ UNCHANGED <<phase, transition>>

\* ... and delete it; that it is gone by now is no error.
deleteClaim(c) ==
    /\ pc[c] = "found"
    /\ To(c, "deleted")
    /\ IF phase[Held] = "live" THEN Becomes(Held, "deleting") ELSE UNCHANGED phase
    /\ HandleStep /\ UNCHANGED transition

\* The response arrives.
Succeeds(c) ==
    /\ pc[c] = "deleted"
    /\ transition' = "ended"
    /\ Outcome(c, "ok", "joinedOk")
    /\ HandleStep /\ UNCHANGED phase

\* Fault: the joiners are not told of the error.
FailsAlone(c) ==
    /\ pc[c] \in {"begun", "sent", "found", "deleted"}
    /\ transition' = "nil"
    /\ Outcome(c, "failed", "joinedOk")
    /\ HandleStep /\ UNCHANGED phase

\* Fault: a failed transition is not given up.
FailsForGood(c) ==
    /\ pc[c] \in {"begun", "sent", "found", "deleted"}
    /\ Outcome(c, "failed", "joinedFailed")
    /\ HandleStep /\ UNCHANGED <<phase, transition>>

\* The request is not sent, fails, is refused (the claim is not found, too), or its
\* response is lost after the claim was deleted: the next call tries again.
Fails(c) ==
    /\ pc[c] \in {"begun", "sent", "found", "deleted"}
    /\ transition' = "nil"
    /\ Outcome(c, "failed", "joinedFailed")
    /\ HandleStep /\ UNCHANGED phase

\* A joiner finds the done channel closed; other calls may have begun, failed or
\* ended another transition since.
Wakes(c) ==
    /\ \/ pc[c] = "joinedOk" /\ To(c, "ok")
       \/ pc[c] = "joinedFailed" /\ To(c, "failed")
    /\ HandleStep /\ UNCHANGED <<phase, transition>>

\* A joiner's own context ends its wait; it may win the select against the channel.
Aborted(c) ==
    /\ pc[c] \in Joined
    /\ To(c, "failed")
    /\ HandleStep /\ UNCHANGED <<phase, transition>>

Returns(c) ==
    /\ pc[c] \in {"ok", "failed"}
    /\ To(c, "idle")
    /\ HandleStep /\ UNCHANGED <<phase, transition>>

----------------------------------------------------------------------------
Traverse == Yield \/ Exhausted \/ ListPage \/ RequestFails \/ ListBegins \/ ListAnswers

Lead(c) == newRequest(c) \/ requireClaim(c) \/ deleteClaim(c) \/ Succeeds(c) \/ Fails(c)

Next ==
    \/ Tick \/ Close \/ Traverse
    \/ \E l \in Leases : Platform(l)
    \/ \E q \in Queries : Iterate(q)
    \/ \E c \in Callers : terminal(c) \/ Lead(c) \/ Wakes(c) \/ Aborted(c) \/ Returns(c)

Spec == Init /\ [][Next]_vars

\* The application goes on calling Next; a request is answered or fails; a joiner
\* whose channel is closed is scheduled.
Fairness == WF_vars(Traverse) /\ \A c \in Callers : WF_vars(Lead(c)) /\ WF_vars(Wakes(c))

LiveSpec == Spec /\ Fairness

----------------------------------------------------------------------------
(* Properties.                                                             *)

\* A traversal that ends without an error has returned every lease it asked for
\* that was active from its beginning to its end, each once, and none that had
\* ended before it began; what it returned is what one List of everything would
\* have returned at one instant.  Empty pages, leases that come, go and expire
\* between pages, and cursors tried again do not matter.
TraversalComplete ==
    pager.st = "done" =>
        /\ (pager.begun \cap Selected(pager.query) \cap Active) \subseteq pager.given
        /\ pager.given \cap pager.barred = {} /\ ~pager.twice
        /\ \E t \in 0 .. now :
            pager.given = Selected(pager.query) \cap pager.snapshot \cap Unexpired(t)

\* Every traversal comes to an end: no page leads back to itself.
PagersEnd ==
    (pager.st \in {"begin", "sent", "listing", "next"}) ~> (pager.st \in {"done", "error"})

\* A Release, Delete or Close that returns without an error, or that a transition
\* still has to tell so, means that the lease has ended, also when another caller's
\* request ended it, failed, or was retried before the joiner woke.
EndedMeansEnded ==
    /\ \A c \in Callers : pc[c] \in {"ok", "joinedOk"} => phase[Held] \in {"deleting", "gone"}
    /\ transition = "ended" => phase[Held] \in {"deleting", "gone"}

\* Nobody waits for ever for a transition that is not under way: whoever joined one
\* returns with its outcome, however often others fail and try again meanwhile.
JoinersReturn == \A c \in Callers : (pc[c] \in Joined) ~> (pc[c] \notin Joined)
=============================================================================
