---------------------------- MODULE CatalogListing ----------------------------
(***************************************************************************)
(* apps/dashboard/src/lib/catalog-store.ts: one listing of the public      *)
(* catalogue, its owner's edits and suspensions, and the administrators'   *)
(* reviews. An edit reads the row, computes the status it is to have, and  *)
(* writes both in a second query that does not look at the row again; a    *)
(* reviewer decides on what the queue of pending listings showed.          *)
(*                                                                         *)
(* An offer is what a review is about: endpoint, networks and facilitator. *)
(* The other fields change no status. A request that dies between its two  *)
(* queries is one that does not go on.                                     *)
(***************************************************************************)
CONSTANTS
    Fields,    \* the significant fields
    Values,    \* what they may hold
    Edits,     \* PUT requests of the owner, one after the other each
    Reviews,   \* administrators at the queue
    NoOffer    \* no offer

ASSUME ListingAssumption ==
    /\ Edits \intersect Reviews = {}
    /\ NoOffer \notin [Fields -> Values] \union Edits \union Reviews

Offers == [Fields -> Values]
Patches == UNION {[S -> Values] : S \in SUBSET Fields}

VARIABLES
    listing,   \* its row: status, offer, and whether published_at is set
    editor,    \* where each edit is
    patch,     \* the significant fields it sets
    nextRow,   \* nextStatus and nextPublishedAt
    reviewer,  \* where each review is
    seen,      \* the offer it was shown
    stale,     \* history: requests overtaken since they read the row
    tainted,   \* history: the listing is approved because of such a request
    granted    \* history: the offer the last decision approved, or none

listingVars == <<listing, editor, patch, nextRow, reviewer, seen, stale, tainted, granted>>

NoPatch == [f \in {} |-> NoOffer]

NoRow == [status |-> "none", published |-> FALSE]

ListingInit ==
    /\ listing = [status |-> "none", offer |-> NoOffer, published |-> FALSE]
    /\ editor = [e \in Edits |-> "idle"]
    /\ patch = [e \in Edits |-> NoPatch]
    /\ nextRow = [e \in Edits |-> NoRow]
    /\ reviewer = [v \in Reviews |-> "idle"]
    /\ seen = [v \in Reviews |-> NoOffer]
    /\ stale = {} /\ tainted = FALSE /\ granted = NoOffer

Exists == listing.status # "none"

(* x ends. What it has written, if anything, overtakes the edits that have *)
(* read the row, and a new offer the reviews that were shown the old one.  *)
Overtake(x) ==
    stale' = (stale
                \union {e \in Edits : editor[e] = "write" /\ listing' # listing}
                \union {v \in Reviews : reviewer[v] = "decide"
                                       /\ listing'.offer # listing.offer}) \ {x}

(* insertListing: approved at once for the owner of the resource key it    *)
(* links. An anonymous listing is a pending one nobody edits or suspends.  *)
SubmitListing(o, isVerified) ==
    /\ ~Exists
    /\ listing' = [status |-> IF isVerified THEN "approved" ELSE "pending",
                   offer |-> o, published |-> isVerified]
    /\ granted' = IF isVerified THEN o ELSE NoOffer
    /\ UNCHANGED <<editor, patch, nextRow, reviewer, seen, stale, tainted>>

(* Mutant: an edit is significant when it changes all of the fields.       *)
SignificantIfAll(e) == \A f \in Fields : f \in DOMAIN patch'[e] /\ patch'[e][f] # listing.offer[f]

Significant(e) == \E f \in DOMAIN patch'[e] : patch'[e][f] # listing.offer[f]

(* updateListing, up to its UPDATE.                                        *)
ReadListing(e, p) ==
    /\ Exists
    /\ editor[e] = "idle"
    /\ editor' = [editor EXCEPT ![e] = "write"]
    /\ patch' = [patch EXCEPT ![e] = p]
    /\ nextRow' = [nextRow EXCEPT ![e] =
           IF Significant(e) THEN [status |-> "pending", published |-> FALSE]
           ELSE [status |-> listing.status, published |-> listing.published]]
    /\ UNCHANGED <<listing, reviewer, seen, stale, tainted, granted>>

Patched(e) ==
    [f \in Fields |-> IF f \in DOMAIN patch[e] THEN patch[e][f] ELSE listing.offer[f]]

WriteListing(e) ==
    /\ editor[e] = "write"
    /\ editor' = [editor EXCEPT ![e] = "idle"]
    /\ patch' = [patch EXCEPT ![e] = NoPatch]
    /\ nextRow' = [nextRow EXCEPT ![e] = NoRow]
    /\ listing' = [status |-> nextRow[e].status, offer |-> Patched(e),
                   published |-> nextRow[e].published]
    /\ tainted' = (nextRow[e].status = "approved" /\ (tainted \/ e \in stale))
    /\ Overtake(e)
    /\ UNCHANGED <<reviewer, seen, granted>>

(* listPendingListings, as the queue's page is opened.                     *)
OpenQueue(v) ==
    /\ listing.status = "pending"
    /\ reviewer[v] = "idle"
    /\ reviewer' = [reviewer EXCEPT ![v] = "decide"]
    /\ seen' = [seen EXCEPT ![v] = listing.offer]
    /\ UNCHANGED <<listing, editor, patch, nextRow, stale, tainted, granted>>

(* moderateListing: UPDATE ... WHERE status = 'pending'.                   *)
ModerateListing(v, decision) ==
    /\ reviewer[v] = "decide"
    /\ reviewer' = [reviewer EXCEPT ![v] = "idle"]
    /\ seen' = [seen EXCEPT ![v] = NoOffer]
    /\ \/ /\ listing.status # "pending"
          /\ UNCHANGED <<listing, tainted, granted>>
       \/ /\ listing.status = "pending"
          /\ listing' = [listing EXCEPT !.status = decision,
                                        !.published = @ \/ decision = "approved"]
          /\ granted' = IF decision = "approved" THEN seen[v] ELSE NoOffer
          /\ tainted' = (decision = "approved" /\ v \in stale)
    /\ Overtake(v)
    /\ UNCHANGED <<editor, patch, nextRow>>

SuspendListing ==
    /\ Exists
    /\ listing' = [listing EXCEPT !.status = "suspended"]
    /\ granted' = NoOffer
    /\ tainted' = FALSE
    /\ Overtake(NoOffer)
    /\ UNCHANGED <<editor, patch, nextRow, reviewer, seen>>

ListingNext ==
    \/ \E o \in Offers, isVerified \in BOOLEAN : SubmitListing(o, isVerified)
    \/ \E e \in Edits : WriteListing(e) \/ \E p \in Patches : ReadListing(e, p)
    \/ \E v \in Reviews :
        OpenQueue(v) \/ \E d \in {"approved", "rejected"} : ModerateListing(v, d)
    \/ SuspendListing

ListingSpec == ListingInit /\ [][ListingNext]_listingVars

-----------------------------------------------------------------------------
Statuses == {"none", "pending", "approved", "rejected", "suspended"}

ListingTypeOK ==
    /\ listing \in [status : Statuses, offer : Offers \union {NoOffer}, published : BOOLEAN]
    /\ editor \in [Edits -> {"idle", "write"}]
    /\ patch \in [Edits -> Patches]
    /\ nextRow \in [Edits -> [status : Statuses, published : BOOLEAN]]
    /\ reviewer \in [Reviews -> {"idle", "decide"}]
    /\ seen \in [Reviews -> Offers \union {NoOffer}]
    /\ stale \subseteq Edits \union Reviews
    /\ tainted \in BOOLEAN
    /\ granted \in Offers \union {NoOffer}

(* What is on display was approved as it stands, by the review of this     *)
(* very offer or by its owner's resource key, and was neither rejected nor *)
(* suspended since: unless an edit that read the listing as approved, or   *)
(* the review that approved it, was overtaken by another request's write.  *)
ApprovalStands ==
    ~tainted /\ listing.status = "approved" => listing.offer = granted
=============================================================================
