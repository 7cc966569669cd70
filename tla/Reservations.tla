---------------------------- MODULE Reservations ----------------------------
(***************************************************************************)
(* Stock of the marketplace's listings and the holds buyers place on it:   *)
(* backend/src/lib/reservations.ts, together with the seller's and the     *)
(* moderator's writes to the same listing rows (routes/seller.ts,          *)
(* lib/moderation.ts).                                                     *)
(*                                                                         *)
(* PostgreSQL runs every transaction at READ COMMITTED.  A transaction     *)
(* whose first statement is lockListing (SELECT ... FOR UPDATE) is one     *)
(* atomic step here, because every other writer of the row's stock waits   *)
(* for that lock.  A handler that reads first and locks or writes later is *)
(* two steps, and other steps may come between them.                       *)
(***************************************************************************)
EXTENDS Integers, FiniteSets, Tally

CONSTANTS
    Listings,   \* listing rows
    Users,      \* account holders
    Seller,     \* who sells a listing
    Holds,      \* identifiers of reservation rows (bounds how many are made)
    Requests,   \* concurrent DELETE /reservations/:id requests
    MaxQty,     \* largest quantity a listing is given
    EditKinds,  \* the listing edits that may happen
    NoHold,     \* an idle request
    NoEdit      \* no edit of the listing is in flight

ASSUME ReservationsAssumption ==
    /\ Seller \in [Listings -> Users]
    /\ MaxQty \in Nat \ {0}
    /\ IsFiniteSet(Holds)
    /\ NoHold \notin Holds
    /\ EditKinds \subseteq {"publish", "unpublish", "quantity", "delete",
                            "remove", "restore"}
    /\ NoEdit \notin EditKinds

VARIABLES
    listing,    \* listing[l]: the row of "listings"
    hold,       \* hold[h]: the row of "reservations", or NoRow
    releasing,  \* releasing[r]: the hold request r has read and will release
    sweeping,   \* holds the sweeper's query returned and it has still to visit
    editing,    \* editing[l]: the edit that has read l and will write it
    supply,     \* history: units of l its seller has ever put up
    overtaken   \* history: holds released after they had stopped being HELD

stockVars == <<listing, hold, releasing, sweeping, editing, supply, overtaken>>

ListingStatus == {"DRAFT", "ACTIVE", "RESERVED", "SOLD", "REMOVED"}
HoldStatus == {"HELD", "CONVERTED", "RELEASED", "EXPIRED"}

ListingRow == [quantity : Nat, status : ListingStatus, deleted : BOOLEAN]

\* lapsed stands for expiresAt <= now
HoldRow == [status : HoldStatus, user : Users, listing : Listings,
            quantity : 1..MaxQty, lapsed : BOOLEAN]
NoRow == [status |-> "NONE"]

-----------------------------------------------------------------------------
Held(h) == hold[h].status = "HELD"
HeldOn(l) == {h \in Holds : Held(h) /\ hold[h].listing = l}
LapsedOn(l) == {h \in HeldOn(l) : hold[h].lapsed}

\* The units a set of holds keeps off the shelf.
Units(H) == Tally(H, [h \in H |-> hold[h].quantity])
HeldUnits(l) == Units(HeldOn(l))

Visible(l) == listing[l].status = "ACTIVE" /\ ~listing[l].deleted

\* Putting stock back makes a listing buyable, unless it has sold; the
\* mistake is to give back the units and leave the listing hidden.
RelistedNever(status) == status
Relisted(status) == IF status = "SOLD" THEN "SOLD" ELSE "ACTIVE"

\* What every path that gives a hold up does to the listing row.
Restocked(row, n) ==
    [row EXCEPT !.quantity = row.quantity + n, !.status = Relisted(row.status)]

Ended(h, status) == [hold EXCEPT ![h].status = status]

-----------------------------------------------------------------------------
(***************************************************************************)
(* reserveListing: everything happens under the listing's row lock, so one *)
(* step.  A refusal throws, and the transaction rolls back what            *)
(* reclaimExpired had written, so only the successful path changes state.  *)
(***************************************************************************)

\* Availability counts the stock of holds that have timed out; the mistake
\* is to reclaim a hold and forget its units.
AvailableNow(l) == listing[l].quantity
Available(l) == listing[l].quantity + Units(LapsedOn(l))

\* available < quantity refuses; the mistake is to be off by one.
EnoughByOne(l, n) == n <= Available(l) + 1
Enough(l, n) == n <= Available(l)

ForSale(l) ==
    ~listing[l].deleted /\ listing[l].status \in {"ACTIVE", "RESERVED"}

\* A buyer's own live hold refuses a second; the mistake is to look only at
\* the stock.
AlreadyHeldNever(u, l) == FALSE
AlreadyHeld(u, l) == \E h \in HeldOn(l) \ LapsedOn(l) : hold[h].user = u

\* No stock left means nobody else should see it as buyable.
Taken(row, left) ==
    [row EXCEPT !.quantity = left,
                !.status = IF left = 0 THEN "RESERVED" ELSE "ACTIVE"]

Reserve(u, l, n) ==
    /\ ForSale(l)
    /\ Seller[l] # u
    /\ ~AlreadyHeld(u, l)
    /\ Enough(l, n)
    /\ listing' = [listing EXCEPT ![l] = Taken(listing[l], Available(l) - n)]
    /\ \E h \in Holds :
        /\ hold[h] = NoRow
        /\ hold' = [k \in Holds |->
               IF k = h THEN [status |-> "HELD", user |-> u, listing |-> l,
                              quantity |-> n, lapsed |-> FALSE]
               ELSE IF k \in LapsedOn(l) THEN [hold[k] EXCEPT !.status = "EXPIRED"]
               ELSE hold[k]]
    /\ UNCHANGED <<releasing, sweeping, editing, supply, overtaken>>

\* Time passes: expiresAt of one more hold is behind the clock.
Lapse(h) ==
    /\ Held(h)
    /\ ~hold[h].lapsed
    /\ hold' = [hold EXCEPT ![h].lapsed = TRUE]
    /\ UNCHANGED <<listing, releasing, sweeping, editing, supply, overtaken>>

-----------------------------------------------------------------------------
(***************************************************************************)
(* releaseReservation: the row is read, and found HELD, before the listing *)
(* is locked.  Once the lock is granted nothing is read again.             *)
(***************************************************************************)
StartRelease(r, h) ==
    /\ releasing[r] = NoHold
    /\ Held(h)
    /\ releasing' = [releasing EXCEPT ![r] = h]
    /\ UNCHANGED <<listing, hold, sweeping, editing, supply, overtaken>>

FinishRelease(r) ==
    LET h == releasing[r]
        l == hold[h].listing
    IN  /\ h # NoHold
        /\ hold' = Ended(h, "RELEASED")
        /\ listing' = [listing EXCEPT ![l] = Restocked(@, hold[h].quantity)]
        /\ releasing' = [releasing EXCEPT ![r] = NoHold]
        /\ overtaken' = IF Held(h) THEN overtaken ELSE overtaken \cup {h}
        /\ UNCHANGED <<sweeping, editing, supply>>

\* The transaction times out waiting for the lock, or its server dies.
AbortRelease(r) ==
    /\ releasing[r] # NoHold
    /\ releasing' = [releasing EXCEPT ![r] = NoHold]
    /\ UNCHANGED <<listing, hold, sweeping, editing, supply, overtaken>>

-----------------------------------------------------------------------------
(***************************************************************************)
(* releaseExpiredHolds: one query for the batch, then one transaction per  *)
(* hold.  Sweepers of several replicas share the set: visiting a hold      *)
(* twice differs from visiting it once in nothing.                         *)
(***************************************************************************)
\* The holds past their expiry; the mistake is to look for them in the catalog.
DueInCatalog == {h \in Holds : Held(h) /\ hold[h].lapsed /\ Visible(hold[h].listing)}
Due == {h \in Holds : Held(h) /\ hold[h].lapsed}

SweepQuery ==
    /\ Due \ sweeping # {}
    /\ sweeping' = sweeping \cup Due
    /\ UNCHANGED <<listing, hold, releasing, editing, supply, overtaken>>

\* The re-read under the lock, and the mistake of not making it.
StillHeldAssumed(h) == TRUE
StillHeld(h) == Held(h)

Sweep(h) ==
    /\ h \in sweeping
    /\ sweeping' = sweeping \ {h}
    /\ IF StillHeld(h)
       THEN /\ hold' = Ended(h, "EXPIRED")
            /\ listing' = [listing EXCEPT
                   ![hold[h].listing] = Restocked(@, hold[h].quantity)]
       ELSE UNCHANGED <<listing, hold>>
    /\ UNCHANGED <<releasing, editing, supply, overtaken>>

\* One hold's transaction fails and the rest of the batch goes on; a replica
\* that stops fails all of its batch.
SweepFails(h) ==
    /\ h \in sweeping
    /\ sweeping' = sweeping \ {h}
    /\ UNCHANGED <<listing, hold, releasing, editing, supply, overtaken>>

-----------------------------------------------------------------------------
(***************************************************************************)
(* The seller's and the moderator's edits read the row, decide, and write  *)
(* it with a second statement that takes no notice of what changed since.  *)
(***************************************************************************)
MayEdit(l, kind) ==
    CASE kind = "restore" -> listing[l].deleted
      [] kind \in {"remove", "delete"} -> ~listing[l].deleted
      [] OTHER -> ~listing[l].deleted /\ listing[l].status # "SOLD"

StartEdit(l, kind) ==
    /\ editing[l] = NoEdit
    /\ MayEdit(l, kind)
    /\ editing' = [editing EXCEPT ![l] = kind]
    /\ UNCHANGED <<listing, hold, releasing, sweeping, supply, overtaken>>

\* The columns each edit writes.  PATCH writes the quantity it was sent.
EditedRow(row, kind, n) ==
    CASE kind = "publish" -> [row EXCEPT !.status = "ACTIVE"]
      [] kind = "unpublish" -> [row EXCEPT !.status = "DRAFT"]
      [] kind = "quantity" -> [row EXCEPT !.quantity = n]
      [] kind \in {"delete", "remove"} ->
            [row EXCEPT !.status = "REMOVED", !.deleted = TRUE]
      [] kind = "restore" -> [row EXCEPT !.status = "DRAFT", !.deleted = FALSE]

FinishEdit(l, n) ==
    LET row == EditedRow(listing[l], editing[l], n)
    IN  /\ editing[l] # NoEdit
        /\ listing' = [listing EXCEPT ![l] = row]
        /\ supply' = [supply EXCEPT ![l] = @ + row.quantity - listing[l].quantity]
        /\ editing' = [editing EXCEPT ![l] = NoEdit]
        /\ UNCHANGED <<hold, releasing, sweeping, overtaken>>

-----------------------------------------------------------------------------
StockInit ==
    /\ listing \in [Listings -> [quantity : 1..MaxQty,
                                 status : {"DRAFT", "ACTIVE"}, deleted : {FALSE}]]
    /\ hold = [h \in Holds |-> NoRow]
    /\ releasing = [r \in Requests |-> NoHold]
    /\ sweeping = {}
    /\ editing = [l \in Listings |-> NoEdit]
    /\ supply = [l \in Listings |-> listing[l].quantity]
    /\ overtaken = {}

StockNext ==
    \/ \E u \in Users, l \in Listings, n \in 1..MaxQty : Reserve(u, l, n)
    \/ \E h \in Holds : Lapse(h)
    \/ \E r \in Requests, h \in Holds : StartRelease(r, h)
    \/ \E r \in Requests : FinishRelease(r)
    \/ \E r \in Requests : AbortRelease(r)
    \/ SweepQuery
    \/ \E h \in Holds : Sweep(h)
    \/ \E h \in Holds : SweepFails(h)
    \/ \E l \in Listings, kind \in EditKinds : StartEdit(l, kind)
    \/ \E l \in Listings, n \in 1..MaxQty : FinishEdit(l, n)

StockSpec == StockInit /\ [][StockNext]_stockVars

\* Only what the timer runs is promised to happen; a user may walk away.
FairStockSpec ==
    /\ StockSpec
    /\ WF_stockVars(SweepQuery)
    /\ \A h \in Holds : WF_stockVars(Lapse(h)) /\ SF_stockVars(Sweep(h))

-----------------------------------------------------------------------------
\* Every row, request and batch has the shape the schema gives it; stock is
\* never negative.
StockTypeOK ==
    /\ listing \in [Listings -> ListingRow]
    /\ hold \in [Holds -> HoldRow \cup {NoRow}]
    /\ releasing \in [Requests -> Holds \cup {NoHold}]
    /\ sweeping \in SUBSET Holds
    /\ editing \in [Listings -> EditKinds \cup {NoEdit}]
    /\ supply \in [Listings -> Int]
    /\ overtaken \in SUBSET Holds

\* One buyer has at most one HELD reservation of a listing, whatever requests
\* and sweeps run side by side.
OneLiveHold ==
    \A h, k \in Holds :
        Held(h) /\ Held(k) /\ h # k
            => <<hold[h].user, hold[h].listing>> # <<hold[k].user, hold[k].listing>>

\* No unit a seller has put up ever disappears: it is on the shelf or on hold.
NoStockLost ==
    \A l \in Listings : listing[l].quantity + HeldUnits(l) >= supply[l]

\* Units appear from nowhere only where a release was overtaken: a hold was
\* read as HELD and had already ended when its listing's lock was granted.
StockConserved ==
    \A l \in Listings :
        \/ listing[l].quantity + HeldUnits(l) = supply[l]
        \/ \E h \in overtaken : hold[h].listing = l

\* The same with no exception: two buyers can never both claim one object.
NeverOversold ==
    \A l \in Listings : listing[l].quantity + HeldUnits(l) = supply[l]

\* A listing is hidden as RESERVED only while a live hold will bring it back:
\* the deadlock releaseExpiredHolds exists to prevent has no other form.
HiddenOnlyWhileHeld ==
    \A l \in Listings : listing[l].status = "RESERVED" => HeldOn(l) # {}

\* A hold does not keep its units for ever: the buyer, the next reservation
\* or the sweeper gives them back.
EveryHoldEnds ==
    \A h \in Holds : Held(h) ~> ~Held(h)

\* A listing that sold out to holds returns to the catalog.
HiddenListingReturns ==
    \A l \in Listings : listing[l].status = "RESERVED" ~> listing[l].status # "RESERVED"
\* Every hold ends, and no listing stays hidden behind one.
ReservationsEnd == EveryHoldEnds /\ HiddenListingReturns
=============================================================================
