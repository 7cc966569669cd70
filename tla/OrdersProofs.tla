---------------------------- MODULE OrdersProofs ----------------------------
(***************************************************************************)
(* For any listings, buyers, holds and orders, any number of requests and  *)
(* sweepers, and any prices: reservations keep every listing's books, and  *)
(* so do the orders that take them over; and an order, its intent and      *)
(* those who settle it agree.                                              *)
(*                                                                         *)
(* The first part is about Reservations alone.                             *)
(***************************************************************************)
EXTENDS Orders, TallyProofs

-----------------------------------------------------------------------------
(***************************************************************************)
(* Counting units.  Quantities are an argument of the sums, so that the    *)
(* lemmas serve the state before and the state after a step.               *)
(***************************************************************************)
Qty == [h \in Holds |-> hold[h].quantity]

\* One hold of quantity n has n units.
LEMMA UnitsOfOne ==
    ASSUME NEW h \in Holds, NEW q, q[h] \in 1..MaxQty
    PROVE  Tally({h}, q) = q[h]
<1>1. q[h] \in Nat
  BY ReservationsAssumption
<1> QED
  BY <1>1, TallyOne

\* The units of a set of holds can be added up.
LEMMA UnitsFinite ==
    ASSUME NEW H \in SUBSET Holds, NEW q, \A h \in H : q[h] \in 1..MaxQty
    PROVE  IsFiniteSet(Tokens(H, q))
<1>1. IsFiniteSet(Holds)
  BY ReservationsAssumption
<1>2. MaxQty \in Nat
  BY ReservationsAssumption
<1>3. \A h \in H : q[h] \in 0..MaxQty
  BY <1>2
<1> QED
  BY <1>1, <1>2, <1>3, TokensFinite

\* Their sum is a natural number.
LEMMA UnitsType ==
    ASSUME NEW H \in SUBSET Holds, NEW q, \A h \in H : q[h] \in 1..MaxQty
    PROVE  Tally(H, q) \in Nat
  BY UnitsFinite, TallyType

\* Units of disjoint sets of holds add up.
LEMMA UnitsSplit ==
    ASSUME NEW H \in SUBSET Holds, NEW K \in SUBSET Holds, NEW q,
           \A h \in H \cup K : q[h] \in 1..MaxQty, H \cap K = {}
    PROVE  /\ Tally(H, q) \in Nat
           /\ Tally(K, q) \in Nat
           /\ Tally(H \cup K, q) = Tally(H, q) + Tally(K, q)
<1>1. IsFiniteSet(Tokens(H, q))
  BY UnitsFinite
<1>2. IsFiniteSet(Tokens(K, q))
  BY UnitsFinite
<1>3. Tally(H, q) \in Nat /\ Tally(K, q) \in Nat
  BY <1>1, <1>2, TallyType
<1>4. Tally(H \cup K, q) = Tally(H, q) + Tally(K, q)
  BY <1>1, <1>2, TallySplit
<1> QED
  BY <1>3, <1>4

\* Units is a sum over holds.
LEMMA UnitsAreTallies ==
    ASSUME NEW H \in SUBSET Holds
    PROVE  Units(H) = Tally(H, Qty)
<1>1. \A h \in H : [k \in H |-> hold[k].quantity][h] = Qty[h]
  BY DEF Qty
<1> QED
  BY <1>1, TallySame DEF Units

-----------------------------------------------------------------------------
(***************************************************************************)
(* Type correctness                                                        *)
(***************************************************************************)
\* A hold that is HELD is a row, and the parts of a row are what they are.
LEMMA HeldIsRow ==
    ASSUME StockTypeOK, NEW h \in Holds, hold[h] # NoRow
    PROVE  /\ hold[h] \in HoldRow
           /\ hold[h].listing \in Listings
           /\ hold[h].user \in Users
           /\ hold[h].quantity \in 1..MaxQty
           /\ hold[h].quantity \in Nat
  BY ReservationsAssumption DEF StockTypeOK, HoldRow

\* A live hold has a row.
LEMMA HeldNotNoRow ==
    ASSUME StockTypeOK, NEW h \in Holds, Held(h)
    PROVE  hold[h] # NoRow
  BY DEF Held, NoRow

\* What a listing row is after stock came back to it.
LEMMA RestockedType ==
    ASSUME NEW row \in ListingRow, NEW n \in Nat
    PROVE  /\ Restocked(row, n) \in ListingRow
           /\ Restocked(row, n).quantity = row.quantity + n
<1>1. row.quantity + n \in Nat /\ Relisted(row.status) \in ListingStatus
  BY DEF Relisted, ListingRow, ListingStatus
<1> QED
  BY <1>1 DEF Restocked, ListingRow

\* What a listing row is after a reservation took stock from it.
LEMMA TakenType ==
    ASSUME NEW row \in ListingRow, NEW left \in Nat
    PROVE  /\ Taken(row, left) \in ListingRow
           /\ Taken(row, left).quantity = left
  BY DEF Taken, ListingRow, ListingStatus

\* A seller's edit leaves a row a row.
LEMMA EditedType ==
    ASSUME NEW row \in ListingRow, NEW n \in Nat, NEW kind \in EditKinds
    PROVE  EditedRow(row, kind, n) \in ListingRow
  BY ReservationsAssumption DEF EditedRow, ListingRow, ListingStatus

\* Counting what has lapsed on a listing gives a number.
LEMMA AvailableType ==
    ASSUME StockTypeOK, NEW l \in Listings
    PROVE  /\ Available(l) \in Nat
           /\ Units(LapsedOn(l)) \in Nat
<1>1. LapsedOn(l) \in SUBSET Holds
  BY DEF LapsedOn, HeldOn
<1>2. \A h \in LapsedOn(l) : Qty[h] \in 1..MaxQty
  BY HeldIsRow, HeldNotNoRow DEF LapsedOn, HeldOn, Qty
<1>3. Tally(LapsedOn(l), Qty) \in Nat
  BY <1>1, <1>2, UnitsType
<1>4. Units(LapsedOn(l)) \in Nat
  BY <1>1, <1>3, UnitsAreTallies
<1>5. listing[l].quantity \in Nat
  BY DEF StockTypeOK, ListingRow
<1> QED
  BY <1>4, <1>5 DEF Available

\* A release in flight, and one that was overtaken, is of a row that exists.
RowsExist ==
    /\ \A r \in Requests : releasing[r] # NoHold => hold[releasing[r]] # NoRow
    /\ \A h \in overtaken : hold[h] # NoRow

\* Every step keeps the types.
LEMMA TypeStep ==
    ASSUME StockTypeOK, RowsExist, [StockNext]_stockVars
    PROVE  StockTypeOK'
<1> USE DEF StockTypeOK
<1>1. ASSUME NEW u \in Users, NEW l \in Listings, NEW n \in 1..MaxQty,
             Reserve(u, l, n)
      PROVE  StockTypeOK'
  <2>1. Available(l) \in Nat /\ n \in Nat /\ n <= Available(l)
    BY <1>1, AvailableType, ReservationsAssumption DEF Reserve, Enough
  <2>2. Available(l) - n \in Nat
    BY <2>1
  <2>3. listing' \in [Listings -> ListingRow]
    <3>1. Taken(listing[l], Available(l) - n) \in ListingRow
      BY <2>2, TakenType
    <3> QED
      BY <1>1, <3>1 DEF Reserve
  <2>4. hold' \in [Holds -> HoldRow \cup {NoRow}]
    <3>1. PICK h \in Holds : hold' = [k \in Holds |->
               IF k = h THEN [status |-> "HELD", user |-> u, listing |-> l,
                              quantity |-> n, lapsed |-> FALSE]
               ELSE IF k \in LapsedOn(l) THEN [hold[k] EXCEPT !.status = "EXPIRED"]
               ELSE hold[k]]
      BY <1>1 DEF Reserve
    <3>2. [status |-> "HELD", user |-> u, listing |-> l,
           quantity |-> n, lapsed |-> FALSE] \in HoldRow
      BY DEF HoldRow, HoldStatus
    <3>3. \A k \in LapsedOn(l) : [hold[k] EXCEPT !.status = "EXPIRED"] \in HoldRow
      BY HeldIsRow, HeldNotNoRow DEF LapsedOn, HeldOn, HoldRow, HoldStatus
    <3> QED
      BY <3>1, <3>2, <3>3
  <2> QED
    BY <1>1, <2>3, <2>4 DEF Reserve
<1>2. ASSUME NEW h \in Holds, Lapse(h) PROVE StockTypeOK'
  BY <1>2, HeldIsRow, HeldNotNoRow DEF Lapse, HoldRow
<1>3. ASSUME NEW r \in Requests, NEW h \in Holds, StartRelease(r, h)
      PROVE  StockTypeOK'
  BY <1>3 DEF StartRelease
<1>4. ASSUME NEW r \in Requests, FinishRelease(r)
      PROVE  StockTypeOK'
  <2>1. releasing[r] \in Holds /\ hold[releasing[r]] # NoRow
    BY <1>4 DEF FinishRelease, RowsExist
  <2> DEFINE h == releasing[r]
             l == hold[h].listing
  <2>2. hold[h] \in HoldRow /\ l \in Listings /\ hold[h].quantity \in Nat
    BY <1>4, <2>1, HeldIsRow
  <2>3. Restocked(listing[l], hold[h].quantity) \in ListingRow
    BY <2>2, RestockedType
  <2>4. [hold[h] EXCEPT !.status = "RELEASED"] \in HoldRow
    BY <2>2 DEF HoldRow, HoldStatus
  <2> QED
    BY <1>4, <2>1, <2>2, <2>3, <2>4 DEF FinishRelease, Ended
<1>5. ASSUME NEW r \in Requests, AbortRelease(r) PROVE StockTypeOK'
  BY <1>5 DEF AbortRelease
<1>6. ASSUME SweepQuery PROVE StockTypeOK'
  BY <1>6 DEF SweepQuery, Due
<1>7. ASSUME NEW h \in Holds, Sweep(h) PROVE StockTypeOK'
  <2>1. CASE Held(h)
    <3> DEFINE l == hold[h].listing
    <3>1. hold[h] \in HoldRow /\ l \in Listings /\ hold[h].quantity \in Nat
      BY <2>1, HeldIsRow, HeldNotNoRow
    <3>2. Restocked(listing[l], hold[h].quantity) \in ListingRow
      BY <3>1, RestockedType
    <3>3. [hold[h] EXCEPT !.status = "EXPIRED"] \in HoldRow
      BY <3>1 DEF HoldRow, HoldStatus
    <3> QED
      BY <1>7, <2>1, <3>1, <3>2, <3>3 DEF Sweep, StillHeld, Ended
  <2>2. CASE ~Held(h)
    BY <1>7, <2>2 DEF Sweep, StillHeld
  <2> QED
    BY <2>1, <2>2
<1>8. ASSUME NEW h \in Holds, SweepFails(h) PROVE StockTypeOK'
  BY <1>8 DEF SweepFails
<1>9. ASSUME NEW l \in Listings, NEW kind \in EditKinds, StartEdit(l, kind)
      PROVE  StockTypeOK'
  BY <1>9 DEF StartEdit
<1>10. ASSUME NEW l \in Listings, NEW n \in 1..MaxQty, FinishEdit(l, n)
       PROVE  StockTypeOK'
  <2>1. n \in Nat /\ editing[l] \in EditKinds
    BY <1>10, ReservationsAssumption DEF FinishEdit
  <2>2. EditedRow(listing[l], editing[l], n) \in ListingRow
    BY <2>1, EditedType
  <2>3. supply[l] + EditedRow(listing[l], editing[l], n).quantity
            - listing[l].quantity \in Int
    BY <2>2 DEF ListingRow
  <2> QED
    BY <1>10, <2>2, <2>3 DEF FinishEdit
<1>11. ASSUME UNCHANGED stockVars PROVE StockTypeOK'
  BY <1>11 DEF stockVars
<1> QED
  BY <1>1, <1>2, <1>3, <1>4, <1>5, <1>6, <1>7, <1>8, <1>9, <1>10, <1>11 DEF StockNext

\* Rows are never deleted: a hold that has been made stays made.
LEMMA RowsStay ==
    ASSUME StockTypeOK, RowsExist, [StockNext]_stockVars, NEW h \in Holds,
           hold[h] # NoRow
    PROVE  /\ hold'[h] # NoRow
           /\ hold'[h].listing = hold[h].listing
           /\ hold'[h].user = hold[h].user
           /\ hold'[h].quantity = hold[h].quantity
<1>1. hold[h] \in HoldRow /\ hold \in [Holds -> HoldRow \cup {NoRow}]
  BY HeldIsRow DEF StockTypeOK
<1> DEFINE Keeps(row) == /\ row # NoRow
                         /\ row.listing = hold[h].listing
                         /\ row.user = hold[h].user
                         /\ row.quantity = hold[h].quantity
<1>2. \A s : Keeps([hold[h] EXCEPT !.status = s])
  BY <1>1 DEF HoldRow, NoRow
<1>3. Keeps(hold[h])
  OBVIOUS
<1>4. ASSUME NEW u \in Users, NEW l \in Listings, NEW n \in 1..MaxQty,
             Reserve(u, l, n)
      PROVE  Keeps(hold'[h])
  BY <1>1, <1>2, <1>3, <1>4 DEF Reserve
<1>5. ASSUME NEW k \in Holds, Lapse(k) PROVE Keeps(hold'[h])
  BY <1>1, <1>3, <1>5 DEF Lapse, HoldRow, NoRow
<1>6. ASSUME NEW r \in Requests, FinishRelease(r) PROVE Keeps(hold'[h])
  <2>1. hold' = [hold EXCEPT ![releasing[r]].status = "RELEASED"]
    BY <1>6 DEF FinishRelease, Ended
  <2>2. \/ hold'[h] = [hold[h] EXCEPT !.status = "RELEASED"]
        \/ hold'[h] = hold[h]
    BY <1>1, <2>1
  <2> QED
    BY <1>2, <1>3, <2>2
<1>7. ASSUME NEW k \in Holds, Sweep(k) PROVE Keeps(hold'[h])
  <2>1. \/ hold' = [hold EXCEPT ![k].status = "EXPIRED"]
        \/ hold' = hold
    BY <1>7 DEF Sweep, Ended
  <2>2. \/ hold'[h] = [hold[h] EXCEPT !.status = "EXPIRED"]
        \/ hold'[h] = hold[h]
    BY <1>1, <2>1
  <2> QED
    BY <1>2, <1>3, <2>2
<1>8. CASE UNCHANGED hold
  BY <1>3, <1>8
<1> QED
  BY <1>4, <1>5, <1>6, <1>7, <1>8
     DEF StockNext, stockVars, StartRelease, AbortRelease, SweepQuery,
         SweepFails, StartEdit, FinishEdit

\* A hold that has ended is not HELD again.
LEMMA EndedStays ==
    ASSUME StockTypeOK, [StockNext]_stockVars, NEW h \in Holds,
           hold[h] # NoRow, ~Held(h)
    PROVE  hold'[h].status # "HELD"
<1>1. hold[h] \in HoldRow /\ hold \in [Holds -> HoldRow \cup {NoRow}]
  BY HeldIsRow DEF StockTypeOK
<1>2. hold[h].status # "HELD"
  BY DEF Held
<1>3. \A s : [hold[h] EXCEPT !.status = s].status = s
  BY <1>1 DEF HoldRow
<1>4. ASSUME NEW u \in Users, NEW l \in Listings, NEW n \in 1..MaxQty,
             Reserve(u, l, n)
      PROVE  hold'[h].status # "HELD"
  <2>1. h \notin LapsedOn(l)
    BY DEF LapsedOn, HeldOn
  <2>2. hold'[h] = hold[h]
    BY <1>1, <1>4, <2>1 DEF Reserve
  <2> QED
    BY <1>2, <2>2
<1>5. ASSUME NEW k \in Holds, Lapse(k) PROVE hold'[h].status # "HELD"
  <2>1. k # h
    BY <1>5 DEF Lapse
  <2> QED
    BY <1>1, <1>2, <1>5, <2>1 DEF Lapse
<1>6. ASSUME NEW r \in Requests, FinishRelease(r) PROVE hold'[h].status # "HELD"
  <2>1. hold' = [hold EXCEPT ![releasing[r]].status = "RELEASED"]
    BY <1>6 DEF FinishRelease, Ended
  <2>2. \/ hold'[h] = [hold[h] EXCEPT !.status = "RELEASED"]
        \/ hold'[h] = hold[h]
    BY <1>1, <2>1
  <2> QED
    BY <1>2, <1>3, <2>2
<1>7. ASSUME NEW k \in Holds, Sweep(k) PROVE hold'[h].status # "HELD"
  <2>1. \/ hold' = [hold EXCEPT ![k].status = "EXPIRED"]
        \/ hold' = hold
    BY <1>7 DEF Sweep, Ended
  <2>2. \/ hold'[h] = [hold[h] EXCEPT !.status = "EXPIRED"]
        \/ hold'[h] = hold[h]
    BY <1>1, <2>1
  <2> QED
    BY <1>2, <1>3, <2>2
<1>8. CASE UNCHANGED hold
  BY <1>2, <1>8
<1> QED
  BY <1>4, <1>5, <1>6, <1>7, <1>8
     DEF StockNext, stockVars, StartRelease, AbortRelease, SweepQuery,
         SweepFails, StartEdit, FinishEdit

\* Every step keeps rows there that others name.
LEMMA RowsExistStep ==
    ASSUME StockTypeOK, RowsExist, [StockNext]_stockVars
    PROVE  RowsExist'
<1>1. \A h \in Holds : hold[h] # NoRow => hold'[h] # NoRow
  BY RowsStay
<1>2. \A r \in Requests :
        \/ releasing'[r] = releasing[r]
        \/ releasing'[r] = NoHold
        \/ releasing'[r] \in Holds /\ Held(releasing'[r])
  BY DEF StockNext, stockVars, Reserve, Lapse, StartRelease, FinishRelease,
         AbortRelease, SweepQuery, Sweep, SweepFails, StartEdit, FinishEdit,
         StockTypeOK
<1>3. \A h \in overtaken' : h \in overtaken \/ \E r \in Requests :
        releasing[r] = h /\ h # NoHold
  BY DEF StockNext, stockVars, Reserve, Lapse, StartRelease, FinishRelease,
         AbortRelease, SweepQuery, Sweep, SweepFails, StartEdit, FinishEdit
<1>4. \A r \in Requests : releasing'[r] # NoHold => hold'[releasing'[r]] # NoRow
  BY <1>1, <1>2, HeldNotNoRow DEF RowsExist, StockTypeOK
<1>5. \A h \in overtaken' : hold'[h] # NoRow
  BY <1>1, <1>3 DEF RowsExist, StockTypeOK
<1> QED
  BY <1>4, <1>5 DEF RowsExist

-----------------------------------------------------------------------------
(***************************************************************************)
(* One live hold per buyer and listing                                     *)
(***************************************************************************)

\* Only Reserve makes a hold HELD, and it makes one.
LEMMA OneLiveHoldStep ==
    ASSUME StockTypeOK, RowsExist, OneLiveHold, [StockNext]_stockVars
    PROVE  OneLiveHold'
<1>1. hold \in [Holds -> HoldRow \cup {NoRow}]
  BY DEF StockTypeOK
<1>2. ASSUME NEW u \in Users, NEW l \in Listings, NEW n \in 1..MaxQty,
             Reserve(u, l, n)
      PROVE  OneLiveHold'
  <2>1. PICK h \in Holds :
          /\ hold[h] = NoRow
          /\ hold' = [k \in Holds |->
               IF k = h THEN [status |-> "HELD", user |-> u, listing |-> l,
                              quantity |-> n, lapsed |-> FALSE]
               ELSE IF k \in LapsedOn(l) THEN [hold[k] EXCEPT !.status = "EXPIRED"]
               ELSE hold[k]]
    BY <1>2 DEF Reserve
  <2>2. \A k \in HeldOn(l) \ LapsedOn(l) : hold[k].user # u
    BY <1>2 DEF Reserve, AlreadyHeld
  <2>3. \A k \in Holds : k # h /\ hold'[k].status = "HELD" =>
          /\ Held(k) /\ k \notin LapsedOn(l)
          /\ hold'[k] = hold[k]
    <3> TAKE k \in Holds
    <3>1. k \in LapsedOn(l) => [hold[k] EXCEPT !.status = "EXPIRED"].status = "EXPIRED"
      BY <1>1, HeldIsRow, HeldNotNoRow DEF LapsedOn, HeldOn, HoldRow
    <3> QED
      BY <2>1, <3>1 DEF Held
  <2>4. hold'[h].user = u /\ hold'[h].listing = l
    BY <2>1
  <2> SUFFICES ASSUME NEW a \in Holds, NEW b \in Holds,
                      hold'[a].status = "HELD", hold'[b].status = "HELD", a # b
               PROVE  <<hold'[a].user, hold'[a].listing>>
                          # <<hold'[b].user, hold'[b].listing>>
    BY DEF OneLiveHold, Held
  <2>5. CASE a # h /\ b # h
    BY <2>3, <2>5 DEF OneLiveHold
  <2>6. CASE a = h
    BY <2>2, <2>3, <2>4, <2>6 DEF HeldOn
  <2>7. CASE b = h
    BY <2>2, <2>3, <2>4, <2>7 DEF HeldOn
  <2> QED
    BY <2>5, <2>6, <2>7
<1>3. CASE \A k \in Holds : hold'[k].status = "HELD" =>
              Held(k) /\ hold'[k].user = hold[k].user
                      /\ hold'[k].listing = hold[k].listing
  BY <1>3 DEF OneLiveHold, Held
<1>4. ASSUME NEW h \in Holds, Lapse(h) PROVE OneLiveHold'
  BY <1>1, <1>3, <1>4, HeldIsRow, HeldNotNoRow DEF Lapse, Held, HoldRow
<1>5. ASSUME NEW r \in Requests, FinishRelease(r) PROVE OneLiveHold'
  <2>1. releasing[r] \in Holds /\ hold[releasing[r]] \in HoldRow
    BY <1>5, HeldIsRow DEF FinishRelease, RowsExist, StockTypeOK
  <2> QED
    BY <1>1, <1>3, <1>5, <2>1 DEF FinishRelease, Ended, Held, HoldRow
<1>6. ASSUME NEW h \in Holds, Sweep(h) PROVE OneLiveHold'
  <2>1. CASE Held(h)
    BY <1>1, <1>3, <1>6, <2>1, HeldIsRow, HeldNotNoRow
       DEF Sweep, StillHeld, Ended, Held, HoldRow
  <2>2. CASE ~Held(h)
    BY <1>3, <1>6, <2>2 DEF Sweep, StillHeld, Held
  <2> QED
    BY <2>1, <2>2
<1>7. CASE UNCHANGED hold
  BY <1>3, <1>7 DEF Held
<1> QED
  BY <1>2, <1>4, <1>5, <1>6, <1>7
     DEF StockNext, stockVars, StartRelease, AbortRelease, SweepQuery,
         SweepFails, StartEdit, FinishEdit

-----------------------------------------------------------------------------
(***************************************************************************)
(* Stock accounting                                                        *)
(***************************************************************************)
LEMMA HeldOnRows ==
    ASSUME StockTypeOK, NEW l \in Listings
    PROVE  /\ HeldOn(l) \in SUBSET Holds
           /\ \A h \in HeldOn(l) : Qty[h] \in 1..MaxQty /\ Qty[h] = hold[h].quantity
  BY HeldIsRow, HeldNotNoRow DEF HeldOn, Qty

\* The units on hold are a sum, and natural.
LEMMA HeldUnitsType ==
    ASSUME StockTypeOK, NEW l \in Listings
    PROVE  /\ HeldUnits(l) \in Nat
           /\ HeldUnits(l) = Tally(HeldOn(l), Qty)
<1>1. Tally(HeldOn(l), Qty) \in Nat
  BY HeldOnRows, UnitsType
<1> QED
  BY <1>1, HeldOnRows, UnitsAreTallies DEF HeldUnits

\* The same after a step.
LEMMA HeldUnitsAfter ==
    ASSUME StockTypeOK', NEW l \in Listings
    PROVE  HeldUnits(l)' \in Nat
<1> DEFINE H == HeldOn(l)'
           q == [h \in H |-> hold'[h].quantity]
<1>1. H \in SUBSET Holds
  BY DEF HeldOn
<1>2. \A h \in H : hold'[h].quantity \in 1..MaxQty
  BY DEF HeldOn, Held, StockTypeOK, HoldRow, NoRow
<1>3. \A h \in H : q[h] \in 1..MaxQty
  BY <1>2
<1>4. HeldUnits(l)' = Tally(H, q)
  BY DEF HeldUnits, Units
<1> HIDE DEF H, q
<1> QED
  BY <1>1, <1>3, <1>4, UnitsType

\* What is on hold after a step, counted with the quantities before it.
LEMMA HeldUnitsNext ==
    ASSUME NEW l \in Listings, NEW H \in SUBSET Holds, HeldOn(l)' = H,
           NEW q, \A h \in H : hold'[h].quantity = q[h]
    PROVE  HeldUnits(l)' = Tally(H, q)
<1>1. HeldUnits(l)' = Tally(H, [h \in H |-> hold'[h].quantity])
  BY DEF HeldUnits, Units
<1>2. \A h \in H : [k \in H |-> hold'[k].quantity][h] = q[h]
  OBVIOUS
<1> QED
  BY <1>1, <1>2, TallySame

\* A step that leaves the live holds of a listing alone leaves their units.
LEMMA UnitsStay ==
    ASSUME StockTypeOK, NEW l \in Listings, HeldOn(l)' = HeldOn(l),
           \A h \in HeldOn(l) : hold'[h].quantity = hold[h].quantity
    PROVE  HeldUnits(l)' = HeldUnits(l)
<1>1. \A h \in HeldOn(l) : hold'[h].quantity = Qty[h]
  BY HeldOnRows
<1> QED
  BY <1>1, HeldOnRows, HeldUnitsNext, HeldUnitsType

\* Ending a live hold takes its units off hold, and no other listing's.
LEMMA UnitsEnd ==
    ASSUME StockTypeOK, NEW h \in Holds, Held(h),
           NEW s, s # "HELD", hold' = Ended(h, s), NEW l \in Listings
    PROVE  HeldUnits(l)' = IF l = hold[h].listing
                           THEN HeldUnits(l) - hold[h].quantity ELSE HeldUnits(l)
<1>0. hold[h] \in HoldRow /\ hold[h].quantity \in Nat /\ Qty[h] = hold[h].quantity
  BY HeldIsRow, HeldNotNoRow DEF Qty
<1>1. hold' = [hold EXCEPT ![h].status = s]
  BY DEF Ended
<1>2. \A k \in Holds : k # h => hold'[k] = hold[k]
  BY <1>1 DEF StockTypeOK
<1>3. hold'[h].status = s
  BY <1>0, <1>1 DEF HoldRow, StockTypeOK
<1>4. HeldOn(l)' = HeldOn(l) \ {h}
  BY <1>2, <1>3 DEF HeldOn, Held
<1>5. CASE l # hold[h].listing
  <2>1. HeldOn(l)' = HeldOn(l) /\ h \notin HeldOn(l)
    BY <1>4, <1>5 DEF HeldOn
  <2> QED
    BY <1>2, <1>5, <2>1, HeldOnRows, UnitsStay
<1>6. CASE l = hold[h].listing
  <2> DEFINE H == HeldOn(l) \ {h}
  <2>1. H \in SUBSET Holds /\ {h} \in SUBSET Holds /\ H \cap {h} = {}
    BY DEF HeldOn
  <2>2. H \cup {h} = HeldOn(l)
    BY <1>6 DEF HeldOn
  <2>3. \A k \in H \cup {h} : Qty[k] \in 1..MaxQty
    BY <2>2, HeldOnRows
  <2>4. /\ Tally(H, Qty) \in Nat
        /\ Tally(H \cup {h}, Qty) =
              Tally(H, Qty) + Tally({h}, Qty)
    BY <2>1, <2>3, UnitsSplit
  <2>5. Tally({h}, Qty) = hold[h].quantity
    BY <1>0, <2>3, UnitsOfOne
  <2>6. HeldUnits(l) = Tally(H, Qty) + hold[h].quantity
    BY <2>2, <2>4, <2>5, HeldUnitsType
  <2>7. \A k \in H : hold'[k].quantity = Qty[k]
    BY <1>2, HeldOnRows
  <2>8. HeldUnits(l)' = Tally(H, Qty)
    BY <1>4, <2>1, <2>7, HeldUnitsNext
  <2> QED
    BY <1>0, <1>6, <2>4, <2>6, <2>8
<1> QED
  BY <1>5, <1>6

\* What a step does to the account of a listing: nothing, or it adds units of
\* a release that was overtaken.
Accrues(l) ==
    \E c \in Nat :
        /\ listing'[l].quantity + HeldUnits(l)' - supply'[l] =
              listing[l].quantity + HeldUnits(l) - supply[l] + c
        /\ c = 0 \/ \E h \in overtaken' : hold'[h].listing = l

\* A step that moves d units between a listing's shelf and its holds adds none.
LEMMA UnitsMove ==
    ASSUME StockTypeOK, NEW l \in Listings, NEW d \in Int,
           listing'[l].quantity = listing[l].quantity + d,
           HeldUnits(l)' = HeldUnits(l) - d, supply'[l] = supply[l]
    PROVE  Accrues(l)
<1>1. /\ listing[l].quantity \in Nat
      /\ supply[l] \in Int
      /\ HeldUnits(l) \in Nat
  BY HeldUnitsType DEF StockTypeOK, ListingRow
<1>2. listing'[l].quantity + HeldUnits(l)' - supply'[l] =
        listing[l].quantity + HeldUnits(l) - supply[l] + 0
  BY <1>1
<1> QED
  BY <1>2 DEF Accrues

\* Every step of the stock keeps a listing's account, or adds to it by a
\* release that was overtaken.
LEMMA AccountStep ==
    ASSUME StockTypeOK, StockTypeOK', RowsExist, [StockNext]_stockVars,
           NEW m \in Listings
    PROVE  Accrues(m)
<1>0. /\ hold \in [Holds -> HoldRow \cup {NoRow}]
      /\ listing \in [Listings -> ListingRow]
      /\ listing[m].quantity \in Nat /\ supply[m] \in Int /\ HeldUnits(m) \in Nat
      /\ listing[m].quantity + 0 = listing[m].quantity
      /\ HeldUnits(m) - 0 = HeldUnits(m)
      /\ 0 \in Int
  BY HeldUnitsType DEF StockTypeOK, ListingRow
<1>1. ASSUME NEW u \in Users, NEW l \in Listings, NEW n \in 1..MaxQty,
             Reserve(u, l, n)
      PROVE  Accrues(m)
  <2>1. PICK h \in Holds :
          /\ hold[h] = NoRow
          /\ hold' = [k \in Holds |->
               IF k = h THEN [status |-> "HELD", user |-> u, listing |-> l,
                              quantity |-> n, lapsed |-> FALSE]
               ELSE IF k \in LapsedOn(l) THEN [hold[k] EXCEPT !.status = "EXPIRED"]
               ELSE hold[k]]
    BY <1>1 DEF Reserve
  <2>2. \A k \in LapsedOn(l) : /\ hold'[k].status = "EXPIRED"
                               /\ hold'[k].listing = l
                               /\ k # h
    BY <2>1, HeldIsRow, HeldNotNoRow DEF LapsedOn, HeldOn, HoldRow, NoRow, Held
  <2>3. \A k \in Holds : k # h /\ k \notin LapsedOn(l) => hold'[k] = hold[k]
    BY <2>1
  <2>4. hold'[h] = [status |-> "HELD", user |-> u, listing |-> l,
                    quantity |-> n, lapsed |-> FALSE]
    BY <2>1
  <2>5. h \notin HeldOn(m)
    BY <2>1, HeldNotNoRow DEF HeldOn
  <2>6. UNCHANGED <<supply, overtaken>>
    BY <1>1 DEF Reserve
  <2>7. CASE m # l
    <3>1. \A k \in LapsedOn(l) : k \notin HeldOn(m)
      BY <2>7 DEF LapsedOn, HeldOn
    <3>2. HeldOn(m)' = HeldOn(m)
      BY <2>2, <2>3, <2>4, <2>5, <2>7, <3>1 DEF HeldOn, Held
    <3>3. \A k \in HeldOn(m) : hold'[k].quantity = hold[k].quantity
      BY <2>3, <2>5, <3>1 DEF HeldOn
    <3>4. HeldUnits(m)' = HeldUnits(m)
      BY <3>2, <3>3, UnitsStay
    <3>5. listing'[m] = listing[m]
      BY <1>0, <1>1, <2>7 DEF Reserve
    <3> QED
      BY <1>0, <2>6, <3>4, <3>5, UnitsMove
  <2>8. CASE m = l
    <3> DEFINE Old == HeldOn(l) \ LapsedOn(l)
               q == [k \in Holds |-> hold'[k].quantity]
    <3>1. /\ Old \in SUBSET Holds /\ LapsedOn(l) \in SUBSET Holds
          /\ {h} \in SUBSET Holds
          /\ Old \cup LapsedOn(l) = HeldOn(l) /\ Old \cap LapsedOn(l) = {}
      BY DEF HeldOn, LapsedOn
    <3>2. Old \cap {h} = {}
      BY <2>5, <2>8
    <3>3. HeldOn(l)' = Old \cup {h}
      BY <2>2, <2>3, <2>4 DEF HeldOn, Held, LapsedOn
    <3>4. \A k \in HeldOn(l) : Qty[k] \in 1..MaxQty /\ Qty[k] = hold[k].quantity
      BY HeldOnRows
    <3>5. \A k \in Old : q[k] = Qty[k]
      BY <2>3, <2>5, <2>8, <3>4 DEF HeldOn, LapsedOn
    <3>6. q[h] = n
      BY <2>4
    <3>7. \A k \in Old \cup {h} : q[k] \in 1..MaxQty
      BY <3>4, <3>5, <3>6
    <3> DEFINE a == Tally(Old, Qty)
               b == Tally(LapsedOn(l), Qty)
    <3>8. a \in Nat /\ b \in Nat /\ HeldUnits(l) = a + b
      <4>1. \A k \in Old \cup LapsedOn(l) : Qty[k] \in 1..MaxQty
        BY <3>1, <3>4
      <4>2. /\ Tally(Old, Qty) \in Nat /\ Tally(LapsedOn(l), Qty) \in Nat
            /\ Tally(Old \cup LapsedOn(l), Qty) =
                 Tally(Old, Qty) + Tally(LapsedOn(l), Qty)
        <5>1. Old \in SUBSET Holds /\ LapsedOn(l) \in SUBSET Holds
          BY <3>1
        <5>2. Old \cap LapsedOn(l) = {}
          BY <3>1
        <5> HIDE DEF Old, a, b
        <5> QED
          BY <5>1, <5>2, <4>1, UnitsSplit, ZenonT(30)
      <4>3. HeldUnits(l) = Tally(Old \cup LapsedOn(l), Qty)
        BY <3>1, HeldUnitsType
      <4> QED
        BY <4>2, <4>3
    <3>9. HeldUnits(l)' = a + n
      <4>1. \A k \in Old \cup {h} : hold'[k].quantity = q[k]
        BY <3>1
      <4>2. HeldUnits(l)' = Tally(Old \cup {h}, q)
        BY <3>1, <3>3, <4>1, HeldUnitsNext
      <4>3. Tally(Old \cup {h}, q) =
              Tally(Old, q) + Tally({h}, q)
        BY <3>1, <3>2, <3>7, UnitsSplit
      <4>4. Tally(Old, q) = Tally(Old, Qty)
        BY <3>5, TallySame
      <4>5. Tally({h}, q) = n
        BY <3>6, <3>7, UnitsOfOne
      <4> QED
        BY <4>2, <4>3, <4>4, <4>5
    <3>10. Available(l) = listing[l].quantity + b
      BY <3>1, UnitsAreTallies DEF Available
    <3>11. n \in Nat /\ n <= Available(l)
      BY <1>1, ReservationsAssumption DEF Reserve, Enough
    <3> HIDE DEF a, b
    <3>12. Available(l) - n \in Nat
      BY <1>0, <2>8, <3>8, <3>10, <3>11
    <3>13. listing'[l].quantity = Available(l) - n
      BY <1>0, <1>1, <3>12, TakenType DEF Reserve
    <3>14. /\ b - n \in Int
           /\ listing'[l].quantity = listing[l].quantity + (b - n)
           /\ HeldUnits(l)' = HeldUnits(l) - (b - n)
      BY <1>0, <2>8, <3>8, <3>9, <3>10, <3>11, <3>13
    <3> QED
      BY <2>6, <2>8, <3>14, UnitsMove
  <2> QED
    BY <2>7, <2>8
<1>2. ASSUME NEW h \in Holds, Lapse(h) PROVE Accrues(m)
  <2>1. HeldOn(m)' = HeldOn(m)
    BY <1>0, <1>2, HeldIsRow, HeldNotNoRow DEF Lapse, HeldOn, Held, HoldRow
  <2>2. \A k \in HeldOn(m) : hold'[k].quantity = hold[k].quantity
    BY <1>0, <1>2, HeldIsRow, HeldNotNoRow DEF Lapse, HeldOn, HoldRow
  <2> QED
    BY <1>0, <1>2, <2>1, <2>2, UnitsStay, UnitsMove DEF Lapse
<1>3. ASSUME NEW h \in Holds, NEW s, s # "HELD", Held(h), hold' = Ended(h, s),
             listing' = [listing EXCEPT
                 ![hold[h].listing] = Restocked(listing[hold[h].listing],
                                                hold[h].quantity)],
             UNCHANGED supply, overtaken' = overtaken
      PROVE  Accrues(m)
  <2>1. hold[h].quantity \in Nat /\ hold[h].listing \in Listings
    BY <1>3, HeldIsRow, HeldNotNoRow
  <2>2. HeldUnits(m)' = IF m = hold[h].listing
                        THEN HeldUnits(m) - hold[h].quantity ELSE HeldUnits(m)
    BY <1>3, UnitsEnd
  <2>3. listing'[m].quantity = IF m = hold[h].listing
                               THEN listing[m].quantity + hold[h].quantity
                               ELSE listing[m].quantity
    BY <1>0, <1>3, <2>1, RestockedType
  <2>4. CASE m = hold[h].listing
    BY <1>3, <2>1, <2>2, <2>3, <2>4, UnitsMove
  <2>5. CASE m # hold[h].listing
    BY <1>0, <1>3, <2>2, <2>3, <2>5, UnitsMove
  <2> QED
    BY <2>4, <2>5
<1>4. ASSUME NEW r \in Requests, FinishRelease(r) PROVE Accrues(m)
  <2> DEFINE h == releasing[r]
             l == hold[h].listing
  <2>1. h \in Holds /\ hold[h] # NoRow
    BY <1>4 DEF FinishRelease, RowsExist, StockTypeOK
  <2>2. /\ hold[h] \in HoldRow
        /\ hold[h].quantity \in Nat
        /\ l \in Listings
    BY <2>1, HeldIsRow
  <2>3. /\ hold' = Ended(h, "RELEASED")
        /\ listing' = [listing EXCEPT ![l] = Restocked(listing[l], hold[h].quantity)]
        /\ UNCHANGED supply
        /\ overtaken' = IF Held(h) THEN overtaken ELSE overtaken \cup {h}
    BY <1>4 DEF FinishRelease
  <2>4. CASE Held(h)
    BY <1>3, <2>1, <2>3, <2>4
  <2>5. CASE ~Held(h)
    <3>1. \A k \in Holds : hold'[k].status = "HELD" <=> Held(k)
      BY <1>0, <2>1, <2>2, <2>3, <2>5 DEF Ended, Held, HoldRow
    <3>2. \A k \in Holds : hold[k] # NoRow =>
            /\ hold'[k].listing = hold[k].listing
            /\ hold'[k].quantity = hold[k].quantity
      BY RowsStay
    <3>3. HeldOn(m)' = HeldOn(m)
      <4>1. \A k \in HeldOn(m) : k \in HeldOn(m)'
        BY <3>1, <3>2, HeldNotNoRow DEF HeldOn, Held
      <4>2. \A k \in HeldOn(m)' : k \in HeldOn(m)
        BY <3>1, <3>2, HeldNotNoRow DEF HeldOn, Held
      <4> QED
        BY <4>1, <4>2
    <3>4. HeldUnits(m)' = HeldUnits(m)
      BY <3>2, <3>3, HeldNotNoRow, UnitsStay DEF HeldOn
    <3>5. hold'[h].listing = l /\ h \in overtaken'
      BY <2>1, <2>3, <2>5, <3>2
    <3>6. CASE m = l
      <4>1. listing'[m].quantity = listing[m].quantity + hold[h].quantity
        BY <1>0, <2>2, <2>3, <3>6, RestockedType
      <4>2. listing'[m].quantity + HeldUnits(m)' - supply'[m] =
              listing[m].quantity + HeldUnits(m) - supply[m] + hold[h].quantity
        BY <1>0, <2>2, <2>3, <3>4, <4>1
      <4> QED
        BY <2>2, <3>5, <3>6, <4>2 DEF Accrues
    <3>7. CASE m # l
      <4>1. listing'[m] = listing[m]
        BY <1>0, <2>3, <3>7
      <4> QED
        BY <1>0, <2>3, <3>4, <4>1, UnitsMove
    <3> QED
      BY <3>6, <3>7
  <2> QED
    BY <2>4, <2>5
<1>5. ASSUME NEW h \in Holds, Sweep(h) PROVE Accrues(m)
  <2>1. CASE Held(h)
    <3>1. /\ hold' = Ended(h, "EXPIRED")
          /\ listing' = [listing EXCEPT
                 ![hold[h].listing] = Restocked(listing[hold[h].listing],
                                                hold[h].quantity)]
          /\ UNCHANGED supply /\ overtaken' = overtaken
      BY <1>5, <2>1 DEF Sweep, StillHeld
    <3> QED
      BY <1>3, <2>1, <3>1
  <2>2. CASE ~Held(h)
    <3>1. UNCHANGED <<listing, hold, supply, overtaken>>
      BY <1>5, <2>2 DEF Sweep, StillHeld
    <3> QED
      BY <1>0, <3>1, UnitsStay, UnitsMove DEF HeldOn, Held
  <2> QED
    BY <2>1, <2>2
<1>6. ASSUME NEW l \in Listings, NEW n \in 1..MaxQty, FinishEdit(l, n)
      PROVE  Accrues(m)
  <2>1. UNCHANGED <<hold, overtaken>>
    BY <1>6 DEF FinishEdit
  <2>2. HeldUnits(m)' = HeldUnits(m)
    BY <2>1, UnitsStay DEF HeldOn, Held
  <2>3. CASE m # l
    <3>1. listing'[m] = listing[m] /\ supply'[m] = supply[m]
      BY <1>0, <1>6, <2>3 DEF FinishEdit, StockTypeOK
    <3> QED
      BY <1>0, <2>1, <2>2, <3>1, UnitsMove
  <2>4. CASE m = l
    <3>1. listing'[m].quantity \in Nat
      BY DEF StockTypeOK, ListingRow
    <3>2. supply'[m] = supply[m] + listing'[m].quantity - listing[m].quantity
      BY <1>0, <1>6, <2>4 DEF FinishEdit, StockTypeOK
    <3>3. listing'[m].quantity + HeldUnits(m)' - supply'[m] =
            listing[m].quantity + HeldUnits(m) - supply[m] + 0
      BY <1>0, <2>2, <3>1, <3>2
    <3> QED
      BY <3>3 DEF Accrues
  <2> QED
    BY <2>3, <2>4
<1>7. CASE UNCHANGED <<listing, hold, supply, overtaken>>
  BY <1>0, <1>7, UnitsStay, UnitsMove DEF HeldOn, Held
<1> QED
  BY <1>1, <1>2, <1>4, <1>5, <1>6, <1>7
     DEF StockNext, stockVars, StartRelease, AbortRelease, SweepQuery,
         SweepFails, StartEdit

\* An overtaken release is not forgotten.
LEMMA OvertakenStays ==
    ASSUME [StockNext]_stockVars
    PROVE  overtaken \subseteq overtaken'
  BY DEF StockNext, stockVars, Reserve, Lapse, StartRelease, FinishRelease,
         AbortRelease, SweepQuery, Sweep, SweepFails, StartEdit, FinishEdit

\* NoStockLost and StockConserved, for one listing.
Balance(l) ==
    /\ listing[l].quantity + HeldUnits(l) >= supply[l]
    /\ \/ listing[l].quantity + HeldUnits(l) = supply[l]
       \/ \E h \in overtaken : hold[h].listing = l

\* Every step keeps a listing's balance.
LEMMA BalanceStep ==
    ASSUME StockTypeOK, StockTypeOK', RowsExist, [StockNext]_stockVars,
           NEW m \in Listings, Balance(m)
    PROVE  Balance(m)'
<1>1. PICK c \in Nat :
        /\ listing'[m].quantity + HeldUnits(m)' - supply'[m] =
              listing[m].quantity + HeldUnits(m) - supply[m] + c
        /\ c = 0 \/ \E h \in overtaken' : hold'[h].listing = m
  BY AccountStep DEF Accrues
<1>2. /\ listing[m].quantity \in Nat /\ supply[m] \in Int /\ HeldUnits(m) \in Nat
      /\ listing'[m].quantity \in Nat /\ supply'[m] \in Int
  BY HeldUnitsType DEF StockTypeOK, ListingRow
<1>3. HeldUnits(m)' \in Nat
  BY HeldUnitsAfter
<1>4. \A h \in overtaken : h \in overtaken' /\ hold'[h].listing = hold[h].listing
  BY RowsStay, OvertakenStays DEF RowsExist, StockTypeOK
<1> DEFINE a == HeldUnits(m)
           b == HeldUnits(m)'
<1> HIDE DEF a, b
<1>5. /\ a \in Nat /\ b \in Nat
      /\ listing'[m].quantity + b - supply'[m] = listing[m].quantity + a - supply[m] + c
  BY <1>1, <1>2, <1>3 DEF a, b
<1>6. /\ listing[m].quantity + a >= supply[m]
      /\ \/ listing[m].quantity + a = supply[m]
         \/ \E h \in overtaken : hold[h].listing = m
  BY DEF Balance, a
<1>7. listing'[m].quantity + b >= supply'[m]
  BY <1>2, <1>5, <1>6
<1>8. \/ listing'[m].quantity + b = supply'[m]
      \/ \E h \in overtaken' : hold'[h].listing = m
  <2>1. CASE c # 0
    BY <1>1, <2>1
  <2>2. CASE c = 0 /\ listing[m].quantity + a = supply[m]
    <3> DEFINE x == listing'[m].quantity
               y == supply'[m]
    <3>1. x \in Nat /\ y \in Int /\ b \in Nat
      BY <1>2, <1>5
    <3>2. x + b - y = 0
      BY <1>2, <1>5, <2>2
    <3> HIDE DEF x, y
    <3>3. x + b = y
      BY <3>1, <3>2
    <3> QED
      BY <3>3 DEF x, y
  <2>3. CASE \E h \in overtaken : hold[h].listing = m
    BY <1>4, <2>3
  <2> QED
    BY <1>6, <2>1, <2>2, <2>3
<1> QED
  BY <1>7, <1>8 DEF Balance, b

-----------------------------------------------------------------------------
(***************************************************************************)
(* A hidden listing has a live hold                                        *)
(***************************************************************************)

\* A hidden listing is one whose last unit a live hold has just taken, or was
\* hidden before and keeps its live holds.
StaysHidden(m) ==
    \/ /\ listing'[m].quantity = 0
       /\ \E k \in Holds : hold'[k].status = "HELD" /\ hold'[k].listing = m
    \/ /\ listing[m].status = "RESERVED"
       /\ "quantity" \notin EditKinds => listing'[m].quantity = listing[m].quantity
       /\ \A k \in HeldOn(m) : hold'[k].status = "HELD" /\ hold'[k].listing = m

\* Only Reserve hides a listing, and with the hold that took its last unit; a
\* listing that stays hidden keeps its row, but for a quantity that its seller
\* writes, and its holds.
LEMMA HiddenNext ==
    ASSUME StockTypeOK, RowsExist, [StockNext]_stockVars,
           NEW m \in Listings, listing'[m].status = "RESERVED"
    PROVE  StaysHidden(m)
<1>0. /\ hold \in [Holds -> HoldRow \cup {NoRow}]
      /\ listing \in [Listings -> ListingRow]
  BY DEF StockTypeOK
<1>1. ASSUME listing'[m] = listing[m],
             \A k \in HeldOn(m) : /\ hold'[k].status = "HELD"
                                  /\ hold'[k].listing = m
      PROVE  StaysHidden(m)
  BY <1>1 DEF StaysHidden
<1>2. ASSUME NEW u \in Users, NEW l \in Listings, NEW n \in 1..MaxQty,
             Reserve(u, l, n)
      PROVE  StaysHidden(m)
  <2>1. PICK h \in Holds :
          /\ hold[h] = NoRow
          /\ hold' = [k \in Holds |->
               IF k = h THEN [status |-> "HELD", user |-> u, listing |-> l,
                              quantity |-> n, lapsed |-> FALSE]
               ELSE IF k \in LapsedOn(l) THEN [hold[k] EXCEPT !.status = "EXPIRED"]
               ELSE hold[k]]
    BY <1>2 DEF Reserve
  <2>2. CASE m = l
    <3>1. hold'[h].status = "HELD" /\ hold'[h].listing = l
      BY <2>1
    <3>2. Available(l) - n \in Nat
      <4>1. Available(l) \in Nat /\ n \in Nat /\ n <= Available(l)
        BY <1>2, AvailableType, ReservationsAssumption DEF Reserve, Enough
      <4> QED
        BY <4>1
    <3>3. listing'[m] = Taken(listing[l], Available(l) - n)
      BY <1>0, <1>2, <2>2 DEF Reserve
    <3>4. listing'[m].quantity = 0
      BY <1>0, <3>2, <3>3 DEF Taken, ListingRow
    <3> QED
      BY <2>2, <3>1, <3>4 DEF StaysHidden
  <2>3. CASE m # l
    <3>1. listing'[m] = listing[m]
      BY <1>0, <1>2, <2>3 DEF Reserve
    <3>2. \A k \in HeldOn(m) : k # h /\ k \notin LapsedOn(l)
      BY <2>1, <2>3, HeldNotNoRow DEF HeldOn, LapsedOn
    <3>3. \A k \in HeldOn(m) : hold'[k] = hold[k]
      BY <2>1, <3>2 DEF HeldOn
    <3> QED
      BY <1>1, <3>1, <3>3 DEF HeldOn, Held
  <2> QED
    BY <2>2, <2>3
<1>3. ASSUME NEW h \in Holds, Lapse(h)
      PROVE  StaysHidden(m)
  <2>1. hold[h] \in HoldRow
    BY <1>3, HeldIsRow, HeldNotNoRow DEF Lapse
  <2>2. \A k \in Holds : hold'[k].status = hold[k].status
                      /\ hold'[k].listing = hold[k].listing
    BY <1>0, <1>3, <2>1 DEF Lapse, HoldRow
  <2> QED
    BY <1>1, <1>3, <2>2 DEF Lapse, HeldOn, Held
<1>4. ASSUME NEW h \in Holds, hold[h] \in HoldRow, NEW s, hold' = Ended(h, s),
             listing' = [listing EXCEPT
                 ![hold[h].listing] = Restocked(listing[hold[h].listing],
                                                hold[h].quantity)]
      PROVE  StaysHidden(m)
  <2>1. hold[h].listing \in Listings /\ hold[h].quantity \in Nat
    BY <1>4, ReservationsAssumption DEF HoldRow
  <2>2. Restocked(listing[hold[h].listing], hold[h].quantity).status # "RESERVED"
    <3>1. Restocked(listing[hold[h].listing], hold[h].quantity).status
            = Relisted(listing[hold[h].listing].status)
      BY <1>0, <2>1 DEF Restocked, ListingRow
    <3> QED
      BY <3>1 DEF Relisted
  <2>3. m # hold[h].listing
    BY <1>0, <1>4, <2>1, <2>2
  <2>4. listing'[m] = listing[m]
    BY <1>0, <1>4, <2>1, <2>3
  <2>5. \A k \in HeldOn(m) : hold'[k] = hold[k]
    BY <1>0, <1>4, <2>3 DEF Ended, HeldOn
  <2> QED
    BY <1>1, <2>4, <2>5 DEF HeldOn, Held
<1>5. ASSUME NEW r \in Requests, FinishRelease(r)
      PROVE  StaysHidden(m)
  <2> DEFINE h == releasing[r]
             l == hold[h].listing
  <2>1. h \in Holds /\ hold[h] \in HoldRow
    BY <1>5, HeldIsRow DEF FinishRelease, RowsExist, StockTypeOK
  <2>2. /\ hold' = Ended(h, "RELEASED")
        /\ listing' = [listing EXCEPT ![l] = Restocked(listing[l], hold[h].quantity)]
    BY <1>5 DEF FinishRelease
  <2> QED
    BY <1>4, <2>1, <2>2
<1>6. ASSUME NEW h \in Holds, Sweep(h)
      PROVE  StaysHidden(m)
  <2>1. CASE Held(h)
    <3>1. hold[h] \in HoldRow
      BY <2>1, HeldIsRow, HeldNotNoRow
    <3>2. /\ hold' = Ended(h, "EXPIRED")
          /\ listing' = [listing EXCEPT
                 ![hold[h].listing] = Restocked(listing[hold[h].listing],
                                                hold[h].quantity)]
      BY <1>6, <2>1 DEF Sweep, StillHeld
    <3> QED
      BY <1>4, <3>1, <3>2
  <2>2. CASE ~Held(h)
    BY <1>1, <1>6, <2>2 DEF Sweep, StillHeld, HeldOn, Held
  <2> QED
    BY <2>1, <2>2
<1>7. ASSUME NEW l \in Listings, NEW n \in 1..MaxQty, FinishEdit(l, n)
      PROVE  StaysHidden(m)
  <2>1. hold' = hold /\ editing[l] \in EditKinds
    BY <1>7 DEF FinishEdit, StockTypeOK
  <2>2. EditedRow(listing[l], editing[l], n).status = "RESERVED"
            => listing[l].status = "RESERVED"
    BY <1>0, <2>1, ReservationsAssumption DEF EditedRow, ListingRow
  <2>3. listing[m].status = "RESERVED"
    BY <1>0, <1>7, <2>2 DEF FinishEdit
  <2>4. \A k \in HeldOn(m) : hold'[k].status = "HELD" /\ hold'[k].listing = m
    BY <2>1 DEF HeldOn, Held
  <2>5. editing[l] # "quantity" =>
          EditedRow(listing[l], editing[l], n).quantity = listing[l].quantity
    BY <1>0, <2>1, ReservationsAssumption DEF EditedRow, ListingRow
  <2>6. "quantity" \notin EditKinds => listing'[m].quantity = listing[m].quantity
    BY <1>0, <1>7, <2>1, <2>5 DEF FinishEdit
  <2> QED
    BY <2>3, <2>4, <2>6 DEF StaysHidden
<1>8. CASE UNCHANGED <<listing, hold>>
  BY <1>1, <1>8 DEF HeldOn, Held
<1> QED
  BY <1>2, <1>3, <1>5, <1>6, <1>7, <1>8
     DEF StockNext, stockVars, StartRelease, AbortRelease, SweepQuery,
         SweepFails, StartEdit

\* A hidden listing keeps a live hold.
LEMMA HiddenStep ==
    ASSUME StockTypeOK, RowsExist, HiddenOnlyWhileHeld, [StockNext]_stockVars
    PROVE  HiddenOnlyWhileHeld'
<1> SUFFICES ASSUME NEW m \in Listings, listing'[m].status = "RESERVED"
             PROVE  \E k \in Holds : /\ hold'[k].status = "HELD"
                                     /\ hold'[k].listing = m
  BY DEF HiddenOnlyWhileHeld, HeldOn, Held
<1>1. StaysHidden(m)
  BY HiddenNext
<1> QED
  BY <1>1 DEF StaysHidden, HiddenOnlyWhileHeld, HeldOn

-----------------------------------------------------------------------------
(***************************************************************************)
(* The theorems                                                            *)
(***************************************************************************)

\* What every reachable state has, strong enough to be kept by every step.
IInv ==
    /\ StockTypeOK
    /\ RowsExist
    /\ OneLiveHold
    /\ HiddenOnlyWhileHeld
    /\ \A l \in Listings : Balance(l)

\* The invariant holds at the start.
LEMMA InitIInv ==
    ASSUME StockInit
    PROVE  IInv
<1>0. \A n \in 1..MaxQty : n \in Nat
  BY ReservationsAssumption
<1>1. StockTypeOK
  <2>1. listing \in [Listings -> ListingRow]
    <3>1. \A row \in [quantity : 1..MaxQty, status : {"DRAFT", "ACTIVE"},
                      deleted : {FALSE}] : row \in ListingRow
      BY <1>0 DEF ListingRow, ListingStatus
    <3> QED
      BY <3>1 DEF StockInit
  <2>2. supply \in [Listings -> Int]
    BY <2>1 DEF StockInit, ListingRow
  <2> QED
    BY <2>1, <2>2 DEF StockInit, StockTypeOK
<1>2. \A h \in Holds : hold[h] = NoRow /\ ~Held(h)
  BY DEF StockInit, Held, NoRow
<1>3. RowsExist
  BY DEF StockInit, RowsExist
<1>4. OneLiveHold /\ HiddenOnlyWhileHeld
  BY <1>2 DEF StockInit, OneLiveHold, HiddenOnlyWhileHeld
<1>5. ASSUME NEW l \in Listings PROVE Balance(l)
  <2>1. HeldOn(l) = {}
    BY <1>2 DEF HeldOn
  <2>2. Tally({}, [h \in {} |-> hold[h].quantity]) = 0
    BY TallyEmpty
  <2>3. HeldUnits(l) = 0
    BY <2>1, <2>2 DEF HeldUnits, Units
  <2>4. supply[l] = listing[l].quantity /\ listing[l].quantity \in Nat
    BY <1>1 DEF StockInit, StockTypeOK, ListingRow
  <2> QED
    BY <2>3, <2>4 DEF Balance
<1> QED
  BY <1>1, <1>3, <1>4, <1>5 DEF IInv

\* Every step keeps the invariant.
LEMMA StepIInv ==
    ASSUME IInv, [StockNext]_stockVars
    PROVE  IInv'
<1>1. StockTypeOK /\ RowsExist /\ OneLiveHold /\ HiddenOnlyWhileHeld
  BY DEF IInv
<1>2. StockTypeOK'
  BY <1>1, TypeStep
<1>3. RowsExist' /\ OneLiveHold' /\ HiddenOnlyWhileHeld'
  BY <1>1, RowsExistStep, OneLiveHoldStep, HiddenStep
<1>4. \A l \in Listings : Balance(l)'
  BY <1>1, <1>2, BalanceStep DEF IInv
<1> QED
  BY <1>2, <1>3, <1>4 DEF IInv

\* The invariant holds throughout.
LEMMA AlwaysIInv == StockSpec => []IInv
  BY InitIInv, StepIInv, PTL DEF StockSpec

\* Every row keeps the shape the schema gives it, and stock is never negative,
\* for any number of listings, buyers, holds and requests.
THEOREM StockTypeCorrect == StockSpec => []StockTypeOK
<1>1. IInv => StockTypeOK
  BY DEF IInv
<1> QED
  BY <1>1, AlwaysIInv, PTL

\* A buyer never has two live holds of one listing: reserveListing's check is
\* made under the listing's lock, and nothing else makes a hold HELD.
THEOREM OneLiveHoldAlways == StockSpec => []OneLiveHold
<1>1. IInv => OneLiveHold
  BY DEF IInv
<1> QED
  BY <1>1, AlwaysIInv, PTL

\* No unit is ever lost: every path that ends a hold gives its units back.
THEOREM NoStockLostAlways == StockSpec => []NoStockLost
<1>1. IInv => NoStockLost
  BY DEF IInv, Balance, NoStockLost
<1> QED
  BY <1>1, AlwaysIInv, PTL

\* No unit is made up, but by releaseReservation when the hold it read as
\* HELD ended before it got the lock.
THEOREM StockConservedAlways == StockSpec => []StockConserved
<1>1. IInv => StockConserved
  BY DEF IInv, Balance, StockConserved
<1> QED
  BY <1>1, AlwaysIInv, PTL

\* A RESERVED listing always has the hold that will put it back.
THEOREM HiddenOnlyWhileHeldAlways == StockSpec => []HiddenOnlyWhileHeld
<1>1. IInv => HiddenOnlyWhileHeld
  BY DEF IInv
<1> QED
  BY <1>1, AlwaysIInv, PTL

\* Overselling has one cause: where no buyer gives a hold up by hand, the
\* row lock alone keeps every listing's books exact.
THEOREM ExactWithoutReleases ==
    ASSUME Requests = {}
    PROVE  StockSpec => []NeverOversold
<1> DEFINE Exact == IInv /\ overtaken = {}
<1>1. StockInit => Exact
  BY InitIInv DEF StockInit
<1>2. Exact /\ [StockNext]_stockVars => Exact'
  <2> SUFFICES ASSUME Exact, [StockNext]_stockVars PROVE Exact'
    OBVIOUS
  <2>1. IInv'
    BY StepIInv
  <2>2. overtaken' = overtaken
    BY DEF StockNext, stockVars, Reserve, Lapse, StartRelease, FinishRelease,
           AbortRelease, SweepQuery, Sweep, SweepFails, StartEdit, FinishEdit
  <2> QED
    BY <2>1, <2>2
<1>3. Exact => NeverOversold
  BY DEF IInv, Balance, NeverOversold
<1> QED
  BY <1>1, <1>2, <1>3, PTL DEF StockSpec

-----------------------------------------------------------------------------
(***************************************************************************)
(* What workers are about to do to an order.                               *)
(***************************************************************************)
Paying(w, o) == worker[w].task \in {"confirm", "unclaim"} /\ worker[w].order = o
Asking(w, o) == worker[w].task \in {"ask", "cancelIntent"} /\ worker[w].order = o
Crediting(w, o) == worker[w].task \in {"readPaid", "writePaid"} /\ worker[w].order = o
Refusing(w, o) ==
    /\ worker[w].task \in {"readRelease", "writeRelease"}
    /\ worker[w].order = o /\ worker[w].to = "FAILED"
Telling(w, o) == worker[w].task = "tell" /\ worker[w].order = o

\* A release ends an order as FAILED or CANCELLED, and as nothing else.
Misending(w, o) ==
    /\ worker[w].task \in {"readRelease", "writeRelease"}
    /\ worker[w].order = o /\ worker[w].to \notin {"FAILED", "CANCELLED"}

PayTypeOK ==
    /\ order \in [Orders -> OrderRow \cup {NoOrder}]
    /\ intent \in [Orders -> IntentStatus]
    /\ events \in SUBSET (Orders \X {"succeeded", "failed"})
    /\ worker \in [Workers -> Job \cup {Idle}]
    /\ told \in [Orders -> Nat]
    /\ resettled \in SUBSET Orders
    /\ strayed \in SUBSET Orders

\* An intent, an event and a worker are of an order that was made, and what
\* has to do with its payment is of one that has an intent.
RowsAreThere(o) ==
    /\ intent[o] # "none" => order[o] # NoOrder
    /\ order[o].status = "PROCESSING" => intent[o] # "none"
    /\ intent[o] = "lost" => o \in strayed
    /\ <<o, "succeeded">> \in events \/ <<o, "failed">> \in events => intent[o] # "none"
    /\ \A w \in Workers :
        /\ worker[w].task # "idle" /\ worker[w].order = o => order[o] # NoOrder
        /\ Paying(w, o) \/ Asking(w, o) => intent[o] # "none"
        /\ ~Misending(w, o)

\* Who says that an order was paid for was told so by the provider.
MoneyTaken(o) == intent[o] \in {"succeeded", "lost"}
PaidIsTaken(o) ==
    /\ order[o].status = "PAID" \/ <<o, "succeeded">> \in events => MoneyTaken(o)
    /\ \A w \in Workers : Crediting(w, o) => MoneyTaken(o)

\* An order that was claimed, and whose claimant is done with the provider.
PastPaying(o) ==
    order[o].status # "PENDING_PAYMENT" /\ \A w \in Workers : ~Paying(w, o)
FailedSaid(o) ==
    \/ order[o].status = "FAILED" \/ <<o, "failed">> \in events
    \/ \E w \in Workers : Refusing(w, o)
Refused(o) == intent[o] # "succeeded" /\ (intent[o] = "canceled" \/ PastPaying(o))

\* An order whose intent the program alone moved goes through payment one
\* way: one claimant, whose answer everybody else waits for, and none after.
OneWay(o) ==
    /\ \A v, w \in Workers : Paying(v, o) /\ Paying(w, o) => v = w
    /\ \A w \in Workers : Paying(w, o) => order[o].status # "PENDING_PAYMENT"
    /\ intent[o] = "succeeded" => PastPaying(o)
    /\ FailedSaid(o) => Refused(o)
    /\ order[o].status = "PROCESSING" /\ order[o].idle => PastPaying(o)
    /\ \A w \in Workers : Asking(w, o) => PastPaying(o)

\* The sellers hear of an order from the one worker that settled it.
ToldRight(o) ==
    /\ told[o] <= 1
    /\ order[o] = NoOrder \/ Committed(o) =>
          told[o] = 0 /\ \A w \in Workers : ~Telling(w, o)
    /\ \A w \in Workers : Telling(w, o) =>
          told[o] = 0 /\ \A v \in Workers : Telling(v, o) => v = w

PayInv ==
    /\ PayTypeOK
    /\ \A o \in Orders : RowsAreThere(o) /\ PaidIsTaken(o)
    /\ \A o \in Orders \ strayed : OneWay(o)
    /\ \A o \in Orders \ resettled : ToldRight(o)

-----------------------------------------------------------------------------
(***************************************************************************)
(* Jobs                                                                    *)
(***************************************************************************)
Ends == {"PAID", "FAILED", "CANCELLED", "PENDING_PAYMENT"}

\* What a worker is sent on to is a job.
LEMMA GoesIsJob ==
    ASSUME NEW task \in Tasks, NEW o \in Orders, NEW to \in Ends
    PROVE  /\ Goes(task, o, to) \in Job
           /\ Goes(task, o, to).task = task
           /\ Goes(task, o, to).order = o
           /\ Goes(task, o, to).to = to
  BY DEF Goes, Job, Ends

\* A worker that is not idle has a job, and an idle one none.
LEMMA BusyHasJob ==
    ASSUME PayTypeOK, NEW w \in Workers, worker[w].task # "idle"
    PROVE  /\ worker[w] \in Job
           /\ worker[w].task \in Tasks
           /\ worker[w].order \in Orders
           /\ worker[w].to \in Ends
  BY DEF PayTypeOK, Job, Idle, Ends

\* An idle worker has none of the tasks.
LEMMA IdleTask == Idle.task = "idle" /\ "idle" \notin Tasks
  BY DEF Idle, Tasks

\* What an order's row is.
LEMMA OrderIsRow ==
    ASSUME PayTypeOK, NEW o \in Orders, order[o] # NoOrder
    PROVE  /\ order[o] \in OrderRow
           /\ order[o].status \in OrderStatus
           /\ order[o].idle \in BOOLEAN
  BY DEF PayTypeOK, OrderRow

\* An order with a status has a row.
LEMMA StatusIsRow ==
    ASSUME NEW o \in Orders, order[o].status \in OrderStatus
    PROVE  order[o] # NoOrder
  BY DEF NoOrder, OrderStatus

\* A change of status, and of the two clocks, leaves a row a row.
LEMMA RowChanges ==
    ASSUME PayTypeOK, NEW o \in Orders, order[o] # NoOrder,
           NEW s \in OrderStatus, NEW b \in BOOLEAN
    PROVE  /\ [order[o] EXCEPT !.status = s, !.idle = b] \in OrderRow
           /\ [order[o] EXCEPT !.status = s, !.idle = b].status = s
           /\ [order[o] EXCEPT !.status = s, !.idle = b].idle = b
           /\ [order[o] EXCEPT !.status = s, !.idle = b].lines = order[o].lines
           /\ [order[o] EXCEPT !.status = s, !.idle = b] # NoOrder
<1>1. order[o] \in OrderRow
  BY OrderIsRow
<1> DEFINE x == [order[o] EXCEPT !.status = s, !.idle = b]
<1>2. x \in OrderRow /\ x.status = s /\ x.idle = b /\ x.lines = order[o].lines
  BY <1>1 DEF OrderRow
<1>3. x # NoOrder
  BY <1>2 DEF NoOrder, OrderStatus
<1> QED
  BY <1>2, <1>3

-----------------------------------------------------------------------------
(***************************************************************************)
(* Steps that only give a worker its next task                             *)
(***************************************************************************)
\* What a worker may be given to do, other than to call the provider's confirm
\* or to tell the sellers.
MayDo(j) ==
    /\ j \in Job \cup {Idle}
    /\ j.task \notin {"confirm", "tell"}
    /\ j.task # "idle" => order[j.order] # NoOrder
    /\ j.task = "unclaim" => j.order \in strayed /\ intent[j.order] # "none"
    /\ j.task \in {"ask", "cancelIntent"} =>
          /\ intent[j.order] # "none"
          /\ j.order \notin strayed => PastPaying(j.order)
    /\ j.task \in {"readPaid", "writePaid"} => MoneyTaken(j.order)
    /\ j.task \in {"readRelease", "writeRelease"} /\ j.to = "FAILED"
            /\ j.order \notin strayed => Refused(j.order)
    /\ j.task \in {"readRelease", "writeRelease"} => j.to \in {"FAILED", "CANCELLED"}

\* A worker that only takes up its next task, and one it may, changes
\* nothing the invariant speaks of.
LEMMA MoveKeeps ==
    ASSUME PayInv, NEW w \in Workers, NEW j, MayDo(j), Does(w, j),
           UNCHANGED <<order, intent, events, told, resettled, strayed>>
    PROVE  PayInv'
<1>1. /\ worker' = [worker EXCEPT ![w] = j]
      /\ j \in Job \cup {Idle}
      /\ worker'[w] = j
      /\ \A v \in Workers : v # w => worker'[v] = worker[v]
  BY DEF Does, MayDo, PayInv, PayTypeOK
<1>2. PayTypeOK'
  BY <1>1 DEF PayInv, PayTypeOK
<1>3. \A v \in Workers, o \in Orders :
        /\ Paying(v, o)' => \/ Paying(v, o)
                            \/ j.task = "unclaim" /\ j.order = o
        /\ Asking(v, o)' => \/ Asking(v, o)
                            \/ j.task \in {"ask", "cancelIntent"} /\ j.order = o
        /\ Crediting(v, o)' => \/ Crediting(v, o)
                               \/ j.task \in {"readPaid", "writePaid"} /\ j.order = o
        /\ Refusing(v, o)' => \/ Refusing(v, o)
                              \/ /\ j.task \in {"readRelease", "writeRelease"}
                                 /\ j.to = "FAILED" /\ j.order = o
        /\ Telling(v, o)' => Telling(v, o)
        /\ Misending(v, o)' => Misending(v, o)
  BY <1>1 DEF Paying, Asking, Crediting, Refusing, Telling, Misending, MayDo
<1>4. ASSUME NEW o \in Orders PROVE RowsAreThere(o)' /\ PaidIsTaken(o)'
  <2>1. RowsAreThere(o) /\ PaidIsTaken(o)
    BY DEF PayInv
  <2>2. RowsAreThere(o)'
    BY <1>1, <1>3, <2>1 DEF RowsAreThere, MayDo
  <2>3. PaidIsTaken(o)'
    BY <1>3, <2>1 DEF PaidIsTaken, MayDo, MoneyTaken
  <2> QED
    BY <2>2, <2>3
<1>5. ASSUME NEW o \in Orders, o \notin strayed PROVE OneWay(o)'
  <2>1. OneWay(o)
    BY <1>5 DEF PayInv
  <2>2. \A v \in Workers : Paying(v, o)' => Paying(v, o)
    BY <1>3, <1>5 DEF MayDo
  <2>3. PastPaying(o) => PastPaying(o)'
    BY <2>2 DEF PastPaying
  <2>4. Refused(o) => Refused(o)'
    BY <2>3 DEF Refused
  <2>5. FailedSaid(o)' => Refused(o)
    BY <1>3, <1>5, <2>1 DEF FailedSaid, OneWay, MayDo
  <2>6. \A v \in Workers : Asking(v, o)' => PastPaying(o)
    BY <1>3, <1>5, <2>1 DEF OneWay, MayDo
  <2> QED
    BY <2>1, <2>2, <2>3, <2>4, <2>5, <2>6 DEF OneWay
<1>6. ASSUME NEW o \in Orders, o \notin resettled PROVE ToldRight(o)'
  BY <1>3, <1>6 DEF PayInv, ToldRight, Committed
<1> QED
  BY <1>2, <1>4, <1>5, <1>6 DEF PayInv

\* Nor do the handlers that read an order before they act, or a crash.
LEMMA ReadsKeep ==
    ASSUME PayInv, NEW w \in Workers, NEW o \in Orders,
           \/ Cancel(w, o) \/ Abandon(w, o) \/ Reconcile(w, o)
           \/ \E outcome \in {"succeeded", "failed"} : Webhook(w, o, outcome)
           \/ ReadPaid(w) \/ ReadRelease(w) \/ Crash(w)
    PROVE  PayInv'
<1>0. PayTypeOK /\ RowsAreThere(o) /\ PaidIsTaken(o)
  BY DEF PayInv
<1>1. UNCHANGED <<order, intent, events, told, resettled, strayed>>
  BY DEF Cancel, Abandon, Reconcile, Webhook, ReadPaid, ReadRelease, Crash
<1>2. MayDo(Idle)
  BY IdleTask DEF MayDo
<1>3. \A j : MayDo(j) /\ Does(w, j) => PayInv'
  BY <1>1, MoveKeeps
<1>4. order[o].status \in OrderStatus => order[o] # NoOrder
  BY StatusIsRow
<1>5. ASSUME Cancel(w, o) \/ Abandon(w, o)
      PROVE  PayInv'
  <2> DEFINE j == Goes("readRelease", o, "CANCELLED")
  <2>1. j \in Job /\ j.task = "readRelease" /\ j.order = o /\ j.to = "CANCELLED"
    BY GoesIsJob DEF Tasks, Ends
  <2>2. order[o] # NoOrder
    BY <1>4, <1>5 DEF Cancel, Abandon, OrderStatus
  <2> HIDE DEF j
  <2>3. MayDo(j)
    BY <2>1, <2>2 DEF MayDo
  <2>4. Does(w, j)
    BY <1>5 DEF Cancel, Abandon, j
  <2> QED
    BY <1>3, <2>3, <2>4
<1>6. ASSUME Reconcile(w, o) PROVE PayInv'
  <2> DEFINE to == IF order[o].aged THEN "CANCELLED" ELSE "PAID"
             j == Goes("ask", o, to)
  <2>1. to \in Ends /\ Does(w, j)
    BY <1>6 DEF Reconcile, Ends
  <2>2. j \in Job /\ j.task = "ask" /\ j.order = o
    BY <2>1, GoesIsJob DEF Tasks
  <2>3. order[o].status = "PROCESSING" /\ order[o].idle
    BY <1>6 DEF Reconcile
  <2>4. order[o] # NoOrder /\ intent[o] # "none"
    BY <1>0, <1>4, <2>3 DEF OrderStatus, RowsAreThere
  <2>5. o \notin strayed => PastPaying(o)
    BY <2>3 DEF PayInv, OneWay
  <2> HIDE DEF j, to
  <2>6. MayDo(j)
    BY <2>2, <2>4, <2>5 DEF MayDo
  <2> QED
    BY <1>3, <2>1, <2>6
<1>7. ASSUME NEW outcome \in {"succeeded", "failed"}, Webhook(w, o, outcome)
      PROVE  PayInv'
  <2>1. <<o, outcome>> \in events
    BY <1>7 DEF Webhook
  <2>2. order[o] # NoOrder
    BY <1>0, <2>1 DEF RowsAreThere
  <2>3. CASE outcome = "succeeded"
    <3> DEFINE j == Goes("readPaid", o, "PAID")
    <3>1. j \in Job /\ j.task = "readPaid" /\ j.order = o
      BY GoesIsJob DEF Tasks, Ends
    <3>2. Does(w, j)
      BY <1>7, <2>3 DEF Webhook
    <3>3. MoneyTaken(o)
      BY <1>0, <2>1, <2>3 DEF PaidIsTaken
    <3> HIDE DEF j
    <3>4. MayDo(j)
      BY <2>2, <3>1, <3>3 DEF MayDo
    <3> QED
      BY <1>3, <3>2, <3>4
  <2>4. CASE outcome = "failed"
    <3> DEFINE j == Goes("readRelease", o, "FAILED")
    <3>1. j \in Job /\ j.task = "readRelease" /\ j.order = o /\ j.to = "FAILED"
      BY GoesIsJob DEF Tasks, Ends
    <3>2. Does(w, j)
      BY <1>7, <2>4 DEF Webhook
    <3>3. o \notin strayed => Refused(o)
      BY <2>1, <2>4 DEF PayInv, OneWay, FailedSaid
    <3> HIDE DEF j
    <3>4. MayDo(j)
      BY <2>2, <3>1, <3>3 DEF MayDo
    <3> QED
      BY <1>3, <3>2, <3>4
  <2> QED
    BY <2>3, <2>4
<1> DEFINE p == worker[w].order
<1>8. ASSUME ReadPaid(w) PROVE PayInv'
  <2>1. worker[w].task = "readPaid" /\ p \in Orders
    BY <1>0, <1>8, BusyHasJob DEF ReadPaid
  <2> DEFINE j == Goes("writePaid", p, "PAID")
  <2>2. j \in Job /\ j.task = "writePaid" /\ j.order = p
    BY <2>1, GoesIsJob DEF Tasks, Ends
  <2>3. Does(w, j) \/ Does(w, Idle)
    BY <1>8 DEF ReadPaid, WhenSettled
  <2>4. order[p] # NoOrder /\ MoneyTaken(p)
    BY <2>1 DEF PayInv, RowsAreThere, PaidIsTaken, Crediting
  <2> HIDE DEF j, p
  <2>5. MayDo(j)
    BY <2>2, <2>4 DEF MayDo
  <2> QED
    BY <1>2, <1>3, <2>3, <2>5
<1>9. ASSUME ReadRelease(w) PROVE PayInv'
  <2>1. worker[w].task = "readRelease" /\ p \in Orders /\ worker[w].to \in Ends
    BY <1>0, <1>9, BusyHasJob DEF ReadRelease
  <2> DEFINE j == Goes("writeRelease", p, worker[w].to)
  <2>2. j \in Job /\ j.task = "writeRelease" /\ j.order = p /\ j.to = worker[w].to
    BY <2>1, GoesIsJob DEF Tasks
  <2>3. Does(w, j) \/ Does(w, Idle)
    BY <1>9 DEF ReadRelease
  <2>4. order[p] # NoOrder
    BY <2>1 DEF PayInv, RowsAreThere
  <2>5. worker[w].to = "FAILED" /\ p \notin strayed => Refused(p)
    BY <2>1 DEF PayInv, OneWay, FailedSaid, Refusing
  <2>6. worker[w].to \in {"FAILED", "CANCELLED"}
    BY <2>1 DEF PayInv, RowsAreThere, Misending
  <2> HIDE DEF j, p
  <2>7. MayDo(j)
    BY <2>2, <2>4, <2>5, <2>6 DEF MayDo
  <2> QED
    BY <1>2, <1>3, <2>3, <2>7
<1>10. ASSUME Crash(w) PROVE PayInv'
  BY <1>2, <1>3, <1>10 DEF Crash
<1> QED
  BY <1>5, <1>6, <1>7, <1>8, <1>9, <1>10

\* Who asks the provider acts on an order whose claimant has its answer.
LEMMA AskKeeps ==
    ASSUME PayInv, NEW w \in Workers, Ask(w)
    PROVE  PayInv'
<1> DEFINE o == worker[w].order
           j == AfterAsk(o, worker[w].to)
<1>1. worker[w].task = "ask" /\ o \in Orders /\ worker[w].to \in Ends
  BY BusyHasJob DEF Ask, PayInv
<1>2. Does(w, j) /\ UNCHANGED <<order, intent, events, told, resettled, strayed>>
  BY DEF Ask
<1>3. order[o] # NoOrder /\ intent[o] # "none" /\ intent[o] \in IntentStatus
      /\ (intent[o] = "lost" => o \in strayed)
  BY <1>1 DEF PayInv, RowsAreThere, Asking, PayTypeOK
<1>4. o \notin strayed => PastPaying(o)
  BY <1>1 DEF PayInv, OneWay, Asking
<1>5. CASE intent[o] = "lost"
  <2> DEFINE k == Goes("unclaim", o, "PENDING_PAYMENT")
  <2>1. j = k
    BY <1>5 DEF AfterAsk, Outcome
  <2>2. k \in Job /\ k.task = "unclaim" /\ k.order = o
    BY <1>1, GoesIsJob DEF Tasks, Ends
  <2> HIDE DEF k, j, o
  <2>3. MayDo(j)
    BY <1>3, <1>5, <2>1, <2>2 DEF MayDo
  <2> QED
    BY <1>2, <2>3, MoveKeeps
<1>6. CASE intent[o] = "succeeded"
  <2> DEFINE k == Goes("readPaid", o, "PAID")
  <2>1. j = k
    BY <1>6 DEF AfterAsk, Outcome
  <2>2. k \in Job /\ k.task = "readPaid" /\ k.order = o
    BY <1>1, GoesIsJob DEF Tasks, Ends
  <2> HIDE DEF k, j, o
  <2>3. MayDo(j)
    BY <1>3, <1>6, <2>1, <2>2 DEF MayDo, MoneyTaken
  <2> QED
    BY <1>2, <2>3, MoveKeeps
<1>7. CASE intent[o] = "pending"
  <2> DEFINE k == Goes("cancelIntent", o, worker[w].to)
  <2>1. j = k \/ j = Idle
    BY <1>7 DEF AfterAsk, Outcome
  <2>2. k \in Job /\ k.task = "cancelIntent" /\ k.order = o
    BY <1>1, GoesIsJob DEF Tasks
  <2> HIDE DEF k, j, o
  <2>3. MayDo(j)
    BY <1>3, <1>4, <2>1, <2>2, IdleTask DEF MayDo
  <2> QED
    BY <1>2, <2>3, MoveKeeps
<1>8. CASE intent[o] \in {"confirmable", "canceled"}
  <2> DEFINE k == Goes("readRelease", o, "FAILED")
  <2>1. j = k
    BY <1>8 DEF AfterAsk, Outcome
  <2>2. k \in Job /\ k.task = "readRelease" /\ k.order = o /\ k.to = "FAILED"
    BY <1>1, GoesIsJob DEF Tasks, Ends
  <2>3. o \notin strayed => Refused(o)
    BY <1>4, <1>8 DEF Refused
  <2> HIDE DEF k, j, o
  <2>4. MayDo(j)
    BY <1>3, <2>1, <2>2, <2>3 DEF MayDo
  <2> QED
    BY <1>2, <2>4, MoveKeeps
<1> QED
  BY <1>3, <1>5, <1>6, <1>7, <1>8 DEF IntentStatus

-----------------------------------------------------------------------------
(***************************************************************************)
(* Steps that change one order                                             *)
(***************************************************************************)
\* A step of one order's, and of a worker that deals with it, leaves the others
\* as they were.
LEMMA OtherOrders ==
    ASSUME PayInv, NEW p \in Orders, NEW o \in Orders, o # p,
           order'[o] = order[o], intent'[o] = intent[o], told'[o] = told[o],
           \A e \in {"succeeded", "failed"} :
              <<o, e>> \in events' => <<o, e>> \in events,
           \A v \in Workers : \/ worker'[v] = worker[v] \/ worker'[v] = Idle
                              \/ worker'[v].order = p,
           strayed \subseteq strayed', resettled \subseteq resettled'
    PROVE  /\ RowsAreThere(o)' /\ PaidIsTaken(o)'
           /\ o \notin strayed' => OneWay(o)'
           /\ o \notin resettled' => ToldRight(o)'
<1>1. \A v \in Workers :
        /\ Paying(v, o)' => Paying(v, o)
        /\ Asking(v, o)' => Asking(v, o)
        /\ Crediting(v, o)' => Crediting(v, o)
        /\ Refusing(v, o)' => Refusing(v, o)
        /\ Telling(v, o)' => Telling(v, o)
        /\ Misending(v, o)' => Misending(v, o)
        /\ worker'[v].task # "idle" /\ worker'[v].order = o =>
              worker[v].task # "idle" /\ worker[v].order = o
  BY IdleTask DEF Paying, Asking, Crediting, Refusing, Telling, Misending, Tasks
<1>2. RowsAreThere(o) /\ PaidIsTaken(o)
  BY DEF PayInv
<1>3. RowsAreThere(o)'
  BY <1>1, <1>2 DEF RowsAreThere
<1>4. PaidIsTaken(o)'
  BY <1>1, <1>2 DEF PaidIsTaken, MoneyTaken
<1>5. ASSUME o \notin strayed' PROVE OneWay(o)'
  <2>1. OneWay(o)
    BY <1>5 DEF PayInv
  <2>2. PastPaying(o) => PastPaying(o)'
    BY <1>1 DEF PastPaying
  <2>3. Refused(o) => Refused(o)'
    BY <2>2 DEF Refused
  <2>4. FailedSaid(o)' => FailedSaid(o)
    BY <1>1 DEF FailedSaid
  <2> QED
    BY <1>1, <2>1, <2>2, <2>3, <2>4 DEF OneWay
<1>6. ASSUME o \notin resettled' PROVE ToldRight(o)'
  BY <1>1, <1>6 DEF PayInv, ToldRight, Committed
<1> QED
  BY <1>3, <1>4, <1>5, <1>6

\* A step that touches one order leaves the invariant of the others alone.
LEMMA OneOrderKeeps ==
    ASSUME PayInv, NEW p \in Orders, PayTypeOK',
           \A o \in Orders : o # p =>
              /\ order'[o] = order[o] /\ intent'[o] = intent[o] /\ told'[o] = told[o]
              /\ \A e \in {"succeeded", "failed"} :
                    <<o, e>> \in events' => <<o, e>> \in events,
           \A v \in Workers : \/ worker'[v] = worker[v] \/ worker'[v] = Idle
                              \/ worker'[v].order = p,
           strayed \subseteq strayed', resettled \subseteq resettled',
           RowsAreThere(p)', PaidIsTaken(p)',
           p \notin strayed' => OneWay(p)',
           p \notin resettled' => ToldRight(p)'
    PROVE  PayInv'
<1>1. ASSUME NEW o \in Orders
      PROVE  /\ RowsAreThere(o)' /\ PaidIsTaken(o)'
             /\ o \notin strayed' => OneWay(o)'
             /\ o \notin resettled' => ToldRight(o)'
  <2>1. CASE o = p
    BY <2>1
  <2>2. CASE o # p
    BY <2>2, OtherOrders
  <2> QED
    BY <2>1, <2>2
<1> QED
  BY <1>1 DEF PayInv

\* POST /orders/:id/pay claims the order for its caller alone.
LEMMA PayKeeps ==
    ASSUME PayInv, NEW w \in Workers, NEW o \in Orders, Pay(w, o)
    PROVE  PayInv'
<1> DEFINE j == Goes("confirm", o, "PAID")
           row == [order[o] EXCEPT !.status = "PROCESSING", !.idle = FALSE]
<1>0. PayTypeOK /\ RowsAreThere(o) /\ PaidIsTaken(o)
      /\ (o \notin strayed => OneWay(o)) /\ (o \notin resettled => ToldRight(o))
  BY DEF PayInv
<1>1. j \in Job /\ j.task = "confirm" /\ j.order = o
  BY GoesIsJob DEF Tasks, Ends
<1>2. order[o].status = "PENDING_PAYMENT" /\ intent[o] # "none" /\ worker[w] = Idle
  BY DEF Pay, Claimable
<1>3. order[o] # NoOrder
  BY <1>2, StatusIsRow DEF OrderStatus
<1>4. row \in OrderRow /\ row.status = "PROCESSING" /\ row.idle = FALSE /\ row # NoOrder
  BY <1>0, <1>3, RowChanges DEF OrderStatus
<1>5. order' = [order EXCEPT ![o] = row]
  BY <1>0 DEF Pay, PayTypeOK
<1>6. worker' = [worker EXCEPT ![w] = j]
  BY DEF Pay, Does
<1>7. UNCHANGED <<intent, events, told, resettled, strayed>>
  BY DEF Pay
<1> HIDE DEF j, row
<1>8. PayTypeOK'
  BY <1>0, <1>1, <1>4, <1>5, <1>6, <1>7 DEF PayTypeOK
<1>9. /\ order'[o] = row /\ \A p \in Orders : p # o => order'[p] = order[p]
      /\ worker'[w] = j /\ \A v \in Workers : v # w => worker'[v] = worker[v]
  BY <1>0, <1>5, <1>6 DEF PayTypeOK
<1>10. /\ \A v \in Workers : Paying(v, o)' <=> Paying(v, o) \/ v = w
       /\ \A v \in Workers : Asking(v, o)' => Asking(v, o)
       /\ \A v \in Workers : Crediting(v, o)' => Crediting(v, o)
       /\ \A v \in Workers : Refusing(v, o)' => Refusing(v, o)
       /\ \A v \in Workers : Telling(v, o)' => Telling(v, o)
       /\ \A v \in Workers : Misending(v, o)' => Misending(v, o)
  BY <1>1, <1>2, <1>9, IdleTask
     DEF Paying, Asking, Crediting, Refusing, Telling, Misending, Tasks
<1>11. RowsAreThere(o)' /\ PaidIsTaken(o)'
  BY <1>0, <1>1, <1>2, <1>4, <1>7, <1>9, <1>10
     DEF RowsAreThere, PaidIsTaken, MoneyTaken
<1>12. ASSUME o \notin strayed PROVE OneWay(o)'
  <2>1. ~PastPaying(o) /\ \A v \in Workers : ~Paying(v, o)
    BY <1>0, <1>2, <1>12 DEF OneWay, PastPaying
  <2>2. \A v \in Workers : ~Asking(v, o)
    BY <1>0, <1>12, <2>1 DEF OneWay
  <2>3. intent[o] # "succeeded" /\ (FailedSaid(o) => intent[o] = "canceled")
    BY <1>0, <1>12, <2>1 DEF OneWay, Refused
  <2>4. FailedSaid(o)' => FailedSaid(o)
    BY <1>4, <1>7, <1>9, <1>10 DEF FailedSaid
  <2> QED
    BY <1>4, <1>7, <1>9, <1>10, <2>1, <2>2, <2>3, <2>4 DEF OneWay, Refused
<1>13. ASSUME o \notin resettled PROVE ToldRight(o)'
  BY <1>0, <1>2, <1>4, <1>7, <1>9, <1>10, <1>13 DEF ToldRight, Committed
<1> QED
  BY <1>1, <1>7, <1>8, <1>9, <1>11, <1>12, <1>13, OneOrderKeeps

\* What a worker that is done with one task and given the next changes in what
\* workers are said to do.
LEMMA NextTask ==
    ASSUME PayTypeOK, NEW w \in Workers, NEW j, Does(w, j), NEW o \in Orders
    PROVE  /\ worker' = [worker EXCEPT ![w] = j]
           /\ worker'[w] = j
           /\ \A v \in Workers : v # w =>
                /\ worker'[v] = worker[v]
                /\ Paying(v, o)' <=> Paying(v, o)
                /\ Asking(v, o)' <=> Asking(v, o)
                /\ Crediting(v, o)' <=> Crediting(v, o)
                /\ Refusing(v, o)' <=> Refusing(v, o)
                /\ Telling(v, o)' <=> Telling(v, o)
                /\ Misending(v, o)' <=> Misending(v, o)
           /\ Paying(w, o)' <=> j.task \in {"confirm", "unclaim"} /\ j.order = o
           /\ Asking(w, o)' <=> j.task \in {"ask", "cancelIntent"} /\ j.order = o
           /\ Crediting(w, o)' <=> j.task \in {"readPaid", "writePaid"} /\ j.order = o
           /\ Refusing(w, o)' <=> /\ j.task \in {"readRelease", "writeRelease"}
                                  /\ j.order = o /\ j.to = "FAILED"
           /\ Telling(w, o)' <=> j.task = "tell" /\ j.order = o
           /\ Misending(w, o)' <=> /\ j.task \in {"readRelease", "writeRelease"}
                                   /\ j.order = o
                                   /\ j.to \notin {"FAILED", "CANCELLED"}
<1>1. worker' = [worker EXCEPT ![w] = j]
  BY DEF Does
<1>2. worker'[w] = j /\ \A v \in Workers : v # w => worker'[v] = worker[v]
  BY <1>1 DEF PayTypeOK
<1> QED
  BY <1>1, <1>2 DEF Paying, Asking, Crediting, Refusing, Telling, Misending

\* What the provider answers goes with what it did.
LEMMA ConfirmedRight ==
    ASSUME NEW st \in IntentStatus, NEW r \in Confirmed(st)
    PROVE  /\ r[1] \in IntentStatus
           /\ r[2] \in {"succeeded", "pending", "failed", "refused"}
           /\ r[1] = "none" => st = "none"
           /\ r[1] = "lost" => st = "lost"
           /\ st \in {"succeeded", "lost", "canceled"} => r[1] = st
           /\ r[2] = "succeeded" => r[1] = "succeeded"
           /\ r[2] = "failed" => r[1] # "succeeded"
           /\ r[2] = "refused" => r[1] = st
  BY DEF IntentStatus, Confirmed, Outcome

\* An event is announced only of a payment that has just become what it says.
LEMMA AnnouncedRight ==
    ASSUME NEW from, NEW to
    PROVE  /\ Announced(from, to) \subseteq {"succeeded", "failed"}
           /\ "succeeded" \in Announced(from, to) => to = "succeeded" /\ from # to
           /\ "failed" \in Announced(from, to) => to = "canceled" /\ from # to
  BY DEF Announced

\* The provider's answer to the request that confirms a payment.
LEMMA ConfirmKeeps ==
    ASSUME PayInv, NEW w \in Workers, Confirm(w),
           NEW o \in Orders, o = worker[w].order
    PROVE  PayInv'
<1> DEFINE st == intent[o]
<1>1. worker[w].task = "confirm" /\ Paying(w, o)
  BY DEF Confirm, Paying
<1>2. PayTypeOK /\ RowsAreThere(o) /\ PaidIsTaken(o)
      /\ (o \notin strayed => OneWay(o)) /\ (o \notin resettled => ToldRight(o))
  BY <1>1 DEF PayInv
<1>3. PICK r \in Confirmed(st), heard \in BOOLEAN :
        /\ intent' = [intent EXCEPT ![o] = r[1]]
        /\ events' = events \cup {<<o, e>> : e \in Announced(st, r[1])} \cup
               (IF st = "confirmable" /\ r[2] = "failed" THEN {<<o, "failed">>} ELSE {})
        /\ Does(w, AfterConfirm(o, IF heard THEN r[2] ELSE "unknown"))
  <2> DEFINE Answered(p) == \E r \in Confirmed(intent[p]), heard \in BOOLEAN :
        /\ intent' = [intent EXCEPT ![p] = r[1]]
        /\ events' = events \cup {<<p, e>> : e \in Announced(intent[p], r[1])} \cup
               (IF intent[p] = "confirmable" /\ r[2] = "failed"
                THEN {<<p, "failed">>} ELSE {})
        /\ Does(w, AfterConfirm(p, IF heard THEN r[2] ELSE "unknown"))
  <2>1. Answered(worker[w].order)
    BY DEF Confirm
  <2> HIDE DEF Answered
  <2>2. Answered(o)
    BY <2>1
  <2> QED
    BY <2>2 DEF Answered
<1>4. UNCHANGED <<order, told, resettled, strayed>>
  BY DEF Confirm
<1>5. st \in IntentStatus /\ st # "none"
  BY <1>1, <1>2 DEF PayTypeOK, RowsAreThere
<1> DEFINE answer == IF heard THEN r[2] ELSE "unknown"
           j == AfterConfirm(o, answer)
<1>6. /\ r[1] \in IntentStatus
      /\ answer \in {"succeeded", "pending", "failed", "refused", "unknown"}
      /\ r[1] # "none" /\ (r[1] = "lost" => st = "lost")
      /\ st \in {"succeeded", "lost", "canceled"} => r[1] = st
      /\ answer = "succeeded" => r[1] = "succeeded"
      /\ answer = "failed" => r[1] # "succeeded"
      /\ answer = "refused" => r[1] = st /\ r[2] = "refused"
  BY <1>5, ConfirmedRight
<1>7. /\ <<o, "succeeded">> \in events' =>
            <<o, "succeeded">> \in events \/ r[1] = "succeeded"
      /\ <<o, "failed">> \in events' =>
            \/ <<o, "failed">> \in events
            \/ r[1] # "succeeded" /\ r[2] = "failed"
            \/ r[1] = "canceled"
      /\ \A p \in Orders, e \in {"succeeded", "failed"} : p # o =>
            (<<p, e>> \in events' => <<p, e>> \in events)
      /\ events' \in SUBSET (Orders \X {"succeeded", "failed"})
  <2> HIDE DEF st
  <2>1. r[2] = "failed" => r[1] # "succeeded"
    BY <1>5, ConfirmedRight
  <2> QED
    BY <1>1, <1>2, <1>3, <2>1, AnnouncedRight DEF PayTypeOK
<1>8. /\ j \in Job \cup {Idle}
      /\ j.task \in {"idle", "readPaid", "readRelease", "unclaim"}
      /\ j.task # "idle" => j.order = o
      /\ j.task = "readPaid" => answer = "succeeded"
      /\ j.task = "readRelease" => answer = "failed" /\ j.to = "FAILED"
      /\ j.task = "unclaim" => answer = "refused"
  <2>1. \A task \in Tasks, to \in Ends :
          /\ Goes(task, o, to) \in Job
          /\ Goes(task, o, to).task = task /\ Goes(task, o, to).order = o
          /\ Goes(task, o, to).to = to
    BY <1>1, GoesIsJob
  <2> HIDE DEF answer
  <2> QED
    BY <1>6, <2>1, IdleTask DEF AfterConfirm, Tasks, Ends
<1> HIDE DEF j, answer, st
<1>9. Does(w, j)
  BY <1>3 DEF j, answer
<1>10. /\ worker' = [worker EXCEPT ![w] = j]
       /\ worker'[w] = j
       /\ \A v \in Workers : v # w => worker'[v] = worker[v]
       /\ \A v \in Workers :
            /\ Paying(v, o)' => Paying(v, o) /\ (v = w => j.task = "unclaim")
            /\ Asking(v, o)' => Asking(v, o)
            /\ Crediting(v, o)' => Crediting(v, o) \/ j.task = "readPaid"
            /\ Refusing(v, o)' => Refusing(v, o) \/ j.task = "readRelease"
            /\ Telling(v, o)' => Telling(v, o)
            /\ Misending(v, o)' => Misending(v, o)
  BY <1>1, <1>2, <1>8, <1>9, NextTask
<1>11. /\ intent'[o] = r[1]
       /\ \A p \in Orders : p # o => intent'[p] = intent[p]
       /\ intent' \in [Orders -> IntentStatus]
  BY <1>1, <1>2, <1>3, <1>6 DEF PayTypeOK
<1>12. PayTypeOK'
  BY <1>2, <1>4, <1>7, <1>8, <1>10, <1>11 DEF PayTypeOK
<1>13. RowsAreThere(o)'
  BY <1>1, <1>2, <1>4, <1>5, <1>6, <1>8, <1>10, <1>11 DEF RowsAreThere, st
<1>14. PaidIsTaken(o)'
  BY <1>2, <1>4, <1>6, <1>7, <1>8, <1>10, <1>11 DEF PaidIsTaken, MoneyTaken, st
<1>15. ASSUME o \notin strayed PROVE OneWay(o)'
  <2>1. /\ order[o].status # "PENDING_PAYMENT"
        /\ \A v \in Workers : Paying(v, o) => v = w
        /\ st # "succeeded" /\ (FailedSaid(o) => st = "canceled")
        /\ ~(order[o].status = "PROCESSING" /\ order[o].idle)
        /\ \A v \in Workers : ~Asking(v, o)
    BY <1>1, <1>2, <1>15 DEF OneWay, PastPaying, Refused, st
  <2>2. CASE j.task = "unclaim"
    <3>1. r[1] = st /\ r[2] = "refused"
      BY <1>6, <1>8, <2>2
    <3>2. FailedSaid(o)' => st = "canceled"
      BY <1>4, <1>7, <1>10, <2>1, <2>2, <3>1 DEF FailedSaid
    <3> QED
      BY <1>4, <1>10, <1>11, <2>1, <3>1, <3>2 DEF OneWay, Refused
  <2>3. CASE j.task # "unclaim"
    <3>1. PastPaying(o)' /\ \A v \in Workers : ~Paying(v, o)'
      BY <1>4, <1>10, <2>1, <2>3 DEF PastPaying
    <3>2. FailedSaid(o)' => r[1] # "succeeded"
      BY <1>4, <1>6, <1>7, <1>8, <1>10, <2>1 DEF FailedSaid
    <3> QED
      BY <1>4, <1>10, <1>11, <2>1, <3>1, <3>2 DEF OneWay, Refused
  <2> QED
    BY <2>2, <2>3
<1>16. ASSUME o \notin resettled PROVE ToldRight(o)'
  BY <1>2, <1>4, <1>10, <1>16 DEF ToldRight, Committed
<1>17. \A v \in Workers : \/ worker'[v] = worker[v] \/ worker'[v] = Idle
                           \/ worker'[v].order = o
  BY <1>8, <1>10, IdleTask DEF Job
<1> QED
  BY <1>4, <1>7, <1>11, <1>12, <1>13, <1>14, <1>15, <1>16, <1>17, OneOrderKeeps

\* An order given back is unclaimed: its one claimant is done with it.
LEMMA UnclaimKeeps ==
    ASSUME PayInv, NEW w \in Workers, Unclaim(w),
           NEW o \in Orders, o = worker[w].order
    PROVE  PayInv'
<1> DEFINE row == IF order[o].status = "PROCESSING"
                  THEN [order[o] EXCEPT !.status = "PENDING_PAYMENT", !.idle = FALSE]
                  ELSE order[o]
<1>1. worker[w].task = "unclaim" /\ Paying(w, o)
  BY DEF Unclaim, Paying
<1>2. PayTypeOK /\ RowsAreThere(o) /\ PaidIsTaken(o)
      /\ (o \notin strayed => OneWay(o)) /\ (o \notin resettled => ToldRight(o))
  BY DEF PayInv
<1>3. order[o] # NoOrder
  BY <1>1, <1>2 DEF RowsAreThere
<1>4. /\ row \in OrderRow /\ row # NoOrder
      /\ row = order[o] \/ /\ order[o].status = "PROCESSING"
                           /\ row.status = "PENDING_PAYMENT" /\ row.idle = FALSE
  BY <1>2, <1>3, RowChanges, OrderIsRow DEF OrderStatus
<1>5. order' = [order EXCEPT ![o] = row]
  BY <1>2 DEF Unclaim, PayTypeOK
<1>6. Does(w, Idle) /\ UNCHANGED <<intent, events, told, resettled, strayed>>
  BY DEF Unclaim
<1> HIDE DEF row
<1>7. /\ worker' = [worker EXCEPT ![w] = Idle]
      /\ worker'[w] = Idle
      /\ \A v \in Workers : v # w => worker'[v] = worker[v]
      /\ \A v \in Workers :
           /\ Paying(v, o)' <=> Paying(v, o) /\ v # w
           /\ Asking(v, o)' => Asking(v, o)
           /\ Crediting(v, o)' => Crediting(v, o)
           /\ Refusing(v, o)' => Refusing(v, o)
           /\ Telling(v, o)' => Telling(v, o)
           /\ Misending(v, o)' => Misending(v, o)
  BY <1>2, <1>6, IdleTask, NextTask DEF Tasks
<1>8. order'[o] = row /\ \A p \in Orders : p # o => order'[p] = order[p]
  BY <1>2, <1>5 DEF PayTypeOK
<1>9. PayTypeOK'
  BY <1>2, <1>4, <1>5, <1>6, <1>7 DEF PayTypeOK
<1>10. RowsAreThere(o)'
  BY <1>2, <1>4, <1>6, <1>7, <1>8, IdleTask DEF RowsAreThere
<1>11. PaidIsTaken(o)'
  BY <1>2, <1>4, <1>6, <1>7, <1>8 DEF PaidIsTaken, MoneyTaken
<1>12. ASSUME o \notin strayed PROVE OneWay(o)'
  <2>1. /\ \A v \in Workers : Paying(v, o) => v = w
        /\ intent[o] # "succeeded" /\ (FailedSaid(o) => intent[o] = "canceled")
        /\ order[o].status # "PENDING_PAYMENT"
        /\ ~(order[o].status = "PROCESSING" /\ order[o].idle)
        /\ \A v \in Workers : ~Asking(v, o)
    BY <1>1, <1>2, <1>12 DEF OneWay, PastPaying, Refused
  <2>2. FailedSaid(o)' => FailedSaid(o)
    BY <1>4, <1>6, <1>7, <1>8 DEF FailedSaid
  <2> QED
    BY <1>4, <1>6, <1>7, <1>8, <2>1, <2>2 DEF OneWay, Refused, PastPaying
<1>13. ASSUME o \notin resettled PROVE ToldRight(o)'
  BY <1>2, <1>4, <1>6, <1>7, <1>8, <1>13 DEF ToldRight, Committed
<1> QED
  BY <1>6, <1>7, <1>8, <1>9, <1>10, <1>11, <1>12, <1>13, OneOrderKeeps

\* An intent is cancelled by who found its claimant done, and not if the money
\* went through meanwhile.
LEMMA CancelIntentKeeps ==
    ASSUME PayInv, NEW w \in Workers, CancelIntent(w),
           NEW o \in Orders, o = worker[w].order
    PROVE  PayInv'
<1> DEFINE st == intent[o]
           j == Goes("readRelease", o, "CANCELLED")
<1>1. worker[w].task = "cancelIntent" /\ Asking(w, o)
  BY DEF CancelIntent, Asking
<1>2. PayTypeOK /\ RowsAreThere(o) /\ PaidIsTaken(o)
      /\ (o \notin strayed => OneWay(o)) /\ (o \notin resettled => ToldRight(o))
  BY DEF PayInv
<1>3. st \in IntentStatus /\ st # "none"
  BY <1>1, <1>2 DEF PayTypeOK, RowsAreThere
<1>4. /\ Canceled(st) \in IntentStatus /\ Canceled(st) # "none"
      /\ Canceled(st) = st \/ (st \in {"confirmable", "pending"} /\ Canceled(st) = "canceled")
  BY <1>3 DEF Canceled, IntentStatus
<1>5. /\ intent' = [intent EXCEPT ![o] = Canceled(st)]
      /\ events' = events \cup {<<o, e>> : e \in Announced(st, Canceled(st))}
      /\ UNCHANGED <<order, told, resettled, strayed>>
  <2> DEFINE Cancels(p) ==
        /\ intent' = [intent EXCEPT ![p] = Canceled(intent[p])]
        /\ events' = events \cup {<<p, e>> : e \in Announced(intent[p], Canceled(intent[p]))}
  <2>1. Cancels(worker[w].order)
    BY DEF CancelIntent
  <2> HIDE DEF Cancels
  <2>2. Cancels(o)
    BY <2>1
  <2> QED
    BY <2>2 DEF Cancels, CancelIntent
<1>6. j \in Job /\ j.task = "readRelease" /\ j.order = o /\ j.to = "CANCELLED"
  BY GoesIsJob DEF Tasks, Ends
<1>7. Does(w, j)
  BY DEF CancelIntent
<1> DEFINE new == Canceled(st)
<1> HIDE DEF j, new, st
<1>8. /\ new \in IntentStatus /\ new # "none"
      /\ new = st \/ (st \in {"confirmable", "pending"} /\ new = "canceled")
  BY <1>4 DEF new
<1>9. /\ <<o, "succeeded">> \in events' => <<o, "succeeded">> \in events
      /\ <<o, "failed">> \in events' => <<o, "failed">> \in events \/ new = "canceled"
      /\ \A p \in Orders, e \in {"succeeded", "failed"} : p # o =>
            (<<p, e>> \in events' => <<p, e>> \in events)
      /\ events' \in SUBSET (Orders \X {"succeeded", "failed"})
  BY <1>2, <1>5, <1>8, AnnouncedRight DEF PayTypeOK, new
<1>10. /\ worker' = [worker EXCEPT ![w] = j]
       /\ worker'[w] = j
       /\ \A v \in Workers : v # w => worker'[v] = worker[v]
       /\ \A v \in Workers :
            /\ Paying(v, o)' => Paying(v, o)
            /\ Asking(v, o)' => Asking(v, o)
            /\ Crediting(v, o)' => Crediting(v, o)
            /\ Refusing(v, o)' => Refusing(v, o)
            /\ Telling(v, o)' => Telling(v, o)
            /\ Misending(v, o)' => Misending(v, o)
  BY <1>2, <1>6, <1>7, NextTask
<1>11. /\ intent'[o] = new
       /\ \A p \in Orders : p # o => intent'[p] = intent[p]
       /\ intent' \in [Orders -> IntentStatus]
  BY <1>2, <1>5, <1>8 DEF PayTypeOK, new
<1>12. PayTypeOK'
  BY <1>2, <1>5, <1>6, <1>9, <1>10, <1>11 DEF PayTypeOK
<1>13. order[o] # NoOrder
  BY <1>1, <1>2 DEF RowsAreThere, Asking
<1>14. RowsAreThere(o)'
  BY <1>2, <1>5, <1>6, <1>8, <1>10, <1>11, <1>13 DEF RowsAreThere, st
<1>15. PaidIsTaken(o)'
  BY <1>2, <1>5, <1>8, <1>9, <1>10, <1>11 DEF PaidIsTaken, MoneyTaken, st
<1>16. ASSUME o \notin strayed PROVE OneWay(o)'
  <2>1. PastPaying(o)' /\ \A v \in Workers : ~Paying(v, o)'
    BY <1>1, <1>2, <1>5, <1>10, <1>16 DEF OneWay, PastPaying
  <2>2. FailedSaid(o)' => new # "succeeded"
    BY <1>2, <1>5, <1>8, <1>9, <1>10, <1>16 DEF OneWay, FailedSaid, Refused, st
  <2> QED
    BY <1>11, <2>1, <2>2 DEF OneWay, Refused
<1>17. ASSUME o \notin resettled PROVE ToldRight(o)'
  BY <1>2, <1>5, <1>10, <1>17 DEF ToldRight, Committed
<1> QED
  BY <1>5, <1>6, <1>9, <1>10, <1>11, <1>12, <1>14, <1>15, <1>16, <1>17, OneOrderKeeps

\* The sellers are told by the one who has it to do, and who is then idle.
LEMMA TellKeeps ==
    ASSUME PayInv, NEW w \in Workers, Tell(w),
           NEW o \in Orders, o = worker[w].order
    PROVE  PayInv'
<1>1. worker[w].task = "tell" /\ Telling(w, o)
  BY DEF Tell, Telling
<1>2. PayTypeOK /\ RowsAreThere(o) /\ PaidIsTaken(o)
      /\ (o \notin strayed => OneWay(o)) /\ (o \notin resettled => ToldRight(o))
  BY DEF PayInv
<1>3. Does(w, Idle) /\ UNCHANGED <<order, intent, events, resettled, strayed>>
  BY DEF Tell
<1>4. told' = [told EXCEPT ![o] = told[o] + 1]
  BY DEF Tell
<1>5. told'[o] = told[o] + 1 /\ told[o] \in Nat
      /\ \A p \in Orders : p # o => told'[p] = told[p]
  BY <1>2, <1>4 DEF PayTypeOK
<1>6. /\ worker' = [worker EXCEPT ![w] = Idle]
      /\ worker'[w] = Idle
      /\ \A v \in Workers : v # w => worker'[v] = worker[v]
      /\ \A v \in Workers :
           /\ Paying(v, o)' => Paying(v, o)
           /\ Asking(v, o)' => Asking(v, o)
           /\ Crediting(v, o)' => Crediting(v, o)
           /\ Refusing(v, o)' => Refusing(v, o)
           /\ Telling(v, o)' => Telling(v, o) /\ v # w
           /\ Misending(v, o)' => Misending(v, o)
  BY <1>2, <1>3, IdleTask, NextTask DEF Tasks
<1>7. PayTypeOK'
  BY <1>2, <1>3, <1>4, <1>6 DEF PayTypeOK
<1>8. RowsAreThere(o)'
  BY <1>2, <1>3, <1>6, IdleTask DEF RowsAreThere
<1>9. PaidIsTaken(o)'
  BY <1>2, <1>3, <1>6 DEF PaidIsTaken, MoneyTaken
<1>10. ASSUME o \notin strayed PROVE OneWay(o)'
  <2>1. PastPaying(o) => PastPaying(o)'
    BY <1>3, <1>6 DEF PastPaying
  <2>2. FailedSaid(o)' => FailedSaid(o)
    BY <1>3, <1>6 DEF FailedSaid
  <2> QED
    BY <1>2, <1>3, <1>6, <1>10, <2>1, <2>2 DEF OneWay, Refused
<1>11. ASSUME o \notin resettled PROVE ToldRight(o)'
  <2>1. told[o] = 0 /\ \A v \in Workers : Telling(v, o) => v = w
    BY <1>1, <1>2, <1>11 DEF ToldRight
  <2>2. ~(order[o] = NoOrder \/ Committed(o))
    BY <1>1, <1>2, <1>11 DEF ToldRight
  <2> QED
    BY <1>3, <1>5, <1>6, <2>1, <2>2 DEF ToldRight, Committed
<1> QED
  BY <1>3, <1>5, <1>6, <1>7, <1>8, <1>9, <1>10, <1>11, OneOrderKeeps

\* Who writes that an order is paid was told so; whose intent the program alone
\* moved has been refused by nobody.
LEMMA WritePaidKeeps ==
    ASSUME PayInv, NEW w \in Workers, WritePaid(w),
           NEW o \in Orders, o = worker[w].order
    PROVE  PayInv'
<1> DEFINE row == [order[o] EXCEPT !.status = "PAID", !.idle = FALSE]
           j == Goes("tell", o, "PAID")
<1>1. worker[w].task = "writePaid" /\ Crediting(w, o)
  BY DEF WritePaid, Crediting
<1>2. PayTypeOK /\ RowsAreThere(o) /\ PaidIsTaken(o)
      /\ (o \notin strayed => OneWay(o)) /\ (o \notin resettled => ToldRight(o))
  BY DEF PayInv
<1>3. order[o] # NoOrder /\ MoneyTaken(o)
  BY <1>1, <1>2 DEF RowsAreThere, PaidIsTaken
<1>4. row \in OrderRow /\ row # NoOrder /\ row.status = "PAID" /\ row.idle = FALSE
  BY <1>2, <1>3, RowChanges DEF OrderStatus
<1>5. order' = [order EXCEPT ![o] = row]
  BY <1>2 DEF WritePaid, PayTypeOK
<1>6. Does(w, j) /\ UNCHANGED <<intent, events, told, strayed>>
  BY DEF WritePaid
<1>7. resettled' = IF Committed(o) THEN resettled ELSE resettled \cup {o}
  BY DEF WritePaid
<1>8. j \in Job /\ j.task = "tell" /\ j.order = o
  BY GoesIsJob DEF Tasks, Ends
<1> HIDE DEF row, j
<1>9. /\ worker' = [worker EXCEPT ![w] = j]
      /\ worker'[w] = j
      /\ \A v \in Workers : v # w => worker'[v] = worker[v]
      /\ \A v \in Workers :
           /\ Paying(v, o)' => Paying(v, o)
           /\ Asking(v, o)' => Asking(v, o)
           /\ Crediting(v, o)' => Crediting(v, o)
           /\ Refusing(v, o)' => Refusing(v, o)
           /\ Telling(v, o)' => Telling(v, o) \/ v = w
           /\ Misending(v, o)' => Misending(v, o)
  BY <1>2, <1>6, <1>8, NextTask
<1>10. order'[o] = row /\ \A p \in Orders : p # o => order'[p] = order[p]
  BY <1>2, <1>5 DEF PayTypeOK
<1>11. PayTypeOK'
  BY <1>2, <1>4, <1>5, <1>6, <1>7, <1>8, <1>9 DEF PayTypeOK
<1>12. RowsAreThere(o)'
  BY <1>2, <1>3, <1>4, <1>6, <1>9, <1>10 DEF RowsAreThere
<1>13. PaidIsTaken(o)'
  BY <1>2, <1>3, <1>6, <1>9 DEF PaidIsTaken, MoneyTaken
<1>14. ASSUME o \notin strayed PROVE OneWay(o)'
  <2>1. intent[o] = "succeeded" /\ PastPaying(o) /\ ~FailedSaid(o)
    BY <1>2, <1>3, <1>14 DEF OneWay, MoneyTaken, RowsAreThere, Refused
  <2>2. PastPaying(o)' /\ \A v \in Workers : ~Paying(v, o)'
    BY <1>4, <1>9, <1>10, <2>1 DEF PastPaying
  <2>3. ~FailedSaid(o)'
    BY <1>4, <1>6, <1>9, <1>10, <2>1 DEF FailedSaid
  <2> QED
    BY <2>2, <2>3 DEF OneWay
<1>15. ASSUME o \notin resettled' PROVE ToldRight(o)'
  <2>1. Committed(o) /\ o \notin resettled
    BY <1>7, <1>15
  <2>2. told[o] = 0 /\ \A v \in Workers : ~Telling(v, o)
    BY <1>2, <2>1 DEF ToldRight
  <2> QED
    BY <1>4, <1>6, <1>9, <1>10, <2>2 DEF ToldRight, Committed
<1> QED
  BY <1>6, <1>7, <1>8, <1>9, <1>10, <1>11, <1>12, <1>13, <1>14, <1>15, OneOrderKeeps

\* An order is given up as FAILED where the provider refused, or as CANCELLED.
LEMMA WriteReleaseKeeps ==
    ASSUME PayInv, NEW w \in Workers, WriteRelease(w),
           NEW o \in Orders, o = worker[w].order
    PROVE  PayInv'
<1> DEFINE to == worker[w].to
           row == [order[o] EXCEPT !.status = to, !.idle = FALSE]
<1>1. worker[w].task = "writeRelease"
  BY DEF WriteRelease
<1>2. PayTypeOK /\ RowsAreThere(o) /\ PaidIsTaken(o)
      /\ (o \notin strayed => OneWay(o)) /\ (o \notin resettled => ToldRight(o))
  BY DEF PayInv
<1>3. order[o] # NoOrder /\ to \in {"FAILED", "CANCELLED"}
      /\ (to = "FAILED" => Refusing(w, o))
  BY <1>1, <1>2 DEF RowsAreThere, Misending, Refusing
<1>4. row \in OrderRow /\ row # NoOrder /\ row.status = to /\ row.idle = FALSE
  <2>1. to \in OrderStatus
    BY <1>3 DEF OrderStatus
  <2> HIDE DEF to
  <2> QED
    BY <1>2, <1>3, <2>1, RowChanges
<1>5. order' = [order EXCEPT ![o] = row]
  BY <1>2 DEF WriteRelease, PayTypeOK
<1>6. Does(w, Idle) /\ UNCHANGED <<intent, events, told, strayed>>
  BY DEF WriteRelease
<1>7. resettled' = IF Committed(o) THEN resettled ELSE resettled \cup {o}
  BY DEF WriteRelease
<1> HIDE DEF row, to
<1>8. /\ worker' = [worker EXCEPT ![w] = Idle]
      /\ worker'[w] = Idle
      /\ \A v \in Workers : v # w => worker'[v] = worker[v]
      /\ \A v \in Workers :
           /\ Paying(v, o)' => Paying(v, o)
           /\ Asking(v, o)' => Asking(v, o)
           /\ Crediting(v, o)' => Crediting(v, o)
           /\ Refusing(v, o)' => Refusing(v, o)
           /\ Telling(v, o)' => Telling(v, o)
           /\ Misending(v, o)' => Misending(v, o)
  BY <1>2, <1>6, IdleTask, NextTask DEF Tasks
<1>9. order'[o] = row /\ \A p \in Orders : p # o => order'[p] = order[p]
  BY <1>2, <1>5 DEF PayTypeOK
<1>10. PayTypeOK'
  BY <1>2, <1>4, <1>5, <1>6, <1>7, <1>8 DEF PayTypeOK
<1>11. RowsAreThere(o)'
  BY <1>2, <1>3, <1>4, <1>6, <1>8, <1>9, IdleTask DEF RowsAreThere
<1>12. PaidIsTaken(o)'
  BY <1>2, <1>3, <1>4, <1>6, <1>8, <1>9 DEF PaidIsTaken, MoneyTaken
<1>13. ASSUME o \notin strayed PROVE OneWay(o)'
  <2>1. OneWay(o) /\ row.status \notin {"PENDING_PAYMENT", "PROCESSING"}
    BY <1>2, <1>3, <1>4, <1>13
  <2>2. PastPaying(o) => PastPaying(o)'
    BY <1>8, <1>9, <2>1 DEF PastPaying
  <2>3. FailedSaid(o)' => FailedSaid(o)
    BY <1>3, <1>4, <1>6, <1>8, <1>9 DEF FailedSaid
  <2> QED
    BY <1>6, <1>8, <1>9, <2>1, <2>2, <2>3 DEF OneWay, Refused
<1>14. ASSUME o \notin resettled' PROVE ToldRight(o)'
  <2>1. Committed(o) /\ o \notin resettled
    BY <1>7, <1>14
  <2>2. told[o] = 0 /\ \A v \in Workers : ~Telling(v, o)
    BY <1>2, <2>1 DEF ToldRight
  <2> QED
    BY <1>6, <1>8, <2>2 DEF ToldRight
<1> QED
  BY <1>6, <1>7, <1>8, <1>9, <1>10, <1>11, <1>12, <1>13, <1>14, OneOrderKeeps

-----------------------------------------------------------------------------
(***************************************************************************)
(* Steps of nobody's at work: a checkout, the buyer's browser, the         *)
(* provider's memory and the clock                                         *)
(***************************************************************************)
LEMMA CheckoutKeeps ==
    ASSUME PayInv, NEW u \in Users, NEW o \in Orders, Checkout(u, o)
    PROVE  PayInv'
<1> DEFINE row == [status |-> "PENDING_PAYMENT", buyer |-> u, lines |-> BasketOf(u),
                   aged |-> FALSE, idle |-> FALSE]
<1>1. PayTypeOK /\ RowsAreThere(o) /\ PaidIsTaken(o)
      /\ (o \notin strayed => OneWay(o)) /\ (o \notin resettled => ToldRight(o))
  BY DEF PayInv
<1>2. row \in OrderRow /\ row.status = "PENDING_PAYMENT" /\ row.idle = FALSE
  <2>1. BasketOf(u) \in SUBSET Holds
    BY DEF BasketOf
  <2> QED
    BY <2>1 DEF OrderRow, OrderStatus
<1>3. order[o] = NoOrder /\ order' = [order EXCEPT ![o] = row]
      /\ UNCHANGED <<intent, events, worker, told, resettled, strayed>>
  BY DEF Checkout
<1> HIDE DEF row
<1>4. order'[o] = row /\ \A p \in Orders : p # o => order'[p] = order[p]
  BY <1>1, <1>3 DEF PayTypeOK
<1>5. PayTypeOK'
  BY <1>1, <1>2, <1>3 DEF PayTypeOK
<1>6. /\ intent[o] = "none"
      /\ <<o, "succeeded">> \notin events /\ <<o, "failed">> \notin events
      /\ \A w \in Workers : worker[w].task # "idle" => worker[w].order # o
  BY <1>1, <1>3 DEF RowsAreThere
<1>7. \A w \in Workers : /\ ~Paying(w, o) /\ ~Asking(w, o) /\ ~Crediting(w, o)
                         /\ ~Refusing(w, o) /\ ~Telling(w, o) /\ ~Misending(w, o)
  BY <1>6 DEF Paying, Asking, Crediting, Refusing, Telling, Misending
<1>8. \A w \in Workers : /\ ~Paying(w, o)' /\ ~Asking(w, o)' /\ ~Crediting(w, o)'
                         /\ ~Refusing(w, o)' /\ ~Telling(w, o)' /\ ~Misending(w, o)'
  BY <1>3, <1>7 DEF Paying, Asking, Crediting, Refusing, Telling, Misending
<1>9. row # NoOrder
  BY <1>2 DEF NoOrder
<1>10. RowsAreThere(o)' /\ PaidIsTaken(o)'
  BY <1>2, <1>3, <1>4, <1>6, <1>8, <1>9 DEF RowsAreThere, PaidIsTaken
<1>11. OneWay(o)'
  BY <1>2, <1>3, <1>4, <1>6, <1>8 DEF OneWay, FailedSaid
<1>12. ASSUME o \notin resettled PROVE ToldRight(o)'
  BY <1>1, <1>3, <1>8, <1>12 DEF ToldRight
<1> QED
  BY <1>3, <1>4, <1>5, <1>10, <1>11, <1>12, OneOrderKeeps

\* A step of the provider's, or of the clock's, on an order nobody works for.
LEMMA SameWorkers ==
    ASSUME UNCHANGED worker, NEW o \in Orders, NEW w \in Workers
    PROVE  /\ Paying(w, o)' = Paying(w, o)
           /\ Asking(w, o)' = Asking(w, o)
           /\ Crediting(w, o)' = Crediting(w, o)
           /\ Refusing(w, o)' = Refusing(w, o)
           /\ Telling(w, o)' = Telling(w, o)
           /\ Misending(w, o)' = Misending(w, o)
  BY DEF Paying, Asking, Crediting, Refusing, Telling, Misending

\* What happens at the provider while no request asks: the buyer's browser
\* confirms, an intent is opened, or one is forgotten.
LEMMA ProviderKeeps ==
    ASSUME PayInv, NEW o \in Orders,
           OpenPayment(o) \/ BrowserConfirm(o) \/ ProviderForgets(o)
    PROVE  PayInv'
<1>1. PayTypeOK /\ RowsAreThere(o) /\ PaidIsTaken(o)
      /\ (o \notin strayed => OneWay(o)) /\ (o \notin resettled => ToldRight(o))
  BY DEF PayInv
<1>2. UNCHANGED <<order, worker, told, resettled>>
  BY DEF OpenPayment, BrowserConfirm, ProviderForgets
<1>3. PICK st \in IntentStatus :
        /\ intent' = [intent EXCEPT ![o] = st]
        /\ st # "none"
        /\ st = "lost" => o \in strayed'
        /\ MoneyTaken(o) => st = "lost"
        /\ <<o, "succeeded">> \in events' =>
              <<o, "succeeded">> \in events \/ st = "succeeded"
        /\ \A p \in Orders, e \in {"succeeded", "failed"} : p # o =>
              (<<p, e>> \in events' => <<p, e>> \in events)
        /\ events' \in SUBSET (Orders \X {"succeeded", "failed"})
        /\ strayed' = strayed \cup {o} \/
              (strayed' = strayed /\ intent[o] = "none" /\ st = "confirmable"
                 /\ events' = events)
  <2>1. CASE OpenPayment(o)
    BY <1>1, <2>1 DEF OpenPayment, IntentStatus, PayTypeOK, MoneyTaken
  <2>2. CASE BrowserConfirm(o)
    <3>1. intent[o] \in {"confirmable", "pending"} /\ strayed' = strayed \cup {o}
      BY <2>2 DEF BrowserConfirm
    <3>2. PICK st \in ConfirmedInBrowser(intent[o]) :
            /\ intent' = [intent EXCEPT ![o] = st]
            /\ events' = events \cup {<<o, e>> : e \in Announced(intent[o], st)}
                   \cup (IF st = "confirmable" THEN {<<o, "failed">>} ELSE {})
      BY <2>2 DEF BrowserConfirm
    <3>3. st \in IntentStatus /\ st \notin {"none", "lost"}
      BY <3>1, <3>2 DEF ConfirmedInBrowser, IntentStatus
    <3>4. /\ <<o, "succeeded">> \in events' =>
                <<o, "succeeded">> \in events \/ st = "succeeded"
          /\ \A p \in Orders, e \in {"succeeded", "failed"} : p # o =>
                (<<p, e>> \in events' => <<p, e>> \in events)
          /\ events' \in SUBSET (Orders \X {"succeeded", "failed"})
      BY <1>1, <3>2, AnnouncedRight DEF PayTypeOK
    <3> QED
      BY <3>1, <3>2, <3>3, <3>4 DEF MoneyTaken
  <2>3. CASE ProviderForgets(o)
    BY <1>1, <2>3 DEF ProviderForgets, IntentStatus, PayTypeOK
  <2> QED
    BY <2>1, <2>2, <2>3
<1>4. strayed' \in SUBSET Orders /\ strayed \subseteq strayed'
  BY <1>1, <1>3 DEF PayTypeOK
<1>5. /\ intent'[o] = st /\ \A p \in Orders : p # o => intent'[p] = intent[p]
      /\ intent' \in [Orders -> IntentStatus]
  BY <1>1, <1>3 DEF PayTypeOK
<1>6. PayTypeOK'
  BY <1>1, <1>2, <1>3, <1>4, <1>5 DEF PayTypeOK
<1>7. order[o] # NoOrder
  BY <1>1 DEF OpenPayment, BrowserConfirm, ProviderForgets, RowsAreThere,
              Committed, NoOrder
<1>8. RowsAreThere(o)'
  BY <1>1, <1>2, <1>3, <1>5, <1>7, SameWorkers DEF RowsAreThere
<1>9. PaidIsTaken(o)'
  <2>1. MoneyTaken(o) => MoneyTaken(o)'
    BY <1>3, <1>5 DEF MoneyTaken
  <2> QED
    BY <1>1, <1>2, <1>3, <1>5, <2>1, SameWorkers DEF PaidIsTaken, MoneyTaken
<1>10. ASSUME o \notin strayed' PROVE OneWay(o)'
  <2>1. /\ strayed' = strayed /\ intent[o] = "none" /\ st = "confirmable"
        /\ events' = events
    BY <1>3, <1>10
  <2>2. OneWay(o)
    BY <1>1, <1>10, <2>1
  <2>3. PastPaying(o)' = PastPaying(o)
    BY <1>2, SameWorkers DEF PastPaying
  <2>4. FailedSaid(o)' => FailedSaid(o)
    BY <1>2, <2>1, SameWorkers DEF FailedSaid
  <2>5. Refused(o) => Refused(o)'
    BY <1>5, <2>1, <2>3 DEF Refused
  <2> QED
    BY <1>2, <1>5, <2>1, <2>2, <2>3, <2>4, <2>5, SameWorkers DEF OneWay
<1>11. ASSUME o \notin resettled PROVE ToldRight(o)'
  BY <1>1, <1>2, <1>11, SameWorkers DEF ToldRight, Committed
<1> QED
  BY <1>2, <1>3, <1>4, <1>5, <1>6, <1>8, <1>9, <1>10, <1>11, OneOrderKeeps

\* An order goes idle when its claimant has had the time to be done.
LEMMA ClockKeeps ==
    ASSUME PayInv, NEW o \in Orders, Ages(o) \/ Idles(o)
    PROVE  PayInv'
<1>1. PayTypeOK /\ RowsAreThere(o) /\ PaidIsTaken(o)
      /\ (o \notin strayed => OneWay(o)) /\ (o \notin resettled => ToldRight(o))
  BY DEF PayInv
<1>2. UNCHANGED <<intent, events, worker, told, resettled, strayed>>
  BY DEF Ages, Idles
<1>3. order[o] # NoOrder /\ order[o] \in OrderRow
  BY <1>1, OrderIsRow DEF Ages, Idles, Committed, NoOrder
<1>4. PICK row \in OrderRow :
        /\ order' = [order EXCEPT ![o] = row]
        /\ row.status = order[o].status
        /\ \/ row.idle = order[o].idle
           \/ row.status = "PROCESSING" /\ Prompt(o)
  <2>1. CASE Ages(o)
    <3> DEFINE x == [order[o] EXCEPT !.aged = TRUE]
    <3>1. x \in OrderRow /\ x.status = order[o].status /\ x.idle = order[o].idle
      BY <1>3 DEF OrderRow
    <3>2. order' = [order EXCEPT ![o] = x]
      BY <2>1 DEF Ages
    <3> QED
      BY <3>1, <3>2
  <2>2. CASE Idles(o)
    <3> DEFINE x == [order[o] EXCEPT !.idle = TRUE]
    <3>1. x \in OrderRow /\ x.status = order[o].status
      BY <1>3 DEF OrderRow
    <3>2. order' = [order EXCEPT ![o] = x] /\ order[o].status = "PROCESSING" /\ Prompt(o)
      BY <2>2 DEF Idles
    <3> QED
      BY <3>1, <3>2
  <2> QED
    BY <2>1, <2>2
<1>5. order'[o] = row /\ \A p \in Orders : p # o => order'[p] = order[p]
  BY <1>1, <1>4 DEF PayTypeOK
<1>6. PayTypeOK'
  BY <1>1, <1>2, <1>4 DEF PayTypeOK
<1>7. row # NoOrder
  BY <1>4 DEF NoOrder, OrderRow, OrderStatus
<1>8. RowsAreThere(o)' /\ PaidIsTaken(o)'
  BY <1>1, <1>2, <1>3, <1>4, <1>5, <1>7, SameWorkers
     DEF RowsAreThere, PaidIsTaken, MoneyTaken
<1>9. ASSUME o \notin strayed PROVE OneWay(o)'
  <2>1. OneWay(o) /\ PastPaying(o)' = PastPaying(o)
    BY <1>1, <1>2, <1>4, <1>5, <1>9, SameWorkers DEF PastPaying
  <2>2. FailedSaid(o)' => FailedSaid(o)
    BY <1>2, <1>4, <1>5, SameWorkers DEF FailedSaid
  <2>3. row.status = "PROCESSING" /\ Prompt(o) => PastPaying(o)
    <3>1. \A w \in Workers : Paying(w, o) => worker[w] # Idle
      BY IdleTask DEF Paying
    <3> QED
      BY <1>4, <3>1 DEF Prompt, PastPaying, Paying
  <2> QED
    BY <1>2, <1>4, <1>5, <2>1, <2>2, <2>3, SameWorkers DEF OneWay, Refused
<1>10. ASSUME o \notin resettled PROVE ToldRight(o)'
  BY <1>1, <1>2, <1>3, <1>4, <1>5, <1>7, <1>10, SameWorkers DEF ToldRight, Committed
<1> QED
  BY <1>2, <1>5, <1>6, <1>8, <1>9, <1>10, OneOrderKeeps

-----------------------------------------------------------------------------
(***************************************************************************)
(* Payments: the theorems                                                  *)
(***************************************************************************)
LEMMA PayStarts ==
    ASSUME Init
    PROVE  PayInv
<1>1. PayTypeOK
  BY DEF Init, PayTypeOK, IntentStatus
<1>2. \A o \in Orders : /\ order[o] = NoOrder /\ intent[o] = "none" /\ told[o] = 0
                        /\ order[o].status = "NONE"
  BY DEF Init, NoOrder
<1>3. \A w \in Workers : worker[w].task = "idle"
  BY DEF Init, Idle
<1>4. \A w \in Workers, o \in Orders :
        /\ ~Paying(w, o) /\ ~Asking(w, o) /\ ~Crediting(w, o)
        /\ ~Refusing(w, o) /\ ~Telling(w, o) /\ ~Misending(w, o)
  BY <1>3 DEF Paying, Asking, Crediting, Refusing, Telling, Misending
<1>5. events = {}
  BY DEF Init
<1>6. ASSUME NEW o \in Orders
      PROVE  RowsAreThere(o) /\ PaidIsTaken(o) /\ OneWay(o) /\ ToldRight(o)
  <2>1. RowsAreThere(o)
    BY <1>2, <1>3, <1>4, <1>5 DEF RowsAreThere
  <2>2. PaidIsTaken(o)
    BY <1>2, <1>4, <1>5 DEF PaidIsTaken
  <2>3. OneWay(o)
    BY <1>2, <1>4, <1>5 DEF OneWay, FailedSaid
  <2>4. ToldRight(o)
    BY <1>2, <1>4 DEF ToldRight
  <2> QED
    BY <2>1, <2>2, <2>3, <2>4
<1> QED
  BY <1>1, <1>6 DEF PayInv

\* A step of the stock alone.
LEMMA UnseenKeeps ==
    ASSUME PayInv, UNCHANGED payVars
    PROVE  PayInv'
<1>1. PayTypeOK'
  BY DEF PayInv, PayTypeOK, payVars
<1>2. UNCHANGED <<order, intent, events, worker, told, resettled, strayed>>
  BY DEF payVars
<1>3. ASSUME NEW o \in Orders
      PROVE  /\ RowsAreThere(o)' = RowsAreThere(o) /\ PaidIsTaken(o)' = PaidIsTaken(o)
             /\ OneWay(o)' = OneWay(o) /\ ToldRight(o)' = ToldRight(o)
  <2>1. RowsAreThere(o)' = RowsAreThere(o)
    BY <1>2 DEF RowsAreThere, Paying, Asking, Misending
  <2>2. PaidIsTaken(o)' = PaidIsTaken(o)
    BY <1>2 DEF PaidIsTaken, Crediting, MoneyTaken
  <2>3. OneWay(o)' = OneWay(o)
    BY <1>2 DEF OneWay, Paying, Asking, PastPaying, FailedSaid, Refusing, Refused
  <2>4. ToldRight(o)' = ToldRight(o)
    BY <1>2 DEF ToldRight, Telling, Committed
  <2> QED
    BY <2>1, <2>2, <2>3, <2>4
<1> QED
  BY <1>1, <1>2, <1>3 DEF PayInv

\* Every step keeps the invariant of payments.
LEMMA PaySteps ==
    ASSUME PayInv, [Next]_vars
    PROVE  PayInv'
<1>1. CASE StockNext /\ UNCHANGED payVars
  BY <1>1, UnseenKeeps
<1>2. CASE \E u \in Users, o \in Orders : Checkout(u, o)
  BY <1>2, CheckoutKeeps
<1>3. CASE \E o \in Orders : OpenPayment(o) \/ Outside(o)
  BY <1>3, ProviderKeeps, ClockKeeps DEF Outside
<1>4. ASSUME NEW w \in Workers \ Sweepers, NEW o \in Orders, Request(w, o)
      PROVE  PayInv'
  <2>1. CASE Pay(w, o)
    BY <2>1, PayKeeps
  <2>2. CASE Cancel(w, o) \/ \E e \in {"succeeded", "failed"} : Webhook(w, o, e)
    BY <2>2, ReadsKeep
  <2> QED
    BY <1>4, <2>1, <2>2 DEF Request
<1>5. ASSUME NEW w \in Sweepers, NEW o \in Orders, Turn(w, o)
      PROVE  PayInv'
  BY <1>5, ReadsKeep, OrdersAssumption DEF Turn
<1>6. ASSUME NEW w \in Workers, Step(w) \/ Crash(w)
      PROVE  PayInv'
  <2>1. worker[w].task # "idle" => worker[w].order \in Orders
    BY BusyHasJob DEF PayInv
  <2>2. CASE Confirm(w)
    BY <2>1, <2>2, ConfirmKeeps DEF Confirm
  <2>3. CASE Unclaim(w)
    BY <2>1, <2>3, UnclaimKeeps DEF Unclaim
  <2>4. CASE Ask(w)
    BY <2>4, AskKeeps
  <2>5. CASE CancelIntent(w)
    BY <2>1, <2>5, CancelIntentKeeps DEF CancelIntent
  <2>6. CASE WritePaid(w)
    BY <2>1, <2>6, WritePaidKeeps DEF WritePaid
  <2>7. CASE Tell(w)
    BY <2>1, <2>7, TellKeeps DEF Tell
  <2>8. CASE WriteRelease(w)
    BY <2>1, <2>8, WriteReleaseKeeps DEF WriteRelease
  <2>9. CASE ReadPaid(w) \/ ReadRelease(w) \/ Crash(w)
    <3>1. CASE worker[w].task = "idle"
      <4>1. worker[w] = Idle
        BY <3>1 DEF PayInv, PayTypeOK, Job, Tasks
      <4> QED
        BY <2>9, <3>1, <4>1 DEF ReadPaid, ReadRelease, Crash
    <3>2. CASE worker[w].task # "idle"
      BY <2>1, <2>9, <3>2, ReadsKeep
    <3> QED
      BY <3>1, <3>2
  <2> QED
    BY <1>6, <2>2, <2>3, <2>4, <2>5, <2>6, <2>7, <2>8, <2>9 DEF Step
<1>7. CASE UNCHANGED vars
  BY <1>7, UnseenKeeps DEF vars
<1> QED
  BY <1>1, <1>2, <1>3, <1>4, <1>5, <1>6, <1>7 DEF Next

\* The invariant of payments holds throughout.
LEMMA AlwaysPayInv == Spec => []PayInv
  BY PayStarts, PaySteps, PTL DEF Spec

\* Whatever requests, sweepers, webhooks and crashes there are: an order is
\* PAID only if the provider took the money and FAILED only if it did not; one
\* request at most is at the provider for it; its sellers hear of it once.
THEOREM PaymentsRightAlways == Spec => []PaymentsRight
<1>1. PayInv => PaymentsRight
  <2> SUFFICES ASSUME PayInv PROVE PaymentsRight
    OBVIOUS
  <2>1. PaidMeansCharged
    BY DEF PayInv, PaidIsTaken, MoneyTaken, PaidMeansCharged
  <2>2. FailedMeansNotCharged
    BY DEF PayInv, OneWay, FailedSaid, Refused, FailedMeansNotCharged
  <2>3. OnePayerAtProvider
    <3> SUFFICES ASSUME NEW v \in Workers, NEW w \in Workers, v # w,
                        worker[v].task = "confirm", worker[w].task = "confirm",
                        worker[v].order = worker[w].order,
                        worker[v].order \notin strayed
                 PROVE  FALSE
      BY DEF OnePayerAtProvider
    <3>1. PICK o \in Orders : o = worker[v].order
      BY BusyHasJob DEF PayInv
    <3>2. Paying(v, o) /\ Paying(w, o) /\ o \notin strayed
      BY <3>1 DEF Paying
    <3> QED
      BY <3>2 DEF PayInv, OneWay
  <2>4. SellersToldOnce
    BY DEF PayInv, ToldRight, SellersToldOnce
  <2> QED
    BY <2>1, <2>2, <2>3, <2>4 DEF PaymentsRight
<1> QED
  BY <1>1, AlwaysPayInv, PTL

\* A charge reaches the row: the step that takes an order whose money is taken
\* out of PROCESSING writes PAID, or the CANCELLED of a faster cancellation.
THEOREM ChargeIsRecordedAlways == Spec => ChargeIsRecorded
<1>1. ASSUME PayInv, [Next]_vars, NEW o \in Orders \ strayed,
             intent[o] = "succeeded", order[o].status = "PROCESSING"
      PROVE  order'[o].status \in {"PROCESSING", "PAID", "CANCELLED"}
  <2>1. PayTypeOK /\ RowsAreThere(o) /\ OneWay(o)
    BY <1>1 DEF PayInv
  <2>2. PastPaying(o) /\ ~FailedSaid(o)
    BY <1>1, <2>1 DEF OneWay, Refused
  <2>3. order[o] # NoOrder /\ order[o] \in OrderRow
    BY <1>1, <2>1, StatusIsRow, OrderIsRow DEF OrderStatus
  <2>4. ASSUME NEW w \in Workers, NEW p \in Orders, Pay(w, p)
        PROVE  order'[o].status = "PROCESSING"
    BY <1>1, <2>1, <2>4 DEF Pay, Claimable, PayTypeOK
  <2>5. ASSUME NEW w \in Workers, Unclaim(w)
        PROVE  order'[o].status = "PROCESSING"
    <3>1. worker[w].order # o
      BY <2>2, <2>5 DEF Unclaim, PastPaying, Paying
    <3> QED
      BY <1>1, <2>1, <2>5, <3>1 DEF Unclaim, PayTypeOK
  <2>6. ASSUME NEW w \in Workers, WritePaid(w)
        PROVE  order'[o].status \in {"PROCESSING", "PAID"}
    BY <1>1, <2>1, <2>3, <2>6 DEF WritePaid, PayTypeOK, OrderRow
  <2>7. ASSUME NEW w \in Workers, WriteRelease(w)
        PROVE  order'[o].status \in {"PROCESSING", "CANCELLED"}
    <3>1. worker[w].order = o => worker[w].to = "CANCELLED"
      BY <2>1, <2>2, <2>7 DEF WriteRelease, RowsAreThere, Misending, FailedSaid, Refusing
    <3> QED
      BY <1>1, <2>1, <2>3, <2>7, <3>1 DEF WriteRelease, PayTypeOK, OrderRow
  <2>8. ASSUME NEW u \in Users, NEW p \in Orders, Checkout(u, p)
        PROVE  order'[o].status = "PROCESSING"
    <3>1. p # o
      BY <2>3, <2>8 DEF Checkout
    <3> QED
      BY <1>1, <2>1, <2>8, <3>1 DEF Checkout, PayTypeOK
  <2>9. ASSUME NEW p \in Orders, Ages(p) \/ Idles(p)
        PROVE  order'[o].status = "PROCESSING"
    BY <1>1, <2>1, <2>3, <2>9 DEF Ages, Idles, PayTypeOK, OrderRow
  <2>10. CASE UNCHANGED order
    BY <1>1, <2>10
  <2> QED
    BY <1>1, <2>4, <2>5, <2>6, <2>7, <2>8, <2>9, <2>10, OrdersAssumption
       DEF Next, vars, payVars, Step, Request, Turn, Outside, OpenPayment,
           BrowserConfirm, ProviderForgets, Cancel, Webhook, Abandon, Reconcile,
           Confirm, Ask, CancelIntent, ReadPaid, Tell, ReadRelease, Crash
<1>2. PayInv /\ [Next]_vars =>
        [\A o \in Orders \ strayed :
            intent[o] = "succeeded" /\ order[o].status = "PROCESSING"
                => order'[o].status \in {"PROCESSING", "PAID", "CANCELLED"}]_vars
  BY <1>1
<1> QED
  BY <1>2, AlwaysPayInv, PTL DEF Spec, ChargeIsRecorded

-----------------------------------------------------------------------------
(***************************************************************************)
(* Stock: what is on the shelf, on hold, and in the lines of orders that   *)
(* keep it                                                                 *)
(***************************************************************************)
Keeping(o) == Committed(o) \/ Sold(o)

\* The lines that keep units of a listing, in whichever order.
LinesKept(l) ==
    {h \in Holds : /\ hold[h].listing = l
                   /\ \E o \in Orders : Keeping(o) /\ h \in order[o].lines}

\* A line is a hold that a checkout ended.
LinesEnded ==
    \A o \in Orders : \A h \in order[o].lines : hold[h] # NoRow /\ ~Held(h)

\* Why a listing may count more units than its seller put up.
Excused(l) ==
    \/ \E h \in overtaken : hold[h].listing = l
    \/ \E o \in resettled : \E h \in order[o].lines : hold[h].listing = l

OrdersBook(l) ==
    /\ Accounted(l) >= supply[l]
    /\ Accounted(l) = supply[l] \/ Excused(l)

BookInv ==
    /\ StockTypeOK /\ RowsExist /\ PayTypeOK
    /\ OneOrderPerHold /\ LinesEnded
    /\ \A l \in Listings : OrdersBook(l)

\* An order's lines are holds.
LEMMA LinesAreHolds ==
    ASSUME PayTypeOK, NEW o \in Orders
    PROVE  order[o].lines \in SUBSET Holds
  BY DEF PayTypeOK, OrderRow, NoOrder

\* What is kept of a listing is on hold, or a line of an order that keeps it.
LEMMA KeptAre ==
    ASSUME PayTypeOK, NEW l \in Listings
    PROVE  KeptOn(l) = HeldOn(l) \cup LinesKept(l)
  BY LinesAreHolds DEF KeptOn, LinesKept, LinesOn, Keeping

\* Live holds and the lines of orders are counted apart.
LEMMA AccountSplits ==
    ASSUME StockTypeOK, PayTypeOK, LinesEnded, NEW l \in Listings
    PROVE  /\ LinesKept(l) \in SUBSET Holds
           /\ \A h \in LinesKept(l) : /\ hold[h] # NoRow
                                      /\ Qty[h] \in 1..MaxQty
                                      /\ Qty[h] = hold[h].quantity
           /\ LinesKept(l) \cap HeldOn(l) = {}
           /\ HeldUnits(l) \in Nat
           /\ Tally(LinesKept(l), Qty) \in Nat
           /\ Units(KeptOn(l)) = HeldUnits(l) + Tally(LinesKept(l), Qty)
<1>1. LinesKept(l) \in SUBSET Holds /\ HeldOn(l) \in SUBSET Holds
  BY DEF LinesKept, HeldOn
<1>2. \A h \in LinesKept(l) : hold[h] # NoRow /\ ~Held(h)
  BY DEF LinesKept, LinesEnded
<1>3. \A h \in LinesKept(l) : Qty[h] \in 1..MaxQty /\ Qty[h] = hold[h].quantity
  BY <1>1, <1>2, HeldIsRow DEF Qty
<1>4. LinesKept(l) \cap HeldOn(l) = {}
  BY <1>2 DEF HeldOn
<1>5. \A h \in HeldOn(l) \cup LinesKept(l) : Qty[h] \in 1..MaxQty
  BY <1>3, HeldOnRows
<1>6. HeldOn(l) \cap LinesKept(l) = {}
  BY <1>4
<1>7. /\ Tally(HeldOn(l), Qty) \in Nat /\ Tally(LinesKept(l), Qty) \in Nat
      /\ Tally(HeldOn(l) \cup LinesKept(l), Qty) =
            Tally(HeldOn(l), Qty) + Tally(LinesKept(l), Qty)
  BY <1>1, <1>5, <1>6, UnitsSplit, ZenonT(30)
<1>8. Units(KeptOn(l)) = Tally(HeldOn(l) \cup LinesKept(l), Qty)
  BY <1>1, KeptAre, UnitsAreTallies
<1>9. HeldUnits(l) = Tally(HeldOn(l), Qty)
  BY HeldUnitsType
<1> QED
  BY <1>1, <1>2, <1>3, <1>4, <1>7, <1>8, <1>9

\* What is kept after a step, counted with quantities of before it or after it.
LEMMA KeptUnitsNext ==
    ASSUME NEW l \in Listings, NEW K, KeptOn(l)' = K,
           NEW q, \A h \in K : hold'[h].quantity = q[h]
    PROVE  Units(KeptOn(l))' = Tally(K, q)
<1>1. Units(KeptOn(l))' = Tally(K, [h \in K |-> hold'[h].quantity])
  BY DEF Units
<1>2. \A h \in K : [k \in K |-> hold'[k].quantity][h] = q[h]
  OBVIOUS
<1> QED
  BY <1>1, <1>2, TallySame

\* A listing once excused stays excused.
LEMMA ExcusedStays ==
    ASSUME StockTypeOK, RowsExist, LinesEnded, PayTypeOK, NEW l \in Listings, Excused(l),
           overtaken \subseteq overtaken', resettled \subseteq resettled',
           \A o \in resettled : order[o].lines \subseteq order'[o].lines,
           \A h \in Holds : hold[h] # NoRow => hold'[h].listing = hold[h].listing
    PROVE  Excused(l)'
<1>1. \A h \in overtaken : hold[h] # NoRow /\ h \in Holds
  BY DEF RowsExist, StockTypeOK
<1>2. \A o \in resettled : \A h \in order[o].lines : hold[h] # NoRow /\ h \in Holds
  BY LinesAreHolds DEF LinesEnded, PayTypeOK
<1> QED
  BY <1>1, <1>2 DEF Excused

\* A step that adds c units to an account, and says why, keeps the book.
LEMMA BookKept ==
    ASSUME NEW l \in Listings, OrdersBook(l), NEW c \in Nat,
           Accounted(l) \in Int, supply[l] \in Int,
           Accounted(l)' \in Int, supply'[l] \in Int,
           Accounted(l)' - supply'[l] = Accounted(l) - supply[l] + c,
           Excused(l) => Excused(l)', c = 0 \/ Excused(l)'
    PROVE  OrdersBook(l)'
<1> DEFINE a == Accounted(l)
           b == Accounted(l)'
           x == supply[l]
           y == supply'[l]
<1>1. /\ a \in Int /\ b \in Int /\ x \in Int /\ y \in Int
      /\ b - y = a - x + c
  OBVIOUS
<1>2. a >= x /\ (a = x \/ Excused(l))
  BY DEF OrdersBook
<1> HIDE DEF a, b, x, y
<1>3. b >= y
  BY <1>1, <1>2
<1>4. b = y \/ Excused(l)'
  <2>1. CASE a = x /\ c = 0
    BY <1>1, <2>1
  <2>2. CASE Excused(l) \/ c # 0
    BY <2>2
  <2> QED
    BY <1>2, <2>1, <2>2
<1>5. OrdersBook(l)' <=> b >= y /\ (b = y \/ Excused(l)')
  BY DEF OrdersBook, b, y
<1> QED
  BY <1>3, <1>4, <1>5

\* Accounts are numbers.
LEMMA AccountType ==
    ASSUME StockTypeOK, PayTypeOK, LinesEnded, NEW l \in Listings
    PROVE  /\ listing[l].quantity \in Nat /\ supply[l] \in Int
           /\ Accounted(l) \in Nat
           /\ Accounted(l) = listing[l].quantity + HeldUnits(l) + Tally(LinesKept(l), Qty)
<1>1. listing[l].quantity \in Nat /\ supply[l] \in Int
  BY DEF StockTypeOK, ListingRow
<1> DEFINE a == HeldUnits(l)
           b == Tally(LinesKept(l), Qty)
<1>2. a \in Nat /\ b \in Nat /\ Units(KeptOn(l)) = a + b
  BY AccountSplits
<1>3. Accounted(l) = listing[l].quantity + (a + b)
  BY <1>2 DEF Accounted
<1> HIDE DEF a, b
<1>4. Accounted(l) \in Nat /\ Accounted(l) = listing[l].quantity + a + b
  BY <1>1, <1>2, <1>3
<1> QED
  BY <1>1, <1>4 DEF a, b

\* What holds and sweeps do moves units between shelf and holds, and touches no
\* line of an order.
LEMMA StockBook ==
    ASSUME BookInv, StockNext, UNCHANGED payVars
    PROVE  BookInv'
<1>1. /\ StockTypeOK /\ RowsExist /\ PayTypeOK /\ OneOrderPerHold /\ LinesEnded
      /\ [StockNext]_stockVars
  BY DEF BookInv
<1>2. StockTypeOK' /\ RowsExist'
  BY <1>1, TypeStep, RowsExistStep
<1>3. UNCHANGED <<order, resettled>>
  BY DEF payVars
<1>4. PayTypeOK' /\ OneOrderPerHold'
  BY <1>1, <1>3 DEF payVars, PayTypeOK, OneOrderPerHold
<1>5. \A h \in Holds : hold[h] # NoRow =>
        /\ hold'[h] # NoRow
        /\ hold'[h].listing = hold[h].listing
        /\ hold'[h].quantity = hold[h].quantity
        /\ ~Held(h) => hold'[h].status # "HELD"
  BY <1>1, RowsStay, EndedStays
<1>6. LinesEnded'
  BY <1>1, <1>3, <1>5, LinesAreHolds DEF LinesEnded, Held
<1>7. ASSUME NEW l \in Listings PROVE OrdersBook(l)'
  <2> DEFINE q == [h \in Holds |-> hold'[h].quantity]
             L == LinesKept(l)
             H == HeldOn(l)'
  <2>1. /\ L \in SUBSET Holds
        /\ \A h \in L : hold[h] # NoRow /\ Qty[h] \in 1..MaxQty /\ Qty[h] = hold[h].quantity
        /\ L \cap HeldOn(l) = {}
    BY <1>1, AccountSplits
  <2>2. LinesKept(l)' = L
    <3>1. \A h \in Holds, o \in Orders :
            h \in order[o].lines => hold'[h].listing = hold[h].listing
      BY <1>1, <1>5 DEF LinesEnded
    <3>2. LinesKept(l)' = {h \in Holds : /\ hold'[h].listing = l
                             /\ \E o \in Orders : Keeping(o) /\ h \in order[o].lines}
      BY <1>3 DEF LinesKept, Keeping, Committed, Sold
    <3> QED
      BY <3>1, <3>2 DEF LinesKept
  <2>3. H \in SUBSET Holds
    BY DEF HeldOn
  <2>4. KeptOn(l)' = H \cup L
    <3>1. KeptOn(l)' = HeldOn(l)' \cup LinesKept(l)'
      <4>1. \A o \in Orders : order'[o].lines \in SUBSET Holds
        BY <1>3, <1>1, LinesAreHolds
      <4> QED
        BY <4>1 DEF KeptOn, LinesKept, LinesOn, Keeping
    <3> QED
      BY <2>2, <3>1
  <2>5. \A h \in L : q[h] = Qty[h] /\ q[h] \in 1..MaxQty
    BY <1>5, <2>1
  <2>6. \A h \in H : q[h] \in 1..MaxQty
    BY <1>2, <2>3 DEF HeldOn, Held, StockTypeOK, HoldRow, NoRow
  <2>7. H \cap L = {}
    BY <1>1, <1>5, <2>1 DEF HeldOn, Held, LinesEnded, LinesKept
  <2>8. HeldUnits(l)' = Tally(H, q)
    BY <2>3, HeldUnitsNext
  <2>9. Units(KeptOn(l))' = Tally(H \cup L, q)
    BY <2>1, <2>3, <2>4, KeptUnitsNext
  <2>10. Tally(L, q) = Tally(L, Qty)
    BY <2>5, TallySame
  <2> HIDE DEF H, L, q
  <2>11. /\ Tally(H, q) \in Nat /\ Tally(L, q) \in Nat
         /\ Tally(H \cup L, q) = Tally(H, q) + Tally(L, q)
    BY <2>1, <2>3, <2>5, <2>6, <2>7, UnitsSplit, ZenonT(30)
  <2>12. Accrues(l)
    BY <1>1, <1>2, AccountStep
  <2>13. PICK c \in Nat :
          /\ listing'[l].quantity + HeldUnits(l)' - supply'[l] =
                listing[l].quantity + HeldUnits(l) - supply[l] + c
          /\ c = 0 \/ \E h \in overtaken' : hold'[h].listing = l
    BY <2>12 DEF Accrues
  <2> DEFINE a == HeldUnits(l)
             b == HeldUnits(l)'
             t == Tally(L, Qty)
  <2>14. a \in Nat /\ b \in Nat /\ t \in Nat
    BY <1>1, <2>8, <2>10, <2>11, HeldUnitsType
  <2>15. /\ listing[l].quantity \in Nat /\ supply[l] \in Int
         /\ Accounted(l) = listing[l].quantity + a + t
    BY <1>1, AccountType DEF L
  <2>16. listing'[l].quantity \in Nat /\ supply'[l] \in Int
    BY <1>2 DEF StockTypeOK, ListingRow
  <2>17. Accounted(l)' = listing'[l].quantity + (b + t)
    BY <2>8, <2>9, <2>10, <2>11 DEF Accounted
  <2>18. listing'[l].quantity + b - supply'[l] = listing[l].quantity + a - supply[l] + c
    BY <2>13
  <2> HIDE DEF a, b, t
  <2>19. /\ Accounted(l) \in Int /\ Accounted(l)' \in Int
         /\ Accounted(l)' - supply'[l] = Accounted(l) - supply[l] + c
    BY <2>14, <2>15, <2>16, <2>17, <2>18
  <2>20. Excused(l) => Excused(l)'
    BY <1>1, <1>3, <1>5, OvertakenStays, ExcusedStays
  <2>21. c = 0 \/ Excused(l)'
    BY <2>13 DEF Excused
  <2>22. OrdersBook(l)
    BY DEF BookInv
  <2> QED
    BY <2>15, <2>16, <2>19, <2>20, <2>21, <2>22, BookKept
<1> QED
  BY <1>2, <1>4, <1>6, <1>7 DEF BookInv

\* A step that leaves holds, shelves and lines, and what orders keep, leaves
\* the book.
LEMMA PaperBook ==
    ASSUME BookInv, UNCHANGED stockVars, PayTypeOK', resettled \subseteq resettled',
           \A o \in Orders : /\ order'[o].lines = order[o].lines
                             /\ Keeping(o)' = Keeping(o)
    PROVE  BookInv'
<1>1. /\ StockTypeOK /\ RowsExist /\ PayTypeOK /\ OneOrderPerHold /\ LinesEnded
      /\ UNCHANGED <<listing, hold, releasing, sweeping, editing, supply, overtaken>>
  BY DEF BookInv, stockVars
<1>2. StockTypeOK' /\ RowsExist' /\ OneOrderPerHold' /\ LinesEnded'
  BY <1>1 DEF StockTypeOK, RowsExist, OneOrderPerHold, LinesEnded, Held
<1>3. ASSUME NEW l \in Listings PROVE OrdersBook(l)'
  <2>1. KeptOn(l)' = KeptOn(l)
    BY <1>1 DEF KeptOn, LinesOn, HeldOn, Held, Keeping
  <2>2. \A h \in KeptOn(l) : hold'[h].quantity = [k \in KeptOn(l) |-> hold[k].quantity][h]
    BY <1>1
  <2>3. Units(KeptOn(l))' = Units(KeptOn(l))
    BY <2>1, <2>2, KeptUnitsNext DEF Units
  <2>4. Accounted(l)' = Accounted(l) /\ supply'[l] = supply[l]
    BY <1>1, <2>3 DEF Accounted
  <2>5. Accounted(l) \in Int /\ supply[l] \in Int
    BY <1>1, AccountType
  <2>6. Excused(l) => Excused(l)'
    BY <1>1, LinesAreHolds DEF Excused, PayTypeOK
  <2>7. OrdersBook(l)
    BY DEF BookInv
  <2> QED
    BY <2>4, <2>6, <2>7 DEF OrdersBook
<1> QED
  BY <1>2, <1>3 DEF BookInv

\* A checkout turns live holds into the lines of a new order, unit for unit.
LEMMA CheckoutBook ==
    ASSUME BookInv, PayTypeOK', NEW u \in Users, NEW o \in Orders, Checkout(u, o)
    PROVE  BookInv'
<1> DEFINE B == BasketOf(u)
<1>1. /\ StockTypeOK /\ RowsExist /\ PayTypeOK /\ OneOrderPerHold /\ LinesEnded
      /\ hold \in [Holds -> HoldRow \cup {NoRow}]
  BY DEF BookInv, StockTypeOK
<1>2. /\ B \in SUBSET Holds
      /\ \A h \in B : Held(h) /\ hold[h] # NoRow /\ hold[h] \in HoldRow
  BY <1>1, HeldNotNoRow, HeldIsRow DEF BasketOf
<1>3. /\ order[o] = NoOrder
      /\ order' = [order EXCEPT ![o] =
               [status |-> "PENDING_PAYMENT", buyer |-> u, lines |-> B,
                aged |-> FALSE, idle |-> FALSE]]
      /\ hold' = [h \in Holds |->
               IF h \in B THEN [hold[h] EXCEPT !.status = "CONVERTED"] ELSE hold[h]]
      /\ UNCHANGED <<listing, releasing, sweeping, editing, supply, overtaken, resettled>>
  BY DEF Checkout
<1> HIDE DEF B
<1>4. /\ order'[o].lines = B /\ order'[o].status = "PENDING_PAYMENT"
      /\ order[o].lines = {} /\ ~Keeping(o)
      /\ \A p \in Orders : p # o => order'[p] = order[p]
  BY <1>1, <1>3 DEF PayTypeOK, NoOrder, Keeping, Committed, Sold
<1>5. \A h \in B : /\ hold'[h].status = "CONVERTED"
                   /\ hold'[h].listing = hold[h].listing
                   /\ hold'[h].quantity = hold[h].quantity
                   /\ hold'[h] \in HoldRow /\ hold'[h] # NoRow
  <2>1. ASSUME NEW h \in B
        PROVE  /\ hold'[h].status = "CONVERTED"
               /\ hold'[h].listing = hold[h].listing
               /\ hold'[h].quantity = hold[h].quantity
               /\ hold'[h] \in HoldRow
    BY <1>2, <1>3 DEF HoldRow, HoldStatus
  <2> QED
    BY <2>1 DEF NoRow
<1>6. \A h \in Holds \ B : hold'[h] = hold[h]
  BY <1>3
<1>7. hold' \in [Holds -> HoldRow \cup {NoRow}]
  <2>1. \A h \in Holds : hold'[h] \in HoldRow \cup {NoRow}
    BY <1>1, <1>5, <1>6
  <2> QED
    BY <1>3, <2>1
<1>8. StockTypeOK' /\ RowsExist'
  BY <1>1, <1>3, <1>5, <1>6, <1>7 DEF StockTypeOK, RowsExist
<1>9. \A p \in Orders : p # o => order[p].lines \cap B = {}
  BY <1>1, <1>2 DEF LinesEnded
<1>10. OneOrderPerHold'
  BY <1>1, <1>4, <1>9 DEF OneOrderPerHold
<1>11. LinesEnded'
  BY <1>1, <1>2, <1>4, <1>5, <1>6, LinesAreHolds DEF LinesEnded, Held
<1>12. \A h \in Holds : /\ hold'[h].listing = hold[h].listing
                        /\ hold'[h].quantity = hold[h].quantity
  BY <1>5, <1>6
<1>13. ASSUME NEW l \in Listings PROVE OrdersBook(l)'
  <2>1. KeptOn(l)' = HeldOn(l)' \cup LinesKept(l)'
    <3>1. \A p \in Orders : order'[p].lines \in SUBSET Holds
      BY <1>1, <1>2, <1>4, LinesAreHolds
    <3> QED
      BY <3>1 DEF KeptOn, LinesKept, LinesOn, Keeping
  <2>2. HeldOn(l)' = HeldOn(l) \ B
    BY <1>5, <1>6, <1>12 DEF HeldOn, Held
  <2>3. LinesKept(l)' = LinesKept(l) \cup {h \in B : hold[h].listing = l}
    <3>1. Keeping(o)' /\ \A p \in Orders : p # o => Keeping(p)' = Keeping(p)
      BY <1>4 DEF Keeping, Committed, Sold
    <3>2. \A h \in Holds :
            (\E p \in Orders : Keeping(p)' /\ h \in order'[p].lines)
              <=> h \in B \/ \E p \in Orders : Keeping(p) /\ h \in order[p].lines
      BY <1>4, <3>1
    <3>3. LinesKept(l)' = {h \in Holds : /\ hold'[h].listing = l
                    /\ \E p \in Orders : Keeping(p)' /\ h \in order'[p].lines}
      BY DEF LinesKept
    <3> QED
      BY <1>2, <1>12, <3>2, <3>3 DEF LinesKept
  <2>4. HeldOn(l) \cap B = {h \in B : hold[h].listing = l}
    BY <1>2 DEF HeldOn
  <2>5. KeptOn(l)' = KeptOn(l)
    BY <1>1, <2>1, <2>2, <2>3, <2>4, KeptAre
  <2>6. KeptOn(l) \in SUBSET Holds
    BY <1>1, KeptAre DEF HeldOn, LinesKept
  <2>7. Units(KeptOn(l))' = Units(KeptOn(l))
    <3>1. \A h \in KeptOn(l) :
            hold'[h].quantity = [k \in KeptOn(l) |-> hold[k].quantity][h]
      BY <1>12, <2>6
    <3> QED
      BY <2>5, <3>1, KeptUnitsNext DEF Units
  <2>8. Accounted(l)' = Accounted(l) /\ supply'[l] = supply[l]
    BY <1>3, <2>7 DEF Accounted
  <2>9. Excused(l) => Excused(l)'
    <3>1. \A p \in resettled : order[p].lines \subseteq order'[p].lines
      BY <1>1, <1>4 DEF PayTypeOK
    <3> QED
      BY <1>1, <1>3, <1>12, <3>1, ExcusedStays
  <2>10. OrdersBook(l)
    BY DEF BookInv
  <2> QED
    BY <2>8, <2>9, <2>10 DEF OrdersBook
<1> QED
  BY <1>8, <1>10, <1>11, <1>13 DEF BookInv

\* What is kept of a listing but for one order's lines.
Rest(l, o) == HeldOn(l) \cup UNION {LinesOn(p, l) : p \in {q \in Orders : q # o /\ Keeping(q)}}

\* An order's lines are counted apart from everything else that is kept.
LEMMA KeptApart ==
    ASSUME BookInv, NEW o \in Orders, NEW l \in Listings
    PROVE  /\ KeptOn(l) = IF Keeping(o) THEN Rest(l, o) \cup LinesOn(o, l) ELSE Rest(l, o)
           /\ Tally(Rest(l, o), Qty) \in Nat
           /\ Units(LinesOn(o, l)) \in Nat
           /\ Tally(Rest(l, o) \cup LinesOn(o, l), Qty) =
                 Tally(Rest(l, o), Qty) + Units(LinesOn(o, l))
           /\ Units(KeptOn(l)) = Tally(Rest(l, o), Qty)
                 + (IF Keeping(o) THEN Units(LinesOn(o, l)) ELSE 0)
           /\ \A h \in Rest(l, o) \cup LinesOn(o, l) : Qty[h] = hold[h].quantity
<1> DEFINE R == Rest(l, o)
           B == LinesOn(o, l)
<1>1. StockTypeOK /\ PayTypeOK /\ OneOrderPerHold /\ LinesEnded
  BY DEF BookInv
<1>2. R \in SUBSET Holds /\ B \in SUBSET Holds
  BY <1>1, LinesAreHolds DEF Rest, LinesOn, HeldOn
<1>3. R \cap B = {}
  BY <1>1 DEF Rest, LinesOn, HeldOn, LinesEnded, OneOrderPerHold
<1>4. KeptOn(l) = IF Keeping(o) THEN R \cup B ELSE R
  BY DEF KeptOn, Rest, Keeping
<1>5. \A h \in R \cup B : hold[h] # NoRow
  BY <1>1, HeldNotNoRow DEF Rest, LinesOn, HeldOn, LinesEnded
<1>6. \A h \in R \cup B : Qty[h] \in 1..MaxQty /\ Qty[h] = hold[h].quantity
  BY <1>1, <1>2, <1>5, HeldIsRow DEF Qty
<1>7. Units(B) = Tally(B, Qty)
  BY <1>2, UnitsAreTallies
<1>8. Units(KeptOn(l)) = Tally(KeptOn(l), Qty)
  BY <1>2, <1>4, UnitsAreTallies
<1> HIDE DEF R, B
<1>9. /\ Tally(R, Qty) \in Nat /\ Tally(B, Qty) \in Nat
      /\ Tally(R \cup B, Qty) = Tally(R, Qty) + Tally(B, Qty)
  BY <1>2, <1>3, <1>6, UnitsSplit, ZenonT(30)
<1> DEFINE r == Tally(R, Qty)
           b == Tally(B, Qty)
           k == Tally(R \cup B, Qty)
<1>10. Tally(KeptOn(l), Qty) = IF Keeping(o) THEN k ELSE r
  BY <1>4
<1> HIDE DEF r, b, k
<1>11. r + 0 = r
  BY <1>9 DEF r
<1>12. Units(KeptOn(l)) = r + (IF Keeping(o) THEN b ELSE 0)
  BY <1>8, <1>9, <1>10, <1>11 DEF r, b, k
<1> QED
  BY <1>4, <1>6, <1>7, <1>9, <1>12 DEF R, B, r, b

\* Settling an order keeps its units in it, or gives them back; to do so to an
\* order that had been settled differently makes units up.
LEMMA SettleBook ==
    ASSUME BookInv, StockTypeOK', PayTypeOK', NEW o \in Orders, NEW keep \in BOOLEAN,
           UNCHANGED <<hold, releasing, sweeping, editing, supply, overtaken>>,
           \A p \in Orders : order'[p].lines = order[p].lines,
           \A p \in Orders : p # o => Keeping(p)' = Keeping(p),
           Keeping(o)' = keep, resettled \subseteq resettled',
           Keeping(o) \/ o \in resettled',
           \A l \in Listings : listing'[l].quantity =
              listing[l].quantity + (IF keep THEN 0 ELSE Units(LinesOn(o, l)))
    PROVE  BookInv'
<1>1. /\ StockTypeOK /\ RowsExist /\ PayTypeOK /\ OneOrderPerHold /\ LinesEnded
  BY DEF BookInv
<1>2. RowsExist' /\ OneOrderPerHold' /\ LinesEnded'
  BY <1>1 DEF RowsExist, OneOrderPerHold, LinesEnded, Held
<1>3. ASSUME NEW l \in Listings PROVE OrdersBook(l)'
  <2> DEFINE R == Rest(l, o)
             B == LinesOn(o, l)
             r == Tally(R, Qty)
             b == Units(B)
             c == IF Keeping(o) THEN 0 ELSE b
  <2>1. /\ r \in Nat /\ b \in Nat
        /\ Tally(R \cup B, Qty) = r + b
        /\ Units(KeptOn(l)) = r + (IF Keeping(o) THEN b ELSE 0)
        /\ \A h \in R \cup B : Qty[h] = hold[h].quantity
    BY KeptApart
  <2>2. KeptOn(l)' = IF keep THEN R \cup B ELSE R
    BY DEF KeptOn, Rest, Keeping, LinesOn, HeldOn, Held
  <2>3. \A h \in R \cup B : hold'[h].quantity = Qty[h]
    BY <2>1
  <2>4. Units(KeptOn(l))' = IF keep THEN r + b ELSE r
    <3>1. CASE keep
      <4>1. KeptOn(l)' = R \cup B
        BY <2>2, <3>1
      <4>2. Units(KeptOn(l))' = Tally(R \cup B, Qty)
        BY <2>3, <4>1, KeptUnitsNext
      <4> QED
        BY <2>1, <3>1, <4>2
    <3>2. CASE ~keep
      <4>1. KeptOn(l)' = R
        BY <2>2, <3>2
      <4>2. Units(KeptOn(l))' = Tally(R, Qty)
        BY <2>3, <4>1, KeptUnitsNext
      <4> QED
        BY <3>2, <4>2
    <3> QED
      BY <3>1, <3>2
  <2> DEFINE x == listing[l].quantity
             y == listing'[l].quantity
             a == Units(KeptOn(l))
             z == Units(KeptOn(l))'
  <2>5. /\ x \in Nat /\ y = x + (IF keep THEN 0 ELSE b)
        /\ a = r + (IF Keeping(o) THEN b ELSE 0)
        /\ z = IF keep THEN r + b ELSE r
        /\ r \in Nat /\ b \in Nat
    BY <1>1, <2>1, <2>4, AccountType
  <2>6. Accounted(l) = x + a /\ Accounted(l)' = y + z /\ supply'[l] = supply[l]
    BY DEF Accounted
  <2>7. c \in Nat /\ (c = 0 \/ ~Keeping(o)) /\ c = IF Keeping(o) THEN 0 ELSE b
    BY <2>1
  <2> HIDE DEF x, y, a, z, r, b, c
  <2>8. x + a \in Int /\ y + z \in Int /\ y + z = x + a + c
    <3>1. CASE keep /\ Keeping(o)
      BY <2>5, <2>7, <3>1
    <3>2. CASE keep /\ ~Keeping(o)
      BY <2>5, <2>7, <3>2
    <3>3. CASE ~keep /\ Keeping(o)
      BY <2>5, <2>7, <3>3
    <3>4. CASE ~keep /\ ~Keeping(o)
      BY <2>5, <2>7, <3>4
    <3> QED
      BY <3>1, <3>2, <3>3, <3>4
  <2>9. supply[l] \in Int
    BY <1>1, AccountType
  <2>10. Accounted(l)' - supply'[l] = Accounted(l) - supply[l] + c
    BY <2>6, <2>7, <2>8, <2>9
  <2>11. Excused(l) => Excused(l)'
    <3>1. \A p \in resettled : order[p].lines \subseteq order'[p].lines
      BY <1>1 DEF PayTypeOK
    <3> QED
      BY <1>1, <3>1, ExcusedStays
  <2>12. CASE c = 0
    BY <2>6, <2>7, <2>8, <2>9, <2>10, <2>11, <2>12, BookKept DEF BookInv
  <2>13. CASE c # 0
    <3>1. o \in resettled'
      BY <2>7, <2>13
    <3>2. LinesOn(o, l) # {}
      <4> SUFFICES ASSUME LinesOn(o, l) = {} PROVE FALSE
        OBVIOUS
      <4>1. Tally({}, [h \in {} |-> hold[h].quantity]) = 0
        BY TallyEmpty
      <4>2. b = 0
        BY <4>1 DEF b, B, Units
      <4> QED
        BY <2>7, <2>13, <4>2
    <3>3. Excused(l)'
      BY <3>1, <3>2 DEF Excused, LinesOn
    <3> QED
      BY <2>6, <2>7, <2>8, <2>9, <2>10, <3>3, BookKept DEF BookInv
  <2> QED
    BY <2>12, <2>13
<1> QED
  BY <1>2, <1>3 DEF BookInv

\* Settling an order as paid keeps the books.
LEMMA WritePaidBook ==
    ASSUME PayInv, BookInv, PayTypeOK', NEW w \in Workers, WritePaid(w),
           NEW o \in Orders, o = worker[w].order
    PROVE  BookInv'
<1>1. /\ StockTypeOK /\ PayTypeOK
      /\ listing \in [Listings -> ListingRow]
  BY DEF BookInv, StockTypeOK
<1>2. order[o] # NoOrder
  BY DEF PayInv, RowsAreThere, WritePaid
<1>3. order[o] \in OrderRow
  BY <1>1, <1>2, OrderIsRow
<1>4. /\ order' = [order EXCEPT ![o].status = "PAID", ![o].idle = FALSE]
      /\ resettled' = IF Committed(o) THEN resettled ELSE resettled \cup {o}
      /\ UNCHANGED <<hold, releasing, sweeping, editing, supply, overtaken>>
  BY DEF WritePaid
<1>5. /\ order'[o].status = "PAID" /\ order'[o].lines = order[o].lines
      /\ \A p \in Orders : p # o => order'[p] = order[p]
  BY <1>1, <1>3, <1>4 DEF PayTypeOK, OrderRow
<1>6. Keeping(o)' = TRUE /\ \A p \in Orders : p # o => Keeping(p)' = Keeping(p)
  BY <1>5 DEF Keeping, Committed, Sold
<1>7. \A l \in Listings : listing'[l] \in ListingRow /\ listing'[l].quantity = listing[l].quantity
  <2>1. \A l \in Listings : \/ listing'[l] = listing[l]
                            \/ listing'[l] = [listing[l] EXCEPT !.status = "SOLD"]
    BY DEF WritePaid
  <2> QED
    BY <1>1, <2>1 DEF ListingRow, ListingStatus
<1>8. listing' \in [Listings -> ListingRow]
  BY <1>7 DEF WritePaid
<1>9. StockTypeOK'
  BY <1>1, <1>4, <1>8 DEF StockTypeOK
<1>10. \A l \in Listings : listing'[l].quantity = listing[l].quantity + 0
  BY <1>1, <1>7 DEF ListingRow
<1>11. \A p \in Orders : order'[p].lines = order[p].lines
  BY <1>5
<1>12. Keeping(o) \/ o \in resettled'
  BY <1>4 DEF Keeping
<1>13. resettled \subseteq resettled'
  BY <1>4
<1>14. \A l \in Listings : listing'[l].quantity =
          listing[l].quantity + (IF TRUE THEN 0 ELSE Units(LinesOn(o, l)))
  BY <1>10
<1> QED
  BY <1>4, <1>6, <1>9, <1>11, <1>12, <1>13, <1>14, SettleBook

\* So does releasing it.
LEMMA WriteReleaseBook ==
    ASSUME PayInv, BookInv, PayTypeOK', NEW w \in Workers, WriteRelease(w),
           NEW o \in Orders, o = worker[w].order
    PROVE  BookInv'
<1>1. /\ StockTypeOK /\ PayTypeOK
      /\ listing \in [Listings -> ListingRow]
  BY DEF BookInv, StockTypeOK
<1>2. order[o] # NoOrder /\ worker[w].to \in {"FAILED", "CANCELLED"}
  BY DEF PayInv, RowsAreThere, Misending, WriteRelease
<1>3. order[o] \in OrderRow
  BY <1>1, <1>2, OrderIsRow
<1>4. /\ order' = [order EXCEPT ![o].status = worker[w].to, ![o].idle = FALSE]
      /\ resettled' = IF Committed(o) THEN resettled ELSE resettled \cup {o}
      /\ UNCHANGED <<hold, releasing, sweeping, editing, supply, overtaken>>
  BY DEF WriteRelease
<1>5. /\ order'[o].status = worker[w].to /\ order'[o].lines = order[o].lines
      /\ \A p \in Orders : p # o => order'[p] = order[p]
  BY <1>1, <1>3, <1>4 DEF PayTypeOK, OrderRow
<1>6. Keeping(o)' = FALSE /\ \A p \in Orders : p # o => Keeping(p)' = Keeping(p)
  BY <1>2, <1>5 DEF Keeping, Committed, Sold
<1>7. \A l \in Listings : Units(LinesOn(o, l)) \in Nat
  BY KeptApart
<1>8. ASSUME NEW l \in Listings
      PROVE  /\ listing'[l] \in ListingRow
             /\ listing'[l].quantity = listing[l].quantity + Units(LinesOn(o, l))
  <2> DEFINE b == Units(LinesOn(o, l))
  <2>1. listing[l] \in ListingRow /\ b \in Nat
    BY <1>1, <1>7
  <2>2. CASE l \in ListingsOf(o)
    <3>1. listing'[l] = Restocked(listing[l], b)
      BY <2>2 DEF WriteRelease, Returned
    <3> HIDE DEF b
    <3>2. listing'[l] \in ListingRow /\ listing'[l].quantity = listing[l].quantity + b
      BY <2>1, <3>1, RestockedType
    <3> QED
      BY <3>2 DEF b
  <2>3. CASE l \notin ListingsOf(o)
    <3>1. listing'[l] = listing[l]
      BY <2>3 DEF WriteRelease
    <3>2. LinesOn(o, l) = {}
      BY <2>3 DEF LinesOn, ListingsOf
    <3>3. Tally({}, [h \in {} |-> hold[h].quantity]) = 0
      BY TallyEmpty
    <3>4. b = 0
      BY <3>2, <3>3 DEF Units
    <3>5. listing[l].quantity + 0 = listing[l].quantity
      BY <2>1 DEF ListingRow
    <3> QED
      BY <2>1, <3>1, <3>4, <3>5
  <2> QED
    BY <2>2, <2>3
<1>9. listing' \in [Listings -> ListingRow]
  BY <1>8 DEF WriteRelease
<1>10. StockTypeOK'
  BY <1>1, <1>4, <1>9 DEF StockTypeOK
<1>11. \A p \in Orders : order'[p].lines = order[p].lines
  BY <1>5
<1>12. Keeping(o) \/ o \in resettled'
  BY <1>4 DEF Keeping
<1>13. resettled \subseteq resettled'
  BY <1>4
<1>14. \A l \in Listings : listing'[l].quantity =
          listing[l].quantity + (IF FALSE THEN 0 ELSE Units(LinesOn(o, l)))
  BY <1>8
<1> QED
  BY <1>4, <1>6, <1>10, <1>11, <1>12, <1>13, <1>14, SettleBook

\* Every other step changes no line, and nothing an order keeps.
PaperStep ==
    /\ UNCHANGED stockVars /\ UNCHANGED resettled
    /\ \A o \in Orders : /\ order'[o].lines = order[o].lines
                         /\ Committed(o)' = Committed(o) /\ Sold(o)' = Sold(o)

\* The steps that touch stock, and the others, which only touch paper.
LEMMA PaperSteps ==
    ASSUME PayInv, [Next]_vars
    PROVE  \/ StockNext /\ UNCHANGED payVars
           \/ \E u \in Users, o \in Orders : Checkout(u, o)
           \/ \E w \in Workers : WritePaid(w) /\ worker[w].order \in Orders
           \/ \E w \in Workers : WriteRelease(w) /\ worker[w].order \in Orders
           \/ PaperStep
<1>1. PayTypeOK
  BY DEF PayInv
<1>2. ASSUME UNCHANGED <<stockVars, order, resettled>> PROVE PaperStep
  BY <1>2 DEF PaperStep, Committed, Sold
<1>3. ASSUME NEW o \in Orders, NEW row \in OrderRow, order' = [order EXCEPT ![o] = row],
             UNCHANGED <<stockVars, resettled>>, row.lines = order[o].lines,
             row.status = order[o].status \/
                {row.status, order[o].status} \subseteq {"PENDING_PAYMENT", "PROCESSING"}
      PROVE  PaperStep
  <2>1. order'[o] = row /\ \A p \in Orders : p # o => order'[p] = order[p]
    BY <1>1, <1>3 DEF PayTypeOK
  <2>2. ASSUME NEW p \in Orders
        PROVE  /\ order'[p].lines = order[p].lines
               /\ Committed(p)' = Committed(p) /\ Sold(p)' = Sold(p)
    BY <1>3, <2>1 DEF Committed, Sold
  <2> QED
    BY <1>3, <2>2 DEF PaperStep
<1>4. ASSUME NEW w \in Workers, NEW o \in Orders, Pay(w, o) PROVE PaperStep
  <2> DEFINE row == [order[o] EXCEPT !.status = "PROCESSING", !.idle = FALSE]
  <2>1. order[o].status = "PENDING_PAYMENT"
    BY <1>4 DEF Pay, Claimable
  <2>2. order[o] # NoOrder
    BY <2>1, StatusIsRow DEF OrderStatus
  <2>3. row \in OrderRow /\ row.status = "PROCESSING" /\ row.lines = order[o].lines
    BY <1>1, <2>2, RowChanges DEF OrderStatus
  <2>4. order' = [order EXCEPT ![o] = row] /\ UNCHANGED <<stockVars, resettled>>
    BY <1>1, <1>4 DEF Pay, PayTypeOK
  <2> HIDE DEF row
  <2> QED
    BY <1>3, <2>1, <2>3, <2>4
<1>5. ASSUME NEW w \in Workers, Unclaim(w) PROVE PaperStep
  <2>1. PICK o \in Orders : o = worker[w].order
    BY <1>1, <1>5, BusyHasJob DEF Unclaim
  <2>2. UNCHANGED <<stockVars, resettled>>
    BY <1>5 DEF Unclaim
  <2>3. CASE order[o].status # "PROCESSING"
    BY <1>2, <1>5, <2>1, <2>2, <2>3 DEF Unclaim
  <2>4. CASE order[o].status = "PROCESSING"
    <3> DEFINE row == [order[o] EXCEPT !.status = "PENDING_PAYMENT", !.idle = FALSE]
    <3>1. order[o] # NoOrder
      BY <2>4, StatusIsRow DEF OrderStatus
    <3>2. row \in OrderRow /\ row.status = "PENDING_PAYMENT" /\ row.lines = order[o].lines
      BY <1>1, <3>1, RowChanges DEF OrderStatus
    <3>3. order' = [order EXCEPT ![o] = row]
      BY <1>1, <1>5, <2>1, <2>4 DEF Unclaim, PayTypeOK
    <3> HIDE DEF row
    <3> QED
      BY <1>3, <2>2, <2>4, <3>2, <3>3
  <2> QED
    BY <2>3, <2>4
<1>6. ASSUME NEW o \in Orders, Ages(o) \/ Idles(o) PROVE PaperStep
  <2>1. order[o] # NoOrder /\ UNCHANGED <<stockVars, resettled>>
    BY <1>6 DEF Ages, Idles, Committed, NoOrder
  <2>2. order[o] \in OrderRow
    BY <1>1, <2>1, OrderIsRow
  <2>3. CASE Ages(o)
    <3> DEFINE row == [order[o] EXCEPT !.aged = TRUE]
    <3>1. row \in OrderRow /\ row.status = order[o].status /\ row.lines = order[o].lines
      BY <2>2 DEF OrderRow
    <3>2. order' = [order EXCEPT ![o] = row]
      BY <2>3 DEF Ages
    <3> HIDE DEF row
    <3> QED
      BY <1>3, <2>1, <3>1, <3>2
  <2>4. CASE Idles(o)
    <3> DEFINE row == [order[o] EXCEPT !.idle = TRUE]
    <3>1. row \in OrderRow /\ row.status = order[o].status /\ row.lines = order[o].lines
      BY <2>2 DEF OrderRow
    <3>2. order' = [order EXCEPT ![o] = row]
      BY <2>4 DEF Idles
    <3> HIDE DEF row
    <3> QED
      BY <1>3, <2>1, <3>1, <3>2
  <2> QED
    BY <1>6, <2>3, <2>4
<1>7. \A w \in Workers : WritePaid(w) \/ WriteRelease(w) => worker[w].order \in Orders
  BY <1>1, BusyHasJob DEF WritePaid, WriteRelease
<1>8. ASSUME NEW w \in Workers, Step(w) \/ Crash(w)
      PROVE  WritePaid(w) \/ WriteRelease(w) \/ PaperStep
  BY <1>2, <1>5, <1>8 DEF Step, Confirm, Ask, CancelIntent, ReadPaid, Tell,
                          ReadRelease, Crash
<1>9. ASSUME NEW w \in Workers, NEW o \in Orders, Request(w, o) \/ Turn(w, o)
      PROVE  PaperStep
  BY <1>2, <1>4, <1>9 DEF Request, Turn, Cancel, Webhook, Abandon, Reconcile
<1>10. ASSUME NEW o \in Orders, OpenPayment(o) \/ Outside(o)
       PROVE  PaperStep
  BY <1>2, <1>6, <1>10 DEF OpenPayment, Outside, BrowserConfirm, ProviderForgets
<1>11. CASE UNCHANGED vars
  BY <1>2, <1>11 DEF vars, payVars
<1> QED
  BY <1>7, <1>8, <1>9, <1>10, <1>11, OrdersAssumption DEF Next

\* Every step keeps the books.
LEMMA BookSteps ==
    ASSUME PayInv, BookInv, [Next]_vars
    PROVE  BookInv'
<1>1. PayTypeOK'
  BY PaySteps DEF PayInv
<1>2. CASE StockNext /\ UNCHANGED payVars
  BY <1>2, StockBook
<1>3. CASE \E u \in Users, o \in Orders : Checkout(u, o)
  BY <1>1, <1>3, CheckoutBook
<1>4. CASE \E w \in Workers : WritePaid(w) /\ worker[w].order \in Orders
  BY <1>1, <1>4, WritePaidBook
<1>5. CASE \E w \in Workers : WriteRelease(w) /\ worker[w].order \in Orders
  BY <1>1, <1>5, WriteReleaseBook
<1>6. CASE PaperStep
  <2>1. \A o \in Orders : order'[o].lines = order[o].lines /\ Keeping(o)' = Keeping(o)
    BY <1>6 DEF PaperStep, Keeping
  <2>2. UNCHANGED stockVars /\ resettled \subseteq resettled'
    BY <1>6 DEF PaperStep
  <2> QED
    BY <1>1, <2>1, <2>2, PaperBook
<1> QED
  BY <1>2, <1>3, <1>4, <1>5, <1>6, PaperSteps

\* The books are right at the start.
LEMMA BookStarts ==
    ASSUME Init
    PROVE  BookInv
<1>1. PayTypeOK
  BY PayStarts DEF PayInv
<1>2. StockTypeOK /\ RowsExist /\ \A l \in Listings : Balance(l)
  BY InitIInv DEF IInv, Init
<1>3. \A o \in Orders : order[o].lines = {}
  BY DEF Init, NoOrder
<1>4. OneOrderPerHold /\ LinesEnded
  BY <1>3 DEF OneOrderPerHold, LinesEnded
<1>5. ASSUME NEW l \in Listings PROVE OrdersBook(l)
  <2>1. LinesKept(l) = {}
    BY <1>3 DEF LinesKept
  <2>2. Tally({}, Qty) = 0
    BY TallyEmpty
  <2> DEFINE a == HeldUnits(l)
  <2>3. a \in Nat /\ listing[l].quantity \in Nat
    BY <1>2, HeldUnitsType DEF StockTypeOK, ListingRow
  <2>4. Accounted(l) = listing[l].quantity + a + 0
    BY <1>1, <1>2, <1>4, <2>1, <2>2, AccountType
  <2>5. /\ listing[l].quantity + a >= supply[l]
        /\ listing[l].quantity + a = supply[l] \/ \E h \in overtaken : hold[h].listing = l
    BY <1>2 DEF Balance
  <2> HIDE DEF a
  <2>6. Accounted(l) = listing[l].quantity + a
    BY <2>3, <2>4
  <2> QED
    BY <2>5, <2>6 DEF OrdersBook, Excused
<1> QED
  BY <1>1, <1>2, <1>4, <1>5 DEF BookInv

\* Payments and books are right throughout.
LEMMA AlwaysBookInv == Spec => [](PayInv /\ BookInv)
<1>1. Init => PayInv /\ BookInv
  BY PayStarts, BookStarts
<1>2. PayInv /\ BookInv /\ [Next]_vars => (PayInv /\ BookInv)'
  BY PaySteps, BookSteps
<1> QED
  BY <1>1, <1>2, PTL DEF Spec

-----------------------------------------------------------------------------
(***************************************************************************)
(* Hidden listings.  A listing is hidden with its last unit, and whoever   *)
(* took it sells it or gives it back; unless the seller gave a hidden      *)
(* listing a new quantity, for then the payment finds stock left and       *)
(* leaves it as it is.                                                     *)
(***************************************************************************)
Backed(l) ==
    \/ \E h \in Holds : Held(h) /\ hold[h].listing = l
    \/ \E o \in Orders : Committed(o) /\ \E h \in order[o].lines : hold[h].listing = l

HiddenInv ==
    \A l \in Listings :
        listing[l].status = "RESERVED" => listing[l].quantity = 0 /\ Backed(l)

\* A step that leaves the live holds of a listing and what orders are committed
\* to leaves it backed.
LEMMA BackedStays ==
    ASSUME BookInv, NEW l \in Listings, Backed(l),
           \A h \in HeldOn(l) : hold'[h].status = "HELD" /\ hold'[h].listing = l,
           \A h \in Holds : hold[h] # NoRow => hold'[h].listing = hold[h].listing,
           \A o \in Orders : Committed(o) /\ (\E h \in order[o].lines : hold[h].listing = l) =>
              Committed(o)' /\ order'[o].lines = order[o].lines
    PROVE  Backed(l)'
<1>1. CASE \E h \in Holds : Held(h) /\ hold[h].listing = l
  BY <1>1 DEF HeldOn, Backed, Held
<1>2. ASSUME NEW o \in Orders, Committed(o), NEW h \in order[o].lines, hold[h].listing = l
      PROVE  Backed(l)'
  <2>1. h \in Holds /\ hold[h] # NoRow
    BY <1>2, LinesAreHolds DEF BookInv, LinesEnded
  <2>2. Committed(o)' /\ h \in order'[o].lines /\ hold'[h].listing = l
    BY <1>2, <2>1
  <2> QED
    BY <2>2 DEF Backed
<1> QED
  BY <1>1, <1>2 DEF Backed

\* A hidden listing stays backed by what will bring it back or sell it, as
\* long as no seller writes a quantity.
LEMMA HiddenSteps ==
    ASSUME "quantity" \notin EditKinds, PayInv, BookInv, HiddenInv, [Next]_vars
    PROVE  HiddenInv'
<1>0. /\ StockTypeOK /\ RowsExist /\ PayTypeOK /\ LinesEnded
      /\ listing \in [Listings -> ListingRow]
      /\ hold \in [Holds -> HoldRow \cup {NoRow}]
  BY DEF BookInv, StockTypeOK
<1> SUFFICES ASSUME NEW l \in Listings, listing'[l].status = "RESERVED"
             PROVE  listing'[l].quantity = 0 /\ Backed(l)'
  BY DEF HiddenInv
<1>1. CASE StockNext /\ UNCHANGED payVars
  <2>1. StaysHidden(l)
    BY <1>0, <1>1, HiddenNext
  <2>2. \A o \in Orders : Committed(o)' = Committed(o) /\ order'[o].lines = order[o].lines
    BY <1>1 DEF payVars, Committed
  <2>3. CASE /\ listing'[l].quantity = 0
             /\ \E k \in Holds : hold'[k].status = "HELD" /\ hold'[k].listing = l
    BY <2>3 DEF Backed, Held
  <2>4. CASE /\ listing[l].status = "RESERVED"
             /\ "quantity" \notin EditKinds => listing'[l].quantity = listing[l].quantity
             /\ \A k \in HeldOn(l) : hold'[k].status = "HELD" /\ hold'[k].listing = l
    <3>1. listing'[l].quantity = 0 /\ Backed(l)
      BY <2>4 DEF HiddenInv
    <3>2. \A h \in Holds : hold[h] # NoRow => hold'[h].listing = hold[h].listing
      BY <1>0, <1>1, RowsStay
    <3> QED
      BY <2>2, <2>4, <3>1, <3>2, BackedStays
  <2> QED
    BY <2>1, <2>3, <2>4 DEF StaysHidden
<1>2. ASSUME NEW u \in Users, NEW o \in Orders, Checkout(u, o)
      PROVE  listing'[l].quantity = 0 /\ Backed(l)'
  <2> DEFINE B == BasketOf(u)
  <2>1. listing' = listing
    BY <1>2 DEF Checkout
  <2>2. listing[l].quantity = 0 /\ Backed(l)
    BY <2>1 DEF HiddenInv
  <2>3. /\ \A h \in B : Held(h) /\ hold[h] \in HoldRow
        /\ B \in SUBSET Holds
    BY <1>0, HeldNotNoRow, HeldIsRow DEF BasketOf
  <2>4. /\ order[o] = NoOrder
        /\ order' = [order EXCEPT ![o] =
               [status |-> "PENDING_PAYMENT", buyer |-> u, lines |-> B,
                aged |-> FALSE, idle |-> FALSE]]
        /\ hold' = [h \in Holds |->
               IF h \in B THEN [hold[h] EXCEPT !.status = "CONVERTED"] ELSE hold[h]]
    BY <1>2 DEF Checkout
  <2> HIDE DEF B
  <2>5. \A h \in Holds : hold'[h].listing = hold[h].listing
    BY <2>3, <2>4 DEF HoldRow
  <2>6. /\ order'[o].lines = B /\ order'[o].status = "PENDING_PAYMENT"
        /\ \A p \in Orders : p # o => order'[p] = order[p]
    BY <1>0, <2>4 DEF PayTypeOK
  <2>7. CASE \E h \in B : hold[h].listing = l
    BY <2>1, <2>2, <2>3, <2>5, <2>6, <2>7 DEF Backed, Committed
  <2>8. CASE ~ \E h \in B : hold[h].listing = l
    <3>1. \A h \in HeldOn(l) : hold'[h].status = "HELD" /\ hold'[h].listing = l
      BY <2>4, <2>8 DEF HeldOn, Held
    <3>2. \A p \in Orders : Committed(p) => Committed(p)' /\ order'[p].lines = order[p].lines
      BY <2>4, <2>6 DEF Committed, NoOrder
    <3> QED
      BY <2>1, <2>2, <2>5, <3>1, <3>2, BackedStays
  <2> QED
    BY <2>7, <2>8
<1>3. ASSUME NEW w \in Workers, NEW o \in Orders, o = worker[w].order,
             WritePaid(w) \/ WriteRelease(w)
      PROVE  listing'[l].quantity = 0 /\ Backed(l)'
  <2>1. UNCHANGED hold
    BY <1>3 DEF WritePaid, WriteRelease
  <2>2. \A p \in Orders : p # o => order'[p] = order[p]
    BY <1>0, <1>3 DEF WritePaid, WriteRelease, PayTypeOK
  <2>3. l \notin ListingsOf(o) /\ listing'[l] = listing[l]
    <3>1. CASE WritePaid(w)
      <4>1. \/ SellsOut(o, l) /\ listing'[l] = [listing[l] EXCEPT !.status = "SOLD"]
            \/ ~SellsOut(o, l) /\ listing'[l] = listing[l]
        BY <1>3, <3>1 DEF WritePaid
      <4>2. [listing[l] EXCEPT !.status = "SOLD"].status = "SOLD"
        BY <1>0 DEF ListingRow
      <4>3. ~SellsOut(o, l) /\ listing'[l] = listing[l]
        BY <4>1, <4>2
      <4>4. listing[l].quantity = 0
        BY <4>3 DEF HiddenInv
      <4> QED
        BY <4>3, <4>4 DEF SellsOut
    <3>2. CASE WriteRelease(w)
      <4>1. listing'[l] = IF l \in ListingsOf(o) THEN Returned(o, l) ELSE listing[l]
        BY <1>3, <3>2 DEF WriteRelease
      <4>2. l \notin ListingsOf(o)
        <5> SUFFICES ASSUME l \in ListingsOf(o) PROVE FALSE
          OBVIOUS
        <5> DEFINE b == Units(LinesOn(o, l))
        <5>1. listing'[l] = Restocked(listing[l], b) /\ listing[l] \in ListingRow
          BY <1>0, <4>1 DEF Returned
        <5> HIDE DEF b
        <5>2. listing'[l].status = Relisted(listing[l].status)
          BY <5>1 DEF Restocked, ListingRow
        <5> QED
          BY <5>2 DEF Relisted
      <4> QED
        BY <4>1, <4>2
    <3> QED
      BY <1>3, <3>1, <3>2
  <2>4. listing[l].quantity = 0 /\ Backed(l)
    BY <2>3 DEF HiddenInv
  <2>5. ~ \E h \in order[o].lines : hold[h].listing = l
    BY <2>3 DEF ListingsOf
  <2>6. \A p \in Orders : Committed(p) /\ (\E h \in order[p].lines : hold[h].listing = l) =>
              Committed(p)' /\ order'[p].lines = order[p].lines
    BY <2>2, <2>5 DEF Committed
  <2>7. \A h \in HeldOn(l) : hold'[h].status = "HELD" /\ hold'[h].listing = l
    BY <2>1 DEF HeldOn, Held
  <2> QED
    BY <2>1, <2>3, <2>4, <2>6, <2>7, BackedStays
<1>4. CASE PaperStep
  <2>1. UNCHANGED <<listing, hold>>
    BY <1>4 DEF PaperStep, stockVars
  <2>2. listing[l].quantity = 0 /\ Backed(l)
    BY <2>1 DEF HiddenInv
  <2>3. \A p \in Orders : Committed(p) => Committed(p)' /\ order'[p].lines = order[p].lines
    BY <1>4 DEF PaperStep
  <2>4. \A h \in HeldOn(l) : hold'[h].status = "HELD" /\ hold'[h].listing = l
    BY <2>1 DEF HeldOn, Held
  <2> QED
    BY <2>1, <2>2, <2>3, <2>4, BackedStays
<1> QED
  BY <1>1, <1>2, <1>3, <1>4, PaperSteps

-----------------------------------------------------------------------------
(***************************************************************************)
(* Stock: the theorems                                                     *)
(***************************************************************************)

\* Rows keep their types, no hold is bought twice, and every unit a seller put
\* up is on the shelf, on hold or in an order that keeps it: none is lost, and
\* none is made up but where a release or a settlement acted on a status that
\* somebody else had changed since.
THEOREM StockKeptByOrders ==
    Spec => [](TypeOK /\ OneOrderPerHold /\ OrdersLoseNoStock /\ OrdersConserveStock)
<1>1. PayInv /\ BookInv => TypeOK /\ OneOrderPerHold /\ OrdersLoseNoStock
                            /\ OrdersConserveStock
  <2> SUFFICES ASSUME PayInv, BookInv
               PROVE  TypeOK /\ OneOrderPerHold /\ OrdersLoseNoStock
                         /\ OrdersConserveStock
    OBVIOUS
  <2>1. TypeOK
    BY DEF BookInv, TypeOK, PayTypeOK
  <2>2. OrdersLoseNoStock
    BY DEF BookInv, OrdersBook, OrdersLoseNoStock
  <2>3. OrdersConserveStock
    <3>1. ASSUME NEW l \in Listings, Excused(l)
          PROVE  \/ \E h \in overtaken : hold[h].listing = l
                 \/ \E o \in resettled : l \in ListingsOf(o)
      BY <3>1 DEF Excused, ListingsOf
    <3> QED
      BY <3>1 DEF BookInv, OrdersBook, OrdersConserveStock
  <2> QED
    BY <2>1, <2>2, <2>3 DEF BookInv
<1> QED
  BY <1>1, AlwaysBookInv, PTL

\* The whole of it: as long as no seller writes a quantity over one that is
\* held, a hidden listing also has a live hold or an unfinished order that will
\* bring it back or sell it.
THEOREM OrdersInvAlways ==
    ASSUME "quantity" \notin EditKinds
    PROVE  Spec => []OrdersInv
<1>1. Init => PayInv /\ BookInv /\ HiddenInv
  <2>1. Init => HiddenInv
    <3>1. ASSUME Init, NEW l \in Listings PROVE listing[l].status # "RESERVED"
      BY <3>1 DEF Init, StockInit
    <3> QED
      BY <3>1 DEF HiddenInv
  <2> QED
    BY <2>1, PayStarts, BookStarts
<1>2. PayInv /\ BookInv /\ HiddenInv /\ [Next]_vars => (PayInv /\ BookInv /\ HiddenInv)'
  BY PaySteps, BookSteps, HiddenSteps
<1>3. HiddenInv => HiddenOnlyWhileCommitted
  <2>1. ASSUME NEW l \in Listings, Backed(l)
        PROVE  HeldOn(l) # {} \/ \E o \in Orders : Committed(o) /\ l \in ListingsOf(o)
    BY <2>1 DEF Backed, HeldOn, ListingsOf
  <2> QED
    BY <2>1 DEF HiddenInv, HiddenOnlyWhileCommitted
<1>4. Spec => []HiddenOnlyWhileCommitted
  BY <1>1, <1>2, <1>3, PTL DEF Spec
<1> QED
  BY <1>4, StockKeptByOrders, PTL DEF OrdersInv
=============================================================================
