-------------------------- MODULE StorefrontProofs --------------------------
(***************************************************************************)
(* For any places, terms and sweepers, for any readers and writers of a    *)
(* cached page, and for any uploads: what is agreed is what both sides     *)
(* said, one request is live for a place, what a page shows is right or    *)
(* will be dropped, and an image that a row names is in storage.  The      *)
(* components share no state, and each has an invariant of its own.        *)
(***************************************************************************)
EXTENDS Placement, Reviews, Uploads, TallyProofs

-----------------------------------------------------------------------------
(***************************************************************************)
(* Placement                                                               *)
(***************************************************************************)

\* The terms a seller offers, price and all.
Offered(row) == [row.terms EXCEPT !.cents = row.offered]
Agreed == {"AGREED", "LIVE", "ENDED"}

\* What stands in the thread of a request, by its status.
ThreadRight(r) ==
    /\ request[r].status = "REQUESTED" => said[r]["SELLER"] = Stated(Offered(request[r]))
    /\ request[r].status = "COUNTERED" => said[r]["ADMIN"] = Stated(request[r].terms)
    /\ request[r].status \in Agreed /\ r \notin crossed =>
           \A side \in Sides : said[r][side] = Stated(request[r].terms)

\* Who is about to agree has read the offer, if it still stands.
Agreeing(d, r) == desk[d].task = "agree" /\ desk[d].request = r
AgreeRight(r) ==
    \A d \in Desks : Agreeing(d, r) =>
        /\ request[r].status # "none"
        /\ request[r].status = "REQUESTED" => desk[d].terms = Offered(request[r])

ThreadsRight == \A r \in Requests : ThreadRight(r) /\ AgreeRight(r)

PlacesInv == TypeOK /\ OneLivePerPlace /\ ThreadsRight

\* A message names the price and the place of the terms, and the dates if both
\* are there.
LEMMA StatedIs ==
    ASSUME NEW terms \in Terms
    PROVE  /\ Stated(terms) \in Terms
           /\ Stated(terms).cents = terms.cents /\ Stated(terms).place = terms.place
           /\ Dated(terms) => Stated(terms).from = terms.from /\ Stated(terms).until = terms.until
<1>1. Unsaid \in Dates
  BY DEF Dates
<1>2. CASE Dated(terms)
  BY <1>2 DEF Stated
<1>3. CASE ~Dated(terms)
  <2>1. PICK words : words = [[terms EXCEPT !.from = Unsaid] EXCEPT !.until = Unsaid]
    OBVIOUS
  <2>2. words \in Terms /\ words.cents = terms.cents /\ words.place = terms.place
    BY <1>1, <2>1 DEF Terms
  <2>3. Stated(terms) = words
    BY <1>3, <2>1 DEF Stated, Undated
  <2> QED
    BY <1>3, <2>2, <2>3
<1> QED
  BY <1>2, <1>3

\* Nothing has been asked for.
LEMMA PlacesStart == Init => PlacesInv
<1> SUFFICES ASSUME Init PROVE PlacesInv
  OBVIOUS
<1>1. NoTerms \in Terms
  <2>1. 0 \in Nat /\ Unsaid \in Dates /\ Unsaid \in Places \cup {Unsaid}
    BY DEF Dates
  <2> QED
    BY <2>1 DEF NoTerms, Terms
<1>2. \A r \in Requests : request[r].status = "none"
  BY DEF Init
<1>3. \A d \in Desks : desk[d].task = "idle"
  BY DEF Init, IdleDesk
<1>4. request \in [Requests -> Row]
  BY <1>1 DEF Init, Row, Statuses
<1>5. said \in [Requests -> [Sides -> Terms \cup {Unsaid}]]
  BY DEF Init
<1>6. desk \in [Desks -> Request] /\ sweep \in [Sweepers -> Pass]
  BY DEF Init, Request, Pass
<1>7. clock \in 0..MaxTime /\ failures \in 0..MaxFailures /\ crossed \subseteq Requests
  BY PlacementAssumption DEF Init
<1>8. TypeOK
  BY <1>4, <1>5, <1>6, <1>7 DEF TypeOK
<1>9. OneLivePerPlace /\ ThreadsRight
  BY <1>2, <1>3 DEF OneLivePerPlace, In, ThreadsRight, ThreadRight, AgreeRight, Agreeing, Agreed
<1> QED
  BY <1>8, <1>9 DEF PlacesInv

\* Rows of which only the status changes, forwards.
Forwards(old, new) ==
    \/ new = old
    \/ old # "none" /\ new \in {"DECLINED", "WITHDRAWN"}
    \/ old \in {"AGREED", "LIVE"} /\ new \in {"LIVE", "ENDED"}

\* Threads stay right while only statuses move forwards.
LEMMA StatusMoves ==
    ASSUME PlacesInv,
           NEW next, next = request',
           \A r \in Requests :
               /\ next[r].terms = request[r].terms /\ next[r].offered = request[r].offered
               /\ Forwards(request[r].status, next[r].status),
           UNCHANGED <<said, desk, crossed>>
    PROVE  ThreadsRight'
<1> SUFFICES ASSUME NEW r \in Requests
             PROVE  ThreadRight(r)' /\ AgreeRight(r)'
  BY DEF ThreadsRight, Requests
<1> DEFINE old == request[r].status
           new == next[r].status
<1>1. ThreadRight(r) /\ AgreeRight(r)
  BY DEF PlacesInv, ThreadsRight
<1>2. Forwards(old, new) /\ next[r].terms = request[r].terms /\ next[r].offered = request[r].offered
  OBVIOUS
<1>3. Offered(next[r]) = Offered(request[r])
  BY <1>2 DEF Offered
<1>4. (new = "REQUESTED" => old = "REQUESTED") /\ (new = "COUNTERED" => old = "COUNTERED")
      /\ (new \in Agreed => old \in Agreed) /\ (old # "none" => new # "none")
  BY <1>2 DEF Forwards, Agreed
<1> HIDE DEF old, new
<1>5. ThreadRight(r)'
  <2>1. new = "REQUESTED" => said[r]["SELLER"] = Stated(Offered(next[r]))
    BY <1>1, <1>3, <1>4 DEF ThreadRight, old
  <2>2. new = "COUNTERED" => said[r]["ADMIN"] = Stated(next[r].terms)
    BY <1>1, <1>2, <1>4 DEF ThreadRight, old
  <2>3. new \in Agreed /\ r \notin crossed => \A side \in Sides : said[r][side] = Stated(next[r].terms)
    BY <1>1, <1>2, <1>4 DEF ThreadRight, old
  <2> QED
    BY <2>1, <2>2, <2>3 DEF ThreadRight, new, Offered
<1>6. AgreeRight(r)'
  BY <1>1, <1>3, <1>4 DEF AgreeRight, Agreeing, old, new, Offered
<1> QED
  BY <1>5, <1>6

\* A row that is moved keeps its shape, and the others are as they were.
LEMMA MovedRow ==
    ASSUME request \in [Requests -> Row], NEW r \in Requests, NEW mark \in Statuses
    PROVE  /\ Moved(r, mark) \in [Requests -> Row]
           /\ Moved(r, mark)[r].status = mark
           /\ \A q \in Requests :
                /\ Moved(r, mark)[q].terms = request[q].terms
                /\ Moved(r, mark)[q].offered = request[q].offered
                /\ q # r => Moved(r, mark)[q] = request[q]
<1>1. PICK new : new = [request[r] EXCEPT !.status = mark]
  OBVIOUS
<1>2. request[r] \in Row
  OBVIOUS
<1>3. new \in Row
  BY <1>1, <1>2 DEF Row
<1>4. new.terms = request[r].terms /\ new.offered = request[r].offered /\ new.status = mark
  BY <1>1, <1>2 DEF Row
<1>5. Moved(r, mark) = [request EXCEPT ![r] = new]
  BY <1>1 DEF Moved
<1> QED
  BY <1>3, <1>4, <1>5

\* One row is moved: everything stands, if nothing becomes live where another is.
LEMMA MoveRight ==
    ASSUME PlacesInv, NEW r \in Requests, NEW mark \in Statuses,
           request' = Moved(r, mark), UNCHANGED <<said, desk, crossed>>,
           Forwards(request[r].status, mark),
           mark = "LIVE" => Free(r)
    PROVE  request' \in [Requests -> Row] /\ OneLivePerPlace' /\ ThreadsRight'
<1>1. PICK next : next = request'
  OBVIOUS
<1>2. /\ next \in [Requests -> Row] /\ next[r].status = mark
      /\ \A q \in Requests : next[q].terms = request[q].terms /\ next[q].offered = request[q].offered
      /\ \A q \in Requests : q # r => next[q] = request[q]
  BY <1>1, MovedRow DEF PlacesInv, TypeOK
<1>3. \A q \in Requests : Forwards(request[q].status, next[q].status)
  BY <1>2 DEF Forwards
<1>4. ThreadsRight'
  BY <1>1, <1>2, <1>3, StatusMoves
<1>5. OneLivePerPlace'
  <2> SUFFICES ASSUME NEW p \in Requests, NEW q \in Requests,
                      next[p].status = "LIVE", next[q].status = "LIVE",
                      next[p].terms.place = next[q].terms.place
               PROVE  p = q
    BY <1>1 DEF OneLivePerPlace, In, Requests
  <2>1. request[p].terms.place = request[q].terms.place
    BY <1>2
  <2>2. CASE p # r /\ q # r
    BY <1>2, <2>1, <2>2 DEF PlacesInv, OneLivePerPlace, In
  <2>3. CASE p = r /\ q # r
    BY <1>2, <2>1, <2>3 DEF Free, In
  <2>4. CASE q = r /\ p # r
    BY <1>2, <2>1, <2>4 DEF Free, In
  <2> QED
    BY <2>2, <2>3, <2>4
<1> QED
  BY <1>1, <1>2, <1>4, <1>5

\* Nothing that the threads are about changes.
LEMMA PlacesFrame ==
    ASSUME PlacesInv, UNCHANGED <<request, said, crossed>>,
           \A d \in Desks, r \in Requests : Agreeing(d, r)' =>
               Agreeing(d, r) /\ desk'[d].terms = desk[d].terms
    PROVE  OneLivePerPlace' /\ ThreadsRight'
<1>1. OneLivePerPlace'
  BY DEF PlacesInv, OneLivePerPlace, In, Requests
<1>2. ASSUME NEW r \in Requests PROVE ThreadRight(r)' /\ AgreeRight(r)'
  <2>1. ThreadRight(r) /\ AgreeRight(r)
    BY DEF PlacesInv, ThreadsRight
  <2>2. ThreadRight(r)'
    BY <2>1 DEF ThreadRight, Offered, Sides
  <2>3. AgreeRight(r)'
    BY <2>1 DEF AgreeRight, Offered
  <2> QED
    BY <2>2, <2>3
<1> QED
  BY <1>1, <1>2 DEF ThreadsRight, Requests

\* What a request that is under way carries.
LEMMA DeskIs ==
    ASSUME TypeOK, NEW d \in Desks
    PROVE  /\ desk[d].task = "ask" => desk[d].listing \in Listings /\ desk[d].terms \in Offers
           /\ desk[d].task \in Answers => desk[d].request \in Requests /\ desk[d].terms \in Terms
<1>1. desk[d] \in Request
  BY DEF TypeOK
<1>2. CASE desk[d] = IdleDesk
  BY <1>2 DEF IdleDesk, Answers
<1>3. CASE desk[d] \in [task : {"ask"}, listing : Listings, terms : Offers]
  BY <1>3 DEF Answers
<1>4. CASE desk[d] \in [task : Answers, request : Requests, terms : Terms]
  BY <1>4 DEF Answers
<1> QED
  BY <1>1, <1>2, <1>3, <1>4 DEF Request

\* A request that ends agrees to nothing.
LEMMA LeavesDesk ==
    ASSUME TypeOK, NEW d \in Desks, Leaves(d)
    PROVE  /\ desk' \in [Desks -> Request]
           /\ \A e \in Desks, r \in Requests : Agreeing(e, r)' =>
                  e # d /\ Agreeing(e, r) /\ desk'[e] = desk[e]
<1>1. desk' = [desk EXCEPT ![d] = IdleDesk]
  BY DEF Leaves
<1>2. IdleDesk \in Request /\ IdleDesk.task # "agree"
  BY DEF Request, IdleDesk
<1>3. desk' \in [Desks -> Request] /\ desk'[d] = IdleDesk /\ \A e \in Desks \ {d} : desk'[e] = desk[e]
  BY <1>1, <1>2 DEF TypeOK
<1> QED
  BY <1>2, <1>3 DEF Agreeing

\* Asking reads whether anything is live for the listing.
LEMMA AskRight ==
    ASSUME PlacesInv, NEW d \in Desks, NEW l \in Listings, NEW terms \in Offers, Ask(d, l, terms)
    PROVE  PlacesInv'
<1>1. PICK new : new = [task |-> "ask", listing |-> l, terms |-> terms]
  OBVIOUS
<1>2. new \in Request /\ new.task = "ask"
  BY <1>1 DEF Request
<1>3. desk' = [desk EXCEPT ![d] = new]
  BY <1>1 DEF Ask
<1>4. desk \in [Desks -> Request]
  BY DEF PlacesInv, TypeOK
<1>5. desk' \in [Desks -> Request] /\ desk'[d] = new /\ \A e \in Desks \ {d} : desk'[e] = desk[e]
  BY <1>2, <1>3, <1>4
<1>6. \A e \in Desks, r \in Requests : Agreeing(e, r)' => Agreeing(e, r) /\ desk'[e].terms = desk[e].terms
  BY <1>2, <1>5 DEF Agreeing
<1>7. UNCHANGED <<request, said, sweep, clock, failures, crossed>>
  BY DEF Ask
<1>8. OneLivePerPlace' /\ ThreadsRight'
  BY <1>6, <1>7, PlacesFrame
<1>9. TypeOK'
  BY <1>5, <1>7 DEF PlacesInv, TypeOK
<1> QED
  BY <1>8, <1>9 DEF PlacesInv

\* A request is opened with the terms that its first message says.
LEMMA OpenRequestRight ==
    ASSUME PlacesInv, NEW d \in Desks, Open(d)
    PROVE  PlacesInv'
<1>1. PICK r \in Oldest(In({"none"})) :
        /\ request' = [request EXCEPT ![r] =
               [status |-> "REQUESTED", listing |-> desk[d].listing,
                offered |-> Read(d).cents, terms |-> [Read(d) EXCEPT !.cents = 0]]]
        /\ said' = [said EXCEPT ![r] = [side \in Sides |->
               IF side = "SELLER" THEN Stated(Read(d)) ELSE Unsaid]]
  BY DEF Open
<1>2. r \in Requests /\ request[r].status = "none"
  BY DEF Oldest, In
<1>3. TypeOK /\ desk[d].task = "ask" /\ Leaves(d) /\ UNCHANGED <<sweep, clock, failures, crossed>>
  BY DEF PlacesInv, Open
<1>4. desk[d].listing \in Listings /\ desk[d].terms \in Terms
  BY <1>3, DeskIs, PlacementAssumption
<1>5. PICK offer : offer = desk[d].terms
  OBVIOUS
<1>6. PICK terms : terms = [offer EXCEPT !.cents = 0]
  OBVIOUS
<1>7. PICK new : new = [status |-> "REQUESTED", listing |-> desk[d].listing,
                        offered |-> offer.cents, terms |-> terms]
  OBVIOUS
<1>8. PICK words : words = [side \in Sides |-> IF side = "SELLER" THEN Stated(offer) ELSE Unsaid]
  OBVIOUS
<1>9. offer \in Terms /\ offer.cents \in Nat
  BY <1>4, <1>5 DEF Terms
<1>10. terms \in Terms /\ [terms EXCEPT !.cents = offer.cents] = offer
  BY <1>6, <1>9 DEF Terms
<1>11. new \in Row /\ new.status = "REQUESTED" /\ new.terms = terms /\ new.offered = offer.cents
  BY <1>4, <1>7, <1>9, <1>10 DEF Row, Statuses
<1>12. words \in [Sides -> Terms \cup {Unsaid}] /\ words["SELLER"] = Stated(offer)
  BY <1>8, <1>9, StatedIs DEF Sides
<1>13. request' = [request EXCEPT ![r] = new] /\ said' = [said EXCEPT ![r] = words]
  BY <1>1, <1>5, <1>6, <1>7, <1>8 DEF Read
<1>14. PICK next, heard : next = request' /\ heard = said'
  OBVIOUS
<1>15. request \in [Requests -> Row] /\ said \in [Requests -> [Sides -> Terms \cup {Unsaid}]]
  BY <1>3 DEF TypeOK
<1>16. /\ next \in [Requests -> Row] /\ next[r] = new /\ \A q \in Requests \ {r} : next[q] = request[q]
       /\ heard \in [Requests -> [Sides -> Terms \cup {Unsaid}]] /\ heard[r] = words
       /\ \A q \in Requests \ {r} : heard[q] = said[q]
  BY <1>2, <1>11, <1>12, <1>13, <1>14, <1>15
<1>17. OneLivePerPlace'
  <2> SUFFICES ASSUME NEW p \in Requests, NEW q \in Requests,
                      next[p].status = "LIVE", next[q].status = "LIVE",
                      next[p].terms.place = next[q].terms.place
               PROVE  p = q
    BY <1>14 DEF OneLivePerPlace, In, Requests
  <2>1. p # r /\ q # r
    BY <1>11, <1>16
  <2> QED
    BY <1>16, <2>1 DEF PlacesInv, OneLivePerPlace, In
<1>18. /\ desk' \in [Desks -> Request]
       /\ \A e \in Desks, q \in Requests : Agreeing(e, q)' => Agreeing(e, q) /\ desk'[e] = desk[e]
  BY <1>3, LeavesDesk
<1>19. \A q \in Requests : ThreadRight(q) /\ AgreeRight(q)
  BY DEF PlacesInv, ThreadsRight
<1>20. ASSUME NEW q \in Requests \ {r} PROVE ThreadRight(q)' /\ AgreeRight(q)'
  <2>1. ThreadRight(q)'
    BY <1>3, <1>14, <1>16, <1>19 DEF ThreadRight, Offered, Sides
  <2>2. ASSUME NEW e \in Desks, Agreeing(e, q)'
        PROVE  /\ request'[q].status # "none"
               /\ request'[q].status = "REQUESTED" => desk'[e].terms = Offered(request'[q])
    <3>1. Agreeing(e, q) /\ desk'[e] = desk[e] /\ next[q] = request[q]
      BY <1>16, <1>18, <2>2
    <3>2. /\ request[q].status # "none"
          /\ request[q].status = "REQUESTED" => desk[e].terms = Offered(request[q])
      BY <1>19, <3>1 DEF AgreeRight
    <3> QED
      BY <1>14, <3>1, <3>2 DEF Offered
  <2>3. AgreeRight(q)'
    BY <2>2 DEF AgreeRight, Offered
  <2> QED
    BY <2>1, <2>3
<1>21. ThreadRight(r)'
  <2>1. Offered(next[r]) = offer
    BY <1>10, <1>11, <1>16 DEF Offered
  <2>2. heard[r]["SELLER"] = Stated(offer) /\ next[r].status = "REQUESTED"
    BY <1>11, <1>12, <1>16
  <2> QED
    BY <1>14, <2>1, <2>2 DEF ThreadRight, Offered, Agreed
<1>22. AgreeRight(r)'
  BY <1>2, <1>18, <1>19 DEF AgreeRight
<1>23. ThreadsRight'
  BY <1>20, <1>21, <1>22 DEF ThreadsRight, Requests
<1>24. TypeOK'
  BY <1>3, <1>14, <1>16, <1>18 DEF TypeOK
<1> QED
  BY <1>17, <1>23, <1>24 DEF PlacesInv

\* What a request takes with it.
LEMMA TakesDesk ==
    ASSUME TypeOK, NEW d \in Desks, NEW task \in Answers, NEW r \in Requests, NEW terms \in Terms,
           Takes(d, task, r, terms)
    PROVE  /\ desk' \in [Desks -> Request]
           /\ desk'[d].task = task /\ desk'[d].request = r /\ desk'[d].terms = terms
           /\ \A e \in Desks \ {d} : desk'[e] = desk[e]
<1>1. PICK new : new = [task |-> task, request |-> r, terms |-> terms]
  OBVIOUS
<1>2. new \in Request /\ new.task = task /\ new.request = r /\ new.terms = terms
  BY <1>1 DEF Request
<1>3. desk' = [desk EXCEPT ![d] = new] /\ desk \in [Desks -> Request]
  BY <1>1 DEF Takes, TypeOK
<1> QED
  BY <1>2, <1>3

\* Who looks at a request remembers what it offered.
LEMMA LookRight ==
    ASSUME PlacesInv, NEW d \in Desks, NEW r \in Requests, Look(d, r)
    PROVE  PlacesInv'
<1>1. UNCHANGED <<request, said, sweep, clock, failures, crossed>>
  BY DEF Look
<1>2. TypeOK /\ request[r] \in Row
  BY DEF PlacesInv, TypeOK
<1>3. request[r].terms \in Terms /\ request[r].offered \in Nat
  BY <1>2 DEF Row
<1>4. ASSUME NEW task \in {"counter", "accept"}, NEW terms \in Terms, Takes(d, task, r, terms)
      PROVE  PlacesInv'
  <2>1. task \in Answers
    BY DEF Answers
  <2>2. /\ desk' \in [Desks -> Request] /\ desk'[d].task = task
        /\ \A e \in Desks \ {d} : desk'[e] = desk[e]
    BY <1>2, <1>4, <2>1, TakesDesk
  <2>3. \A e \in Desks, q \in Requests : Agreeing(e, q)' => Agreeing(e, q) /\ desk'[e].terms = desk[e].terms
    BY <2>2 DEF Agreeing
  <2>4. OneLivePerPlace' /\ ThreadsRight'
    BY <1>1, <2>3, PlacesFrame
  <2>5. TypeOK'
    BY <1>1, <1>2, <2>2 DEF TypeOK
  <2> QED
    BY <2>4, <2>5 DEF PlacesInv
<1>5. CASE \E c \in Counters :
               Takes(d, "counter", r,
                  [cents |-> c.cents, place |-> Kept(c.place, request[r].terms.place),
                   from |-> Kept(c.from, request[r].terms.from),
                   until |-> Kept(c.until, request[r].terms.until)])
  <2>1. PICK c \in Counters :
               Takes(d, "counter", r,
                  [cents |-> c.cents, place |-> Kept(c.place, request[r].terms.place),
                   from |-> Kept(c.from, request[r].terms.from),
                   until |-> Kept(c.until, request[r].terms.until)])
    BY <1>5
  <2>2. c \in Terms
    BY PlacementAssumption
  <2>3. [cents |-> c.cents, place |-> Kept(c.place, request[r].terms.place),
         from |-> Kept(c.from, request[r].terms.from),
         until |-> Kept(c.until, request[r].terms.until)] \in Terms
    BY <1>3, <2>2 DEF Terms, Kept
  <2> QED
    BY <1>4, <2>1, <2>3
<1>6. CASE r \in In({"REQUESTED"})
           /\ Takes(d, "agree", r, [request[r].terms EXCEPT !.cents = request[r].offered])
  <2>1. PICK offer : offer = Offered(request[r])
    OBVIOUS
  <2>2. offer \in Terms
    BY <1>3, <2>1 DEF Offered, Terms
  <2>3. Takes(d, "agree", r, offer)
    BY <1>6, <2>1 DEF Offered
  <2>4. /\ desk' \in [Desks -> Request]
        /\ desk'[d].task = "agree" /\ desk'[d].request = r /\ desk'[d].terms = offer
        /\ \A e \in Desks \ {d} : desk'[e] = desk[e]
    BY <1>2, <2>2, <2>3, TakesDesk DEF Answers
  <2>5. request[r].status = "REQUESTED"
    BY <1>6 DEF In
  <2>6. ASSUME NEW q \in Requests PROVE ThreadRight(q)' /\ AgreeRight(q)'
    <3>1. ThreadRight(q) /\ AgreeRight(q)
      BY DEF PlacesInv, ThreadsRight
    <3>2. ThreadRight(q)'
      BY <1>1, <3>1 DEF ThreadRight, Offered, Sides
    <3>3. ASSUME NEW e \in Desks, Agreeing(e, q)'
          PROVE  /\ request'[q].status # "none"
                 /\ request'[q].status = "REQUESTED" => desk'[e].terms = Offered(request'[q])
      <4>1. CASE e = d
        BY <1>1, <2>1, <2>4, <2>5, <3>3, <4>1 DEF Agreeing, Offered
      <4>2. CASE e # d
        BY <1>1, <2>4, <3>1, <3>3, <4>2 DEF Agreeing, AgreeRight, Offered
      <4> QED
        BY <4>1, <4>2
    <3>4. AgreeRight(q)'
      BY <3>3 DEF AgreeRight, Offered
    <3> QED
      BY <3>2, <3>4
  <2>7. OneLivePerPlace'
    BY <1>1 DEF PlacesInv, OneLivePerPlace, In, Requests
  <2>8. TypeOK'
    BY <1>1, <1>2, <2>4 DEF TypeOK
  <2> QED
    BY <2>6, <2>7, <2>8 DEF PlacesInv, ThreadsRight, Requests
<1>7. CASE Takes(d, "accept", r, request[r].terms)
  BY <1>3, <1>4, <1>7
<1> QED
  BY <1>5, <1>6, <1>7 DEF Look

\* An answer that finds the request as its statement wants it.
LEMMA AnswerRight ==
    ASSUME PlacesInv, NEW d \in Desks, Answer(d)
    PROVE  PlacesInv'
<1>1. TypeOK /\ desk[d].task \in Answers /\ Stands(d) /\ Leaves(d)
      /\ UNCHANGED <<sweep, clock, failures>>
  BY DEF PlacesInv, Answer
<1>2. PICK r : r = desk[d].request
  OBVIOUS
<1>3. PICK read : read = desk[d].terms
  OBVIOUS
<1>4. r \in Requests /\ read \in Terms /\ Stated(read) \in Terms
  BY <1>1, <1>2, <1>3, DeskIs, StatedIs
<1>5. PICK task : task = desk[d].task
  OBVIOUS
<1>6. task \in Answers /\ request[r].status \in From(task)
  BY <1>1, <1>2, <1>5 DEF Stands
<1>7. /\ \/ /\ task = "counter"
            /\ request' = [request EXCEPT ![r].status = "COUNTERED", ![r].terms = read]
            /\ said' = [said EXCEPT ![r]["ADMIN"] = Stated(read)]
         \/ /\ task = "agree"
            /\ request' = [request EXCEPT ![r].status = "AGREED", ![r].terms.cents = read.cents]
            /\ said' = [said EXCEPT ![r]["ADMIN"] = Stated(read)]
         \/ /\ task = "accept"
            /\ request' = Moved(r, "AGREED")
            /\ said' = [said EXCEPT ![r]["SELLER"] = Stated(read)]
      /\ crossed' = IF task = "accept" /\ read # request[r].terms
                    THEN crossed \cup {r} ELSE crossed
  BY <1>2, <1>3, <1>5 DEF Answer, Read
<1>8. /\ desk' \in [Desks -> Request]
      /\ \A e \in Desks, q \in Requests : Agreeing(e, q)' => Agreeing(e, q) /\ desk'[e] = desk[e]
  BY <1>1, LeavesDesk
<1>9. \A q \in Requests : ThreadRight(q) /\ AgreeRight(q)
  BY DEF PlacesInv, ThreadsRight
<1>10. request \in [Requests -> Row] /\ said \in [Requests -> [Sides -> Terms \cup {Unsaid}]]
       /\ crossed \subseteq Requests
  BY <1>1 DEF TypeOK
<1>11. request[r] \in Row /\ request[r].terms \in Terms /\ said[r] \in [Sides -> Terms \cup {Unsaid}]
  BY <1>4, <1>10 DEF Row
\* The row and the thread afterwards.
<1>12. ASSUME NEW new \in Row, new.status \in {"COUNTERED", "AGREED"},
              request' = [request EXCEPT ![r] = new],
              NEW side \in Sides, said' = [said EXCEPT ![r][side] = Stated(read)],
              new.status = "COUNTERED" => side = "ADMIN" /\ read = new.terms,
              new.status = "AGREED" /\ r \notin crossed' =>
                  /\ read = new.terms
                  /\ \A other \in Sides \ {side} : said[r][other] = Stated(new.terms),
              crossed \subseteq crossed', crossed' \subseteq crossed \cup {r}
       PROVE  PlacesInv'
  <2>1. PICK words : words = [said[r] EXCEPT ![side] = Stated(read)]
    OBVIOUS
  <2>2. words \in [Sides -> Terms \cup {Unsaid}] /\ words[side] = Stated(read)
        /\ \A other \in Sides \ {side} : words[other] = said[r][other]
    BY <1>4, <1>11, <2>1
  <2>3. said' = [said EXCEPT ![r] = words]
    BY <1>12, <2>1
  <2>4. PICK next, heard : next = request' /\ heard = said'
    OBVIOUS
  <2>5. /\ next \in [Requests -> Row] /\ next[r] = new /\ \A q \in Requests \ {r} : next[q] = request[q]
        /\ heard \in [Requests -> [Sides -> Terms \cup {Unsaid}]] /\ heard[r] = words
        /\ \A q \in Requests \ {r} : heard[q] = said[q]
    BY <1>4, <1>10, <1>12, <2>2, <2>3, <2>4
  <2>6. OneLivePerPlace'
    <3> SUFFICES ASSUME NEW p \in Requests, NEW q \in Requests,
                        next[p].status = "LIVE", next[q].status = "LIVE",
                        next[p].terms.place = next[q].terms.place
                 PROVE  p = q
      BY <2>4 DEF OneLivePerPlace, In, Requests
    <3>1. p # r /\ q # r
      BY <1>12, <2>5
    <3> QED
      BY <2>5, <3>1 DEF PlacesInv, OneLivePerPlace, In
  <2>7. ASSUME NEW q \in Requests \ {r} PROVE ThreadRight(q)' /\ AgreeRight(q)'
    <3>1. ThreadRight(q)'
      <4>1. next[q] = request[q] /\ heard[q] = said[q] /\ (q \notin crossed' => q \notin crossed)
        BY <1>12, <2>5, <2>7
      <4> QED
        BY <1>9, <2>4, <2>7, <4>1 DEF ThreadRight, Offered, Sides
    <3>2. ASSUME NEW e \in Desks, Agreeing(e, q)'
          PROVE  /\ request'[q].status # "none"
                 /\ request'[q].status = "REQUESTED" => desk'[e].terms = Offered(request'[q])
      <4>1. Agreeing(e, q) /\ desk'[e] = desk[e] /\ next[q] = request[q]
        BY <1>8, <2>5, <2>7, <3>2
      <4>2. /\ request[q].status # "none"
            /\ request[q].status = "REQUESTED" => desk[e].terms = Offered(request[q])
        BY <1>9, <2>7, <4>1 DEF AgreeRight
      <4> QED
        BY <2>4, <4>1, <4>2 DEF Offered
    <3>3. AgreeRight(q)'
      BY <3>2 DEF AgreeRight, Offered
    <3> QED
      BY <3>1, <3>3
  <2>8. ThreadRight(r)'
    <3>1. next[r].status = "COUNTERED" => heard[r]["ADMIN"] = Stated(next[r].terms)
      BY <1>12, <2>2, <2>5
    <3>2. next[r].status = "AGREED" /\ r \notin crossed' =>
              \A other \in Sides : heard[r][other] = Stated(next[r].terms)
      BY <1>12, <2>2, <2>5
    <3>3. next[r].status \in {"COUNTERED", "AGREED"}
      BY <1>12, <2>5
    <3> QED
      BY <2>4, <3>1, <3>2, <3>3 DEF ThreadRight, Agreed, Offered, Sides
  <2>9. AgreeRight(r)'
    BY <1>12, <2>4, <2>5 DEF AgreeRight
  <2>10. ThreadsRight'
    BY <2>7, <2>8, <2>9 DEF ThreadsRight, Requests
  <2>11. TypeOK'
    <3>1. crossed' \subseteq Requests
      BY <1>4, <1>10, <1>12
    <3> QED
      BY <1>1, <1>8, <2>4, <2>5, <3>1 DEF TypeOK
  <2> QED
    BY <2>6, <2>10, <2>11 DEF PlacesInv
<1>13. CASE task = "counter"
  <2>1. PICK new : new = [[request[r] EXCEPT !.status = "COUNTERED"] EXCEPT !.terms = read]
    OBVIOUS
  <2>2. new \in Row /\ new.status = "COUNTERED" /\ new.terms = read
    BY <1>4, <1>11, <2>1 DEF Row, Statuses
  <2>3. request' = [request EXCEPT ![r].status = "COUNTERED", ![r].terms = read]
        /\ said' = [said EXCEPT ![r]["ADMIN"] = Stated(read)] /\ crossed' = crossed
    BY <1>7, <1>13
  <2>4. request' = [[request EXCEPT ![r].status = "COUNTERED"] EXCEPT ![r].terms = read]
    BY <2>3
  <2>5. request' = [request EXCEPT ![r] = new]
    BY <1>4, <1>10, <2>1, <2>4
  <2> QED
    BY <1>12, <2>2, <2>3, <2>5 DEF Sides
<1>14. CASE task = "agree"
  <2>1. PICK terms : terms = [request[r].terms EXCEPT !.cents = read.cents]
    OBVIOUS
  <2>2. PICK new : new = [[request[r] EXCEPT !.status = "AGREED"] EXCEPT !.terms = terms]
    OBVIOUS
  <2>3. read.cents \in Nat /\ request[r].offered \in Nat
    BY <1>4, <1>11 DEF Terms, Row
  <2>4. terms \in Terms
    BY <1>11, <2>1, <2>3 DEF Terms
  <2>5. new \in Row /\ new.status = "AGREED" /\ new.terms = terms
    BY <1>11, <2>2, <2>4 DEF Row, Statuses
  <2>6. request' = [request EXCEPT ![r] = new] /\ said' = [said EXCEPT ![r]["ADMIN"] = Stated(read)]
        /\ crossed' = crossed
    <3>1. request' = [request EXCEPT ![r].status = "AGREED", ![r].terms.cents = read.cents]
          /\ said' = [said EXCEPT ![r]["ADMIN"] = Stated(read)] /\ crossed' = crossed
      BY <1>7, <1>14
    <3>2. request' = [[request EXCEPT ![r].status = "AGREED"] EXCEPT ![r].terms.cents = read.cents]
      BY <3>1
    <3>3. request' = [request EXCEPT ![r] = new]
      BY <1>4, <1>10, <1>11, <2>1, <2>2, <3>2
    <3> QED
      BY <3>1, <3>3
  <2>7. request[r].status = "REQUESTED"
    BY <1>6, <1>14 DEF From, OfferStands
  <2>8. Agreeing(d, r)
    BY <1>2, <1>5, <1>14 DEF Agreeing
  <2>9. read = Offered(request[r]) /\ said[r]["SELLER"] = Stated(Offered(request[r]))
    BY <1>3, <1>4, <1>9, <2>7, <2>8 DEF AgreeRight, ThreadRight
  <2>10. read = [request[r].terms EXCEPT !.cents = request[r].offered]
    BY <2>9 DEF Offered
  <2>11. read.cents = request[r].offered
    BY <1>11, <2>3, <2>10 DEF Terms
  <2>12. read = terms
    BY <2>1, <2>10, <2>11
  <2> QED
    BY <1>12, <2>5, <2>6, <2>9, <2>12 DEF Sides
<1>15. CASE task = "accept"
  <2>1. PICK new : new = [request[r] EXCEPT !.status = "AGREED"]
    OBVIOUS
  <2>2. new \in Row /\ new.status = "AGREED" /\ new.terms = request[r].terms
    BY <1>11, <2>1 DEF Row, Statuses
  <2>3. request' = [request EXCEPT ![r] = new] /\ said' = [said EXCEPT ![r]["SELLER"] = Stated(read)]
    BY <1>7, <1>15, <2>1 DEF Moved
  <2>4. crossed \subseteq crossed' /\ crossed' \subseteq crossed \cup {r}
        /\ (r \notin crossed' => read = request[r].terms)
    BY <1>7, <1>15
  <2>5. request[r].status = "COUNTERED"
    BY <1>6, <1>15 DEF From
  <2>6. said[r]["ADMIN"] = Stated(request[r].terms)
    BY <1>4, <1>9, <2>5 DEF ThreadRight
  <2> QED
    BY <1>12, <2>2, <2>3, <2>4, <2>6 DEF Sides
<1> QED
  BY <1>6, <1>13, <1>14, <1>15 DEF Answers

\* An answer that is given up leaves nothing behind.
LEMMA GivesUpRight ==
    ASSUME PlacesInv, NEW d \in Desks, GivesUp(d)
    PROVE  PlacesInv'
<1>1. TypeOK /\ Leaves(d) /\ UNCHANGED <<request, said, sweep, clock, failures, crossed>>
  BY DEF PlacesInv, GivesUp
<1>2. /\ desk' \in [Desks -> Request]
      /\ \A e \in Desks, q \in Requests : Agreeing(e, q)' => Agreeing(e, q) /\ desk'[e] = desk[e]
  BY <1>1, LeavesDesk
<1>3. OneLivePerPlace' /\ ThreadsRight'
  BY <1>1, <1>2, PlacesFrame
<1>4. TypeOK'
  BY <1>1, <1>2 DEF TypeOK
<1> QED
  BY <1>3, <1>4 DEF PlacesInv

\* What is decided in one statement, by whoever decides it.
LEMMA DecideRight ==
    ASSUME PlacesInv, NEW r \in Requests, NEW mark \in Statuses,
           request' = Moved(r, mark), UNCHANGED <<said, desk, sweep, clock, failures, crossed>>,
           Forwards(request[r].status, mark), mark = "LIVE" => Free(r)
    PROVE  PlacesInv'
<1>1. request' \in [Requests -> Row] /\ OneLivePerPlace' /\ ThreadsRight'
  BY MoveRight
<1>2. TypeOK'
  BY <1>1 DEF PlacesInv, TypeOK
<1> QED
  BY <1>1, <1>2 DEF PlacesInv

\* What ends a request, or puts it live, asks its status in the same statement.
LEMMA DecisionsRight ==
    ASSUME PlacesInv, NEW r \in Requests, Decline(r) \/ Withdraw(r) \/ End(r) \/ Activate(r)
    PROVE  PlacesInv'
<1>1. CASE Decline(r)
  <2>1. request' = Moved(r, "DECLINED") /\ UNCHANGED <<said, desk, sweep, clock, failures, crossed>>
        /\ Forwards(request[r].status, "DECLINED")
    BY <1>1 DEF Decline, In, AWAITING_ADMIN, Forwards
  <2> QED
    BY <2>1, DecideRight DEF Statuses
<1>2. CASE Withdraw(r)
  <2>1. request' = Moved(r, "WITHDRAWN") /\ UNCHANGED <<said, desk, sweep, clock, failures, crossed>>
        /\ Forwards(request[r].status, "WITHDRAWN")
    BY <1>2 DEF Withdraw, In, AWAITING_ADMIN, SELLER_CAN_WITHDRAW, Forwards
  <2> QED
    BY <2>1, DecideRight DEF Statuses
<1>3. CASE End(r)
  <2>1. request' = Moved(r, "ENDED") /\ UNCHANGED <<said, desk, sweep, clock, failures, crossed>>
        /\ Forwards(request[r].status, "ENDED")
    BY <1>3 DEF End, In, Forwards
  <2> QED
    BY <2>1, DecideRight DEF Statuses
<1>4. CASE Activate(r)
  <2>1. request' = Moved(r, "LIVE") /\ UNCHANGED <<said, desk, sweep, clock, failures, crossed>>
        /\ Forwards(request[r].status, "LIVE") /\ Free(r)
    BY <1>4 DEF Activate, Activated, Activatable, In, Forwards
  <2> QED
    BY <2>1, DecideRight DEF Statuses
<1> QED
  BY <1>1, <1>2, <1>3, <1>4

\* A pass that goes on keeps its shape.
LEMMA PassGoesOn ==
    ASSUME TypeOK, NEW s \in Sweepers, NEW pass \in Pass, sweep' = [sweep EXCEPT ![s] = pass]
    PROVE  sweep' \in [Sweepers -> Pass]
BY DEF TypeOK

\* A sweep that goes on is at one of the requests it has left.
LEMMA LeftIsPass ==
    ASSUME NEW left \in SUBSET Requests
    PROVE  GoesOn(left) \in Pass
<1>1. CASE left = {}
  BY <1>1 DEF GoesOn, Pass
<1>2. CASE left # {}
  <2>1. PICK pass : pass = [task |-> "activate", left |-> left]
    OBVIOUS
  <2>2. pass \in [task : {"activate"}, left : SUBSET Requests]
    BY <2>1
  <2>3. GoesOn(left) = pass
    BY <1>2, <2>1 DEF GoesOn
  <2> QED
    BY <2>2, <2>3 DEF Pass
<1> QED
  BY <1>1, <1>2

\* All that are overdue end at once.
LEMMA SweepEndsRight ==
    ASSUME PlacesInv, NEW s \in Sweepers, SweepEnds(s)
    PROVE  PlacesInv'
<1>1. TypeOK /\ request \in [Requests -> Row] /\ clock \in 0..MaxTime
  BY DEF PlacesInv, TypeOK
<1>2. UNCHANGED <<said, desk, clock, failures, crossed>>
  BY DEF SweepEnds
<1>3. PICK next : next = request'
  OBVIOUS
<1>4. next = [r \in Requests |->
          IF request[r].status = "LIVE" /\ Overdue(r, clock)
          THEN [request[r] EXCEPT !.status = "ENDED"] ELSE request[r]]
  BY <1>3 DEF SweepEnds
<1>5. ASSUME NEW r \in Requests
      PROVE  /\ next[r] \in Row
             /\ next[r].terms = request[r].terms /\ next[r].offered = request[r].offered
             /\ next[r].status = request[r].status
                \/ (request[r].status = "LIVE" /\ next[r].status = "ENDED")
  <2>1. PICK new : new = [request[r] EXCEPT !.status = "ENDED"]
    OBVIOUS
  <2>2. request[r] \in Row
    BY <1>1
  <2>3. new \in Row /\ new.terms = request[r].terms /\ new.offered = request[r].offered
        /\ new.status = "ENDED"
    BY <2>1, <2>2 DEF Row, Statuses
  <2>4. next[r] = request[r] \/ (request[r].status = "LIVE" /\ next[r] = new)
    BY <1>4, <2>1
  <2> QED
    BY <2>2, <2>3, <2>4
<1>6. next \in [Requests -> Row]
  BY <1>4, <1>5
<1>7. \A r \in Requests : Forwards(request[r].status, next[r].status)
  BY <1>5 DEF Forwards
<1>8. ThreadsRight'
  BY <1>2, <1>3, <1>5, <1>7, StatusMoves
<1>9. OneLivePerPlace'
  BY <1>3, <1>5 DEF PlacesInv, OneLivePerPlace, In, Requests
<1>10. PICK pass : pass = [task |-> "find", now |-> clock]
  OBVIOUS
<1>11. pass \in Pass /\ sweep' = [sweep EXCEPT ![s] = pass]
  BY <1>1, <1>10 DEF SweepEnds, Pass
<1>12. sweep' \in [Sweepers -> Pass]
  BY <1>1, <1>11, PassGoesOn
<1>13. TypeOK'
  BY <1>1, <1>2, <1>3, <1>6, <1>12 DEF TypeOK
<1> QED
  BY <1>8, <1>9, <1>13 DEF PlacesInv

\* What a pass carries says nothing of the rows.
LEMMA PassFrame ==
    ASSUME PlacesInv, sweep' \in [Sweepers -> Pass], clock' \in 0..MaxTime,
           failures' \in 0..MaxFailures, UNCHANGED <<request, said, desk, crossed>>
    PROVE  PlacesInv'
<1>1. OneLivePerPlace' /\ ThreadsRight'
  BY PlacesFrame DEF Agreeing
<1>2. TypeOK'
  BY DEF PlacesInv, TypeOK
<1> QED
  BY <1>1, <1>2 DEF PlacesInv

\* A sweep only remembers what it found; time only passes.
LEMMA SweepGoesOnRight ==
    ASSUME PlacesInv, NEW s \in Sweepers, SweepFinds(s) \/ SweepFails(s) \/ TimePasses
    PROVE  PlacesInv'
<1>1. TypeOK /\ clock \in 0..MaxTime /\ failures \in 0..MaxFailures /\ sweep \in [Sweepers -> Pass]
      /\ MaxTime \in Nat /\ MaxFailures \in Nat
  BY PlacementAssumption DEF PlacesInv, TypeOK
<1>2. CASE SweepFinds(s)
  <2>1. DueBatch(sweep[s].now) \subseteq Requests
    BY DEF DueBatch, First
  <2>2. sweep' \in [Sweepers -> Pass]
    BY <1>1, <1>2, <2>1, LeftIsPass, PassGoesOn DEF SweepFinds
  <2> QED
    BY <1>1, <1>2, <2>2, PassFrame DEF SweepFinds
<1>3. CASE SweepFails(s)
  <2>1. sweep' \in [Sweepers -> Pass]
    BY <1>1, <1>3, PassGoesOn DEF SweepFails, Pass
  <2>2. failures' \in 0..MaxFailures
    BY <1>1, <1>3 DEF SweepFails
  <2> QED
    BY <1>1, <1>3, <2>1, <2>2, PassFrame DEF SweepFails
<1>4. CASE TimePasses
  <2>1. clock' \in 0..MaxTime
    BY <1>1, <1>4 DEF TimePasses
  <2> QED
    BY <1>1, <1>4, <2>1, PassFrame DEF TimePasses
<1> QED
  BY <1>2, <1>3, <1>4

\* The sweep asks again before it activates what it found.
LEMMA SweepActivatesRight ==
    ASSUME PlacesInv, NEW s \in Sweepers, SweepActivates(s)
    PROVE  PlacesInv'
<1>1. TypeOK /\ sweep[s] \in Pass /\ sweep[s].task = "activate"
  BY DEF PlacesInv, TypeOK, SweepActivates
<1>2. sweep[s].left \in SUBSET Requests
  BY <1>1 DEF Pass, IdleSweep
<1>3. PICK r \in Oldest(sweep[s].left) :
          request' = Activated(r) /\ sweep' = [sweep EXCEPT ![s] = GoesOn(sweep[s].left \ {r})]
  BY DEF SweepActivates
<1>4. r \in Requests /\ sweep[s].left \ {r} \in SUBSET Requests
  BY <1>2 DEF Oldest
<1>5. UNCHANGED <<said, desk, clock, failures, crossed>>
  BY DEF SweepActivates
<1>6. sweep' \in [Sweepers -> Pass]
  BY <1>1, <1>3, <1>4, LeftIsPass, PassGoesOn
<1>7. CASE Activatable(r) /\ Free(r)
  <2>1. request' = Moved(r, "LIVE") /\ Forwards(request[r].status, "LIVE")
    BY <1>3, <1>7 DEF Activated, Activatable, Forwards
  <2>2. request' \in [Requests -> Row] /\ OneLivePerPlace' /\ ThreadsRight'
    BY <1>4, <1>5, <1>7, <2>1, MoveRight DEF Statuses
  <2>3. TypeOK'
    BY <1>1, <1>5, <1>6, <2>2 DEF TypeOK
  <2> QED
    BY <2>2, <2>3 DEF PlacesInv
<1>8. CASE ~(Activatable(r) /\ Free(r))
  <2>1. UNCHANGED request
    BY <1>3, <1>8 DEF Activated
  <2> QED
    BY <1>1, <1>5, <1>6, <2>1, PassFrame DEF TypeOK
<1> QED
  BY <1>7, <1>8

\* Every step keeps the invariant.
LEMMA PlacesKept == PlacesInv /\ [Next]_vars => PlacesInv'
<1> SUFFICES ASSUME PlacesInv, [Next]_vars PROVE PlacesInv'
  OBVIOUS
<1>1. ASSUME NEW d \in Desks, AtDesk(d) PROVE PlacesInv'
  BY <1>1, AskRight, OpenRequestRight, LookRight, AnswerRight, GivesUpRight DEF AtDesk
<1>2. ASSUME NEW r \in Requests, Decline(r) \/ Withdraw(r) \/ End(r) \/ Activate(r) PROVE PlacesInv'
  BY <1>2, DecisionsRight
<1>3. ASSUME NEW s \in Sweepers, Sweeps(s) \/ SweepFails(s) PROVE PlacesInv'
  BY <1>3, SweepEndsRight, SweepGoesOnRight, SweepActivatesRight DEF Sweeps
<1>4. CASE TimePasses
  <2>1. sweep' \in [Sweepers -> Pass] /\ failures' \in 0..MaxFailures /\ clock' \in 0..MaxTime
    BY <1>4, PlacementAssumption DEF TimePasses, PlacesInv, TypeOK
  <2> QED
    BY <1>4, <2>1, PassFrame DEF TimePasses
<1>5. CASE UNCHANGED vars
  <2>1. sweep' \in [Sweepers -> Pass] /\ failures' \in 0..MaxFailures /\ clock' \in 0..MaxTime
    BY <1>5 DEF vars, PlacesInv, TypeOK
  <2> QED
    BY <1>5, <2>1, PassFrame DEF vars
<1> QED
  BY <1>1, <1>2, <1>3, <1>4, <1>5 DEF Next

\* What the run checks is part of the invariant.
LEMMA PlacesImplies == PlacesInv => PlacementInv
<1> SUFFICES ASSUME PlacesInv PROVE BothSaidTheTerms
  BY DEF PlacesInv, PlacementInv
<1>1. ASSUME NEW r \in In({"AGREED", "LIVE", "ENDED"}) \ crossed, NEW side \in Sides
      PROVE  said[r][side] = Stated(request[r].terms) /\ request[r].terms \in Terms
  BY <1>1 DEF PlacesInv, ThreadsRight, ThreadRight, In, Agreed, TypeOK, Row
<1> QED
  BY <1>1, StatedIs DEF BothSaidTheTerms

\* For any places, terms, requests and sweepers: two requests are never live in
\* one place, and the price, the place and a period with both ends that were
\* agreed are what both sides said last, unless a counter-offer crossed an
\* acceptance (placement.ts:23, 80-84, 214-251, 328).
THEOREM PlacementsAreRight == Spec => []PlacementInv
<1>1. Spec => []PlacesInv
  BY PlacesStart, PlacesKept, PTL DEF Spec
<1> QED
  BY <1>1, PlacesImplies, PTL

-----------------------------------------------------------------------------
\* What is over has no way back: no statement takes a row that is.
LEMMA OverStays ==
    ASSUME PlacesInv, [Next]_vars, NEW r \in Requests, request[r].status \in Over
    PROVE  request'[r].status = request[r].status
<1>1. request \in [Requests -> Row]
  BY DEF PlacesInv, TypeOK
<1>2. ASSUME NEW q \in Requests, NEW mark \in Statuses, request' = Moved(q, mark),
             request[q].status \notin Over
      PROVE  request'[r].status = request[r].status
  BY <1>1, <1>2, MovedRow
<1>3. ASSUME UNCHANGED request PROVE request'[r].status = request[r].status
  BY <1>3
<1>4. ASSUME NEW d \in Desks, AtDesk(d) PROVE request'[r].status = request[r].status
  <2>1. CASE Open(d)
    <3>1. PICK q \in Oldest(In({"none"})) :
            request' = [request EXCEPT ![q] =
               [status |-> "REQUESTED", listing |-> desk[d].listing,
                offered |-> Read(d).cents, terms |-> [Read(d) EXCEPT !.cents = 0]]]
      BY <2>1 DEF Open
    <3>2. q # r
      BY <3>1 DEF Oldest, In, Over
    <3> QED
      BY <1>1, <3>1, <3>2
  <2>2. CASE Answer(d)
    <3>1. PICK q : q = desk[d].request
      OBVIOUS
    <3>2. desk[d].task \in Answers /\ request[q].status \in From(desk[d].task) /\ q \in Requests
      BY <2>2, <3>1, DeskIs DEF Answer, Stands, PlacesInv
    <3>3. request[q].status \notin Over
      BY <3>2 DEF From, Answers, AWAITING_ADMIN, OfferStands, Over
    <3>4. q # r
      BY <3>3
    <3>5. PICK read : read = Read(d)
      OBVIOUS
    <3>6. CASE request' = [request EXCEPT ![q].status = "COUNTERED", ![q].terms = read]
      BY <1>1, <3>4, <3>6
    <3>7. CASE request' = [request EXCEPT ![q].status = "AGREED", ![q].terms.cents = read.cents]
      BY <1>1, <3>4, <3>7
    <3>8. CASE request' = Moved(q, "AGREED")
      BY <1>1, <3>4, <3>8 DEF Moved
    <3> QED
      BY <2>2, <3>1, <3>5, <3>6, <3>7, <3>8 DEF Answer
  <2>3. CASE ~Open(d) /\ ~Answer(d)
    BY <1>3, <1>4, <2>3 DEF AtDesk, Ask, Look, GivesUp
  <2> QED
    BY <2>1, <2>2, <2>3
<1>5. ASSUME NEW q \in Requests, Decline(q) \/ Withdraw(q) \/ End(q) \/ Activate(q)
      PROVE  request'[r].status = request[r].status
  <2>1. request[q].status \notin Over
    BY <1>5 DEF Decline, Withdraw, End, Activate, In, AWAITING_ADMIN, SELLER_CAN_WITHDRAW, Over
  <2>2. \E mark \in Statuses : request' = Moved(q, mark)
    BY <1>5 DEF Decline, Withdraw, End, Activate, Activated, Activatable, In, Statuses
  <2> QED
    BY <1>2, <2>1, <2>2
<1>6. ASSUME NEW s \in Sweepers, Sweeps(s) \/ SweepFails(s)
      PROVE  request'[r].status = request[r].status
  <2>1. CASE SweepEnds(s)
    <3>1. request[r].status # "LIVE"
      BY DEF Over
    <3> QED
      BY <2>1, <3>1 DEF SweepEnds
  <2>2. CASE SweepFinds(s) \/ SweepFails(s)
    BY <1>3, <2>2 DEF SweepFinds, SweepFails
  <2>3. CASE SweepActivates(s)
    <3>1. sweep[s] \in Pass /\ sweep[s].task = "activate"
      BY <2>3 DEF PlacesInv, TypeOK, SweepActivates
    <3>2. sweep[s].left \in SUBSET Requests
      BY <3>1 DEF Pass, IdleSweep
    <3>3. PICK q \in Oldest(sweep[s].left) : request' = Activated(q)
      BY <2>3 DEF SweepActivates
    <3>4. q \in Requests
      BY <3>2 DEF Oldest
    <3>5. CASE Activatable(q) /\ Free(q)
      BY <1>2, <3>3, <3>4, <3>5 DEF Activated, Activatable, Over, Statuses
    <3>6. CASE ~(Activatable(q) /\ Free(q))
      BY <1>3, <3>3, <3>6 DEF Activated
    <3> QED
      BY <3>5, <3>6
  <2> QED
    BY <1>6, <2>1, <2>2, <2>3 DEF Sweeps
<1>7. CASE TimePasses \/ UNCHANGED vars
  BY <1>3, <1>7 DEF TimePasses, vars
<1> QED
  BY <1>4, <1>5, <1>6, <1>7 DEF Next

\* A request that was declined, withdrawn or ended is never shown again,
\* though a sweep may have found it due before (placement.ts:415-429, 522-530).
THEOREM OverIsOverAlways == Spec => OverIsOver
<1>1. PlacesInv /\ [Next]_vars =>
          [\A r \in Requests : request[r].status \in Over =>
               request'[r].status = request[r].status]_vars
  BY OverStays
<1>2. Spec => []PlacesInv
  BY PlacesStart, PlacesKept, PTL DEF Spec
<1> QED
  BY <1>1, <1>2, PTL DEF Spec, OverIsOver

-----------------------------------------------------------------------------
(***************************************************************************)
(* Reviews and the cache that shows them                                   *)
(***************************************************************************)

Lookup == [task : CacheTasks \cup {"idle"}, wants : CacheKeys, refresh : BOOLEAN,
           own : Nat, rating : Nat, missed : SUBSET Nat]

\* What a request has read lacks the commits that it has missed and no other,
\* and who is to release a lock refreshes.
LookupRight(l) ==
    /\ l.own <= source /\ l.rating <= source /\ l.missed \subseteq 1..source
    /\ l.task \in {"ask", "load", "keep", "store"} /\ l.wants = "page" =>
           \A c \in 1..source : l.own < c => c \in l.missed
    /\ l.task \in {"keep", "store"} => \A c \in 1..source : l.rating < c => c \in l.missed
    /\ l.task \in {"claim", "read", "ask", "store"} => l.wants = "page"
    /\ l.task = "release" => l.refresh
    /\ l.task = "idle" => l = Resting

ReadersRight ==
    /\ reader \in [Readers -> Lookup]
    /\ \A r \in Readers : LookupRight(reader[r])

\* One refreshes, under the lock.
LocksRight ==
    /\ lock \in BOOLEAN /\ lapsed \in BOOLEAN
    /\ ~lapsed => /\ Refreshing # {} => lock
                  /\ \A q, r \in Refreshing : q = r

\* No entry and no drop is of a commit to come.
EntriesRight ==
    /\ rating \in [age : {"fresh", "gone"}, rating : Nat] /\ rating.rating <= source
    /\ page \in [age : {"fresh", "stale", "gone"}, own : Nat, rating : Nat]
    /\ page.own <= source /\ page.rating <= source
    /\ due \in [CacheKeys -> SUBSET Nat] /\ escaped \in [CacheKeys -> SUBSET Nat]
    /\ \A k \in CacheKeys : due[k] \subseteq 1..source /\ escaped[k] \subseteq 1..source

ShownRight == EntriesRight /\ StaleIsExplained

CommitsCounted == source \in 0..MaxWrites /\ review \in 0..source

PageInv == CommitsCounted /\ ReadersRight /\ LocksRight /\ ShownRight

LEMMA RestingIs ==
    /\ Resting \in Lookup
    /\ Resting.task = "idle" /\ Resting.wants = "page" /\ Resting.refresh = FALSE
    /\ Resting.own = 0 /\ Resting.rating = 0 /\ Resting.missed = {}
BY DEF Resting, Lookup, CacheKeys

\* A request that rests is right, whatever was committed.
LEMMA RestingIsRight == source \in Nat => LookupRight(Resting)
BY RestingIs DEF LookupRight

\* The page starts uncached.
LEMMA ReviewsStart == ReviewsInit => PageInv
<1> SUFFICES ASSUME ReviewsInit PROVE PageInv
  OBVIOUS
<1>1. source = 0 /\ review = 0 /\ source \in 0..MaxWrites
  BY ReviewsAssumption DEF ReviewsInit, CacheInit, NoReview
<1>2. \A r \in Readers : reader[r] = Resting
  BY DEF ReviewsInit, CacheInit
<1>3. ReadersRight
  BY <1>1, <1>2, RestingIs, RestingIsRight DEF ReviewsInit, CacheInit, ReadersRight
<1>4. Refreshing = {}
  BY <1>2, RestingIs DEF Refreshing
<1>5. LocksRight
  BY <1>4 DEF ReviewsInit, CacheInit, LocksRight
<1>6. EntriesRight
  BY <1>1 DEF ReviewsInit, CacheInit, EntriesRight, NoRating, NoPage
<1>7. StaleIsExplained
  BY <1>1 DEF StaleIsExplained
<1> QED
  BY <1>1, <1>3, <1>5, <1>6, <1>7 DEF PageInv, ShownRight, CommitsCounted

-----------------------------------------------------------------------------
(* What the steps leave alone.                                             *)

\* The entries, and the drops under way, are left alone.
LEMMA ShownFrame ==
    ASSUME ShownRight, UNCHANGED <<source, rating, page, due, escaped>>
    PROVE  ShownRight'
BY DEF ShownRight, EntriesRight, StaleIsExplained, CacheKeys

\* The requests are left alone.
LEMMA ReadersFrame ==
    ASSUME ReadersRight, UNCHANGED <<source, reader>>
    PROVE  ReadersRight' /\ Refreshing' = Refreshing
BY DEF ReadersRight, LookupRight, Refreshing, Lookup, CacheKeys

\* One request turns to what is right.
LEMMA ReaderTurns ==
    ASSUME ReadersRight, NEW r \in Readers, NEW new \in Lookup, LookupRight(new),
           reader' = [reader EXCEPT ![r] = new], UNCHANGED source
    PROVE  /\ ReadersRight'
           /\ Refreshing' = IF new.refresh THEN Refreshing \cup {r} ELSE Refreshing \ {r}
<1>1. reader' \in [Readers -> Lookup] /\ reader'[r] = new
      /\ \A q \in Readers \ {r} : reader'[q] = reader[q]
  BY DEF ReadersRight
<1>2. ASSUME NEW q \in Readers PROVE LookupRight(reader[q])'
  <2>1. PICK next : next = reader'[q]
    OBVIOUS
  <2>2. LookupRight(next)
    BY <1>1, <2>1 DEF ReadersRight
  <2> QED
    BY <2>1, <2>2 DEF LookupRight
<1>3. Refreshing' = IF new.refresh THEN Refreshing \cup {r} ELSE Refreshing \ {r}
  BY <1>1 DEF Refreshing
<1> QED
  BY <1>1, <1>2, <1>3 DEF ReadersRight, Lookup

\* Who refreshes may stop, and nobody begins.
LEMMA LocksFrame ==
    ASSUME LocksRight, Refreshing' \subseteq Refreshing, UNCHANGED <<lock, lapsed>>
    PROVE  LocksRight'
BY DEF LocksRight

\* What a request has at hand, and what it has with another task.
LEMMA ReaderIs ==
    ASSUME ReadersRight, NEW r \in Readers
    PROVE  /\ reader[r] \in Lookup /\ LookupRight(reader[r])
           /\ reader[r].refresh => r \in Refreshing
           /\ \A task \in CacheTasks : \A new : new = [reader[r] EXCEPT !.task = task] =>
                /\ new \in Lookup /\ new.task = task /\ new.wants = reader[r].wants
                /\ new.refresh = reader[r].refresh /\ new.own = reader[r].own
                /\ new.rating = reader[r].rating /\ new.missed = reader[r].missed
<1>1. reader[r] \in Lookup /\ LookupRight(reader[r])
  BY DEF ReadersRight
<1>2. reader[r].refresh => r \in Refreshing
  BY DEF Refreshing
<1>3. ASSUME NEW task \in CacheTasks, NEW new, new = [reader[r] EXCEPT !.task = task]
      PROVE  /\ new \in Lookup /\ new.task = task /\ new.wants = reader[r].wants
             /\ new.refresh = reader[r].refresh /\ new.own = reader[r].own
             /\ new.rating = reader[r].rating /\ new.missed = reader[r].missed
  BY <1>1, <1>3 DEF Lookup
<1> QED
  BY <1>1, <1>2, <1>3

\* A request that turns to something, while the entries and the lock stay.
LEMMA OneTurns ==
    ASSUME PageInv, NEW r \in Readers, NEW new \in Lookup, LookupRight(new),
           reader' = [reader EXCEPT ![r] = new], new.refresh => reader[r].refresh,
           UNCHANGED <<source, review, rating, page, lock, due, lapsed, escaped>>
    PROVE  PageInv'
<1>1. ReadersRight' /\ Refreshing' = IF new.refresh THEN Refreshing \cup {r} ELSE Refreshing \ {r}
  BY ReaderTurns DEF PageInv
<1>2. Refreshing' \subseteq Refreshing
  BY <1>1, ReaderIs DEF PageInv
<1>3. LocksRight'
  BY <1>2, LocksFrame DEF PageInv
<1>4. ShownRight' /\ CommitsCounted'
  BY ShownFrame DEF PageInv, CommitsCounted
<1> QED
  BY <1>1, <1>3, <1>4 DEF PageInv

\* A request that stops, or goes on to release its lock.
LEMMA StopIs ==
    ASSUME ReadersRight, source \in Nat, NEW r \in Readers, Stops(r) \/ Finishes(r)
    PROVE  \E new \in Lookup : /\ LookupRight(new) /\ (new.refresh => reader[r].refresh)
                               /\ reader' = [reader EXCEPT ![r] = new]
<1>1. CASE Stops(r) \/ ~reader[r].refresh
  <2>1. reader' = [reader EXCEPT ![r] = Resting]
    BY <1>1 DEF Stops, Finishes
  <2> QED
    BY <2>1, RestingIs, RestingIsRight
<1>2. CASE Finishes(r) /\ reader[r].refresh
  <2>1. PICK new : new = [[Resting EXCEPT !.task = "release"] EXCEPT !.refresh = TRUE]
    OBVIOUS
  <2>2. new \in Lookup /\ new.task = "release" /\ new.refresh = TRUE
        /\ new.own = 0 /\ new.rating = 0 /\ new.missed = {}
    BY <2>1, RestingIs DEF Lookup, CacheTasks
  <2>3. LookupRight(new)
    BY <2>2 DEF LookupRight
  <2>4. reader' = [reader EXCEPT ![r] = new]
    BY <1>2, <2>1 DEF Finishes
  <2> QED
    BY <1>2, <2>2, <2>3, <2>4
<1> QED
  BY <1>1, <1>2

-----------------------------------------------------------------------------
(* The cache.                                                              *)

\* A look at the cache only decides what a request does next.
LEMMA GetRight ==
    ASSUME PageInv, NEW r \in Readers, GetPage(r) \/ GetRating(r), UNCHANGED reviewVars
    PROVE  PageInv'
<1>1. ReadersRight /\ source \in Nat /\ reader[r] = Resting
  BY DEF PageInv, CommitsCounted, GetPage, GetRating
<1>2. CASE GetPage(r)
  <2>1. PICK task : task = IF page.age = "stale" THEN "claim" ELSE "read"
    OBVIOUS
  <2>2. PICK new : new = [reader[r] EXCEPT !.task = task]
    OBVIOUS
  <2>3. task \in CacheTasks /\ task \in {"claim", "read"}
    BY <2>1 DEF CacheTasks
  <2>4. /\ new \in Lookup /\ new.task = task /\ new.wants = "page" /\ new.refresh = FALSE
        /\ new.own = 0 /\ new.rating = 0 /\ new.missed = {}
    BY <1>1, <2>2, <2>3, ReaderIs, RestingIs
  <2>5. LookupRight(new)
    BY <1>1, <2>3, <2>4 DEF LookupRight
  <2>6. reader' = [reader EXCEPT ![r] = new]
    BY <1>2, <2>1, <2>2 DEF GetPage, Turns
  <2>7. UNCHANGED <<source, review, rating, page, lock, due, lapsed, escaped>>
    BY <1>2 DEF GetPage, reviewVars
  <2> QED
    BY <2>4, <2>5, <2>6, <2>7, OneTurns
<1>3. CASE GetRating(r)
  <2>1. PICK new : new = [[reader[r] EXCEPT !.task = "load"] EXCEPT !.wants = "rating"]
    OBVIOUS
  <2>2. /\ new \in Lookup /\ new.task = "load" /\ new.wants = "rating" /\ new.refresh = FALSE
        /\ new.own = 0 /\ new.rating = 0 /\ new.missed = {}
    BY <1>1, <2>1, RestingIs DEF Lookup, CacheTasks, Filling, CacheKeys
  <2>3. LookupRight(new)
    BY <1>1, <2>2 DEF LookupRight
  <2>4. reader' = [[reader EXCEPT ![r].task = "load"] EXCEPT ![r].wants = "rating"]
    BY <1>3 DEF GetRating
  <2>5. reader' = [reader EXCEPT ![r] = new]
    BY <1>1, <2>1, <2>4 DEF ReadersRight
  <2>6. UNCHANGED <<source, review, rating, page, lock, due, lapsed, escaped>>
    BY <1>3 DEF GetRating, reviewVars
  <2> QED
    BY <2>2, <2>3, <2>5, <2>6, OneTurns
<1> QED
  BY <1>2, <1>3

\* Who refreshes claims the lock first.
LEMMA ClaimRight ==
    ASSUME PageInv, NEW r \in Readers, ClaimRefresh(r), UNCHANGED reviewVars
    PROVE  PageInv'
<1>1. UNCHANGED <<source, review, rating, page, due, escaped>> /\ reader[r].task = "claim"
  BY DEF ClaimRefresh, Reads, reviewVars
<1>2. ReadersRight /\ source \in Nat /\ reader[r] \in Lookup /\ LookupRight(reader[r])
  BY ReaderIs DEF PageInv, CommitsCounted
<1>3. CASE LockFree
  <2>1. PICK new : new = [[reader[r] EXCEPT !.task = "read"] EXCEPT !.refresh = TRUE]
    OBVIOUS
  <2>2. /\ new \in Lookup /\ new.task = "read" /\ new.refresh = TRUE /\ new.wants = reader[r].wants
        /\ new.own = reader[r].own /\ new.rating = reader[r].rating /\ new.missed = reader[r].missed
    BY <1>2, <2>1 DEF Lookup, CacheTasks
  <2>3. LookupRight(new)
    BY <1>1, <1>2, <2>2 DEF LookupRight
  <2>4. lock' = TRUE /\ lapsed' = (lapsed /\ Refreshing # {})
        /\ reader' = [[reader EXCEPT ![r].task = "read"] EXCEPT ![r].refresh = TRUE]
    BY <1>3 DEF ClaimRefresh
  <2>5. reader' = [reader EXCEPT ![r] = new]
    BY <1>2, <2>1, <2>4 DEF ReadersRight
  <2>6. ReadersRight' /\ Refreshing' = Refreshing \cup {r}
    BY <1>1, <1>2, <2>2, <2>3, <2>5, ReaderTurns
  <2>7. lapsed \/ Refreshing = {}
    BY <1>3 DEF LockFree, PageInv, LocksRight
  <2>8. ~lapsed' => Refreshing = {}
    BY <2>4, <2>7
  <2>9. LocksRight'
    BY <2>4, <2>6, <2>8 DEF LocksRight, PageInv
  <2> QED
    BY <1>1, <2>6, <2>9, ShownFrame DEF PageInv, CommitsCounted
<1>4. CASE ~LockFree
  <2>1. Stops(r) /\ UNCHANGED <<lock, lapsed>>
    BY <1>4 DEF ClaimRefresh
  <2> QED
    BY <1>1, <1>2, <2>1, StopIs, OneTurns
<1> QED
  BY <1>3, <1>4

\* What is read is current; a rating of the cache is as good as its entry.
LEMMA ReadsRight ==
    ASSUME PageInv, NEW r \in Readers, ReadReviews(r) \/ AskRating(r) \/ LoadRating(r), UNCHANGED reviewVars
    PROVE  PageInv'
<1>1. UNCHANGED <<source, review, rating, page, lock, due, lapsed, escaped>>
  BY DEF ReadReviews, AskRating, LoadRating, reviewVars
<1>2. ReadersRight /\ source \in Nat /\ reader[r] \in Lookup /\ LookupRight(reader[r])
  BY ReaderIs DEF PageInv, CommitsCounted
<1>3. CASE ReadReviews(r)
  <2>1. PICK new : new = [[reader[r] EXCEPT !.task = "ask"] EXCEPT !.own = source]
    OBVIOUS
  <2>2. /\ new \in Lookup /\ new.task = "ask" /\ new.own = source /\ new.wants = reader[r].wants
        /\ new.refresh = reader[r].refresh
        /\ new.rating = reader[r].rating /\ new.missed = reader[r].missed
    BY <1>2, <2>1 DEF Lookup, CacheTasks, Filling
  <2>3. reader[r].task = "read" /\ source <= source
    BY <1>2, <1>3 DEF ReadReviews, Reads
  <2>4. LookupRight(new)
    BY <1>2, <2>2, <2>3 DEF LookupRight
  <2>5. reader' = [[reader EXCEPT ![r].task = "ask"] EXCEPT ![r].own = source]
    BY <1>3 DEF ReadReviews
  <2>6. reader' = [reader EXCEPT ![r] = new]
    BY <1>2, <2>1, <2>5 DEF ReadersRight
  <2> QED
    BY <1>1, <2>2, <2>4, <2>6, OneTurns
<1>4. CASE AskRating(r) /\ rating.age = "fresh"
  <2>1. PICK missed : missed = reader[r].missed \cup due["rating"] \cup escaped["rating"]
    OBVIOUS
  <2>2. PICK new : new = [[[reader[r] EXCEPT !.task = "store"] EXCEPT !.rating = rating.rating]
                              EXCEPT !.missed = missed]
    OBVIOUS
  <2>3. EntriesRight /\ StaleIsExplained
    BY DEF PageInv, ShownRight
  <2>4. /\ due["rating"] \subseteq 1..source /\ escaped["rating"] \subseteq 1..source
        /\ rating.rating \in Nat /\ rating.rating <= source
    BY <2>3 DEF EntriesRight, CacheKeys
  <2>5. reader[r].missed \subseteq 1..source
    BY <1>2 DEF LookupRight
  <2>6. missed \subseteq 1..source /\ missed \in SUBSET Nat
    BY <1>2, <2>1, <2>4, <2>5
  <2>7. /\ new \in Lookup /\ new.task = "store" /\ new.rating = rating.rating /\ new.missed = missed
        /\ new.own = reader[r].own /\ new.wants = reader[r].wants
        /\ new.refresh = reader[r].refresh
    BY <1>2, <2>2, <2>4, <2>6 DEF Lookup, CacheTasks, Filling
  <2>8. reader[r].task = "ask"
    BY <1>4 DEF AskRating, Reads
  <2>9. \A c \in 1..source : rating.rating < c => c \in missed
    BY <1>4, <2>1, <2>3 DEF StaleIsExplained
  <2>10. \A c \in 1..source : reader[r].own < c => c \in missed
    BY <1>2, <2>1, <2>8 DEF LookupRight
  <2>11. reader[r].wants = "page" /\ reader[r].own <= source
    BY <1>2, <2>8 DEF LookupRight
  <2>12. LookupRight(new)
    BY <2>4, <2>6, <2>7, <2>9, <2>10, <2>11 DEF LookupRight
  <2>13. reader' = [reader EXCEPT ![r] = new]
    <3>1. reader' = [reader EXCEPT ![r].task = "store", ![r].rating = rating.rating,
                                   ![r].missed = @ \cup due["rating"] \cup escaped["rating"]]
      BY <1>4 DEF AskRating
    <3>2. reader' = [[[reader EXCEPT ![r].task = "store"] EXCEPT ![r].rating = rating.rating]
                         EXCEPT ![r].missed = missed]
      BY <1>2, <2>1, <3>1 DEF ReadersRight, Lookup
    <3> QED
      BY <1>2, <2>2, <3>2 DEF ReadersRight
  <2> QED
    BY <1>1, <2>7, <2>12, <2>13, OneTurns
<1>5. CASE AskRating(r) /\ rating.age # "fresh"
  <2>1. PICK new : new = [reader[r] EXCEPT !.task = "load"]
    OBVIOUS
  <2>2. "load" \in CacheTasks
    BY DEF CacheTasks, Filling
  <2>3. /\ new \in Lookup /\ new.task = "load" /\ new.wants = reader[r].wants
        /\ new.refresh = reader[r].refresh /\ new.own = reader[r].own
        /\ new.rating = reader[r].rating /\ new.missed = reader[r].missed
    BY <1>2, <2>1, <2>2, ReaderIs
  <2>4. reader[r].task = "ask"
    BY <1>5 DEF AskRating, Reads
  <2>5. LookupRight(new)
    BY <1>2, <2>3, <2>4 DEF LookupRight
  <2>6. reader' = [reader EXCEPT ![r] = new]
    BY <1>5, <2>1 DEF AskRating, Turns
  <2> QED
    BY <1>1, <2>3, <2>5, <2>6, OneTurns
<1>6. CASE LoadRating(r)
  <2>1. PICK new : new = [[reader[r] EXCEPT !.task = "keep"] EXCEPT !.rating = source]
    OBVIOUS
  <2>2. /\ new \in Lookup /\ new.task = "keep" /\ new.rating = source /\ new.wants = reader[r].wants
        /\ new.refresh = reader[r].refresh
        /\ new.own = reader[r].own /\ new.missed = reader[r].missed
    BY <1>2, <2>1 DEF Lookup, CacheTasks, Filling
  <2>3. reader[r].task = "load"
    BY <1>6 DEF LoadRating, Reads
  <2>4. LookupRight(new)
    BY <1>2, <2>2, <2>3 DEF LookupRight
  <2>5. reader' = [[reader EXCEPT ![r].task = "keep"] EXCEPT ![r].rating = source]
    BY <1>6 DEF LoadRating
  <2>6. reader' = [reader EXCEPT ![r] = new]
    BY <1>2, <2>1, <2>5 DEF ReadersRight
  <2> QED
    BY <1>1, <2>2, <2>4, <2>6, OneTurns
<1> QED
  BY <1>3, <1>4, <1>5, <1>6

\* A request whose rating is kept, or is not, goes on to the page it wants.
LEMMA KeptIs ==
    ASSUME ReadersRight, source \in Nat, NEW r \in Readers, Reads(r, "keep"),
           IF reader[r].wants = "page" THEN Turns(r, "store") ELSE Stops(r)
    PROVE  \E new \in Lookup : /\ LookupRight(new) /\ (new.refresh => reader[r].refresh)
                               /\ reader' = [reader EXCEPT ![r] = new]
<1>1. CASE reader[r].wants = "page"
  <2>1. PICK new : new = [reader[r] EXCEPT !.task = "store"]
    OBVIOUS
  <2>2. "store" \in CacheTasks
    BY DEF CacheTasks, Filling
  <2>3. /\ new \in Lookup /\ new.task = "store" /\ new.wants = reader[r].wants
        /\ new.refresh = reader[r].refresh /\ new.own = reader[r].own
        /\ new.rating = reader[r].rating /\ new.missed = reader[r].missed
        /\ LookupRight(reader[r])
    BY <2>1, <2>2, ReaderIs
  <2>4. LookupRight(new)
    BY <1>1, <2>3 DEF LookupRight, Reads
  <2>5. reader' = [reader EXCEPT ![r] = new]
    BY <1>1, <2>1 DEF Turns
  <2> QED
    BY <2>3, <2>4, <2>5
<1>2. CASE reader[r].wants # "page"
  BY <1>2, StopIs
<1> QED
  BY <1>1, <1>2

\* A request that fails stores nothing.
LEMMA ReadFailsRight ==
    ASSUME PageInv, NEW r \in Readers, ReadFails(r), UNCHANGED reviewVars
    PROVE  PageInv'
<1>1. UNCHANGED <<source, review, rating, page, lock, due, lapsed, escaped>>
  BY DEF ReadFails, reviewVars
<1>2. ReadersRight /\ source \in Nat
  BY DEF PageInv, CommitsCounted
<1>3. \/ Stops(r) \/ Finishes(r)
      \/ Reads(r, "keep") /\ reader[r].wants = "page" /\ Turns(r, "store")
  BY DEF ReadFails
<1>4. \E new \in Lookup : /\ LookupRight(new) /\ (new.refresh => reader[r].refresh)
                          /\ reader' = [reader EXCEPT ![r] = new]
  BY <1>2, <1>3, StopIs, KeptIs
<1> QED
  BY <1>1, <1>4, OneTurns

\* A rating that is kept lacks what its request missed.
LEMMA KeepRight ==
    ASSUME PageInv, NEW r \in Readers, KeepRating(r), UNCHANGED reviewVars
    PROVE  PageInv'
<1>1. /\ reader[r].task = "keep" /\ Reads(r, "keep")
      /\ IF reader[r].wants = "page" THEN Turns(r, "store") ELSE Stops(r)
      /\ UNCHANGED <<source, review, page, lock, due, lapsed>>
  BY DEF KeepRating, Reads, reviewVars
<1>2. ReadersRight /\ source \in Nat /\ LookupRight(reader[r]) /\ reader[r] \in Lookup
  BY ReaderIs DEF PageInv, CommitsCounted
<1>3. PICK new \in Lookup : /\ LookupRight(new) /\ (new.refresh => reader[r].refresh)
                            /\ reader' = [reader EXCEPT ![r] = new]
  BY <1>1, <1>2, KeptIs
<1>4. ReadersRight' /\ Refreshing' = IF new.refresh THEN Refreshing \cup {r} ELSE Refreshing \ {r}
  BY <1>1, <1>2, <1>3, ReaderTurns
<1>5. Refreshing' \subseteq Refreshing
  BY <1>2, <1>3, <1>4, ReaderIs
<1>6. LocksRight'
  BY <1>1, <1>5, LocksFrame DEF PageInv
<1>7. PICK shown, missed : shown = reader[r].rating /\ missed = reader[r].missed
  OBVIOUS
<1>8. /\ shown \in Nat /\ shown <= source /\ missed \subseteq 1..source
      /\ \A c \in 1..source : shown < c => c \in missed
  BY <1>1, <1>2, <1>7 DEF LookupRight, Lookup
<1>9. PICK left : left = {c \in missed : shown < c} \ due["rating"]
  OBVIOUS
<1>10. /\ rating' = [age |-> "fresh", rating |-> shown]
       /\ escaped' = [escaped EXCEPT !["rating"] = left]
  BY <1>7, <1>9 DEF KeepRating
<1>11. EntriesRight /\ StaleIsExplained
  BY DEF PageInv, ShownRight
<1>12. left \subseteq 1..source /\ left \in SUBSET Nat
  <2>1. left \subseteq missed
    BY <1>9
  <2>2. 1..source \subseteq Nat
    BY <1>2
  <2> QED
    BY ONLY <2>1, <2>2, <1>8
<1>13. /\ escaped' \in [CacheKeys -> SUBSET Nat] /\ escaped'["rating"] = left
       /\ escaped'["page"] = escaped["page"]
  BY <1>10, <1>11, <1>12 DEF EntriesRight, CacheKeys
<1>14. EntriesRight'
  BY <1>1, <1>8, <1>10, <1>11, <1>12, <1>13 DEF EntriesRight, CacheKeys
<1>15. StaleIsExplained'
  <2>1. \A c \in 1..source : shown < c => c \in due["rating"] \cup left
    BY <1>8, <1>9
  <2>2. \A c \in 1..source : page.age # "gone" /\ (page.own < c \/ page.rating < c) =>
            c \in due["page"] \cup escaped["page"]
    BY <1>11 DEF StaleIsExplained
  <2> QED
    BY <1>1, <1>10, <1>13, <2>1, <2>2 DEF StaleIsExplained
<1> QED
  BY <1>1, <1>4, <1>6, <1>14, <1>15 DEF PageInv, CommitsCounted, ShownRight

\* So does a page that is stored.
LEMMA StoreRight ==
    ASSUME PageInv, NEW r \in Readers, StorePage(r), UNCHANGED reviewVars
    PROVE  PageInv'
<1>1. reader[r].task = "store" /\ Finishes(r) /\ UNCHANGED <<source, review, rating, lock, due, lapsed>>
  BY DEF StorePage, Reads, reviewVars
<1>2. ReadersRight /\ source \in Nat /\ LookupRight(reader[r]) /\ reader[r] \in Lookup
  BY ReaderIs DEF PageInv, CommitsCounted
<1>3. PICK new \in Lookup : /\ LookupRight(new) /\ (new.refresh => reader[r].refresh)
                            /\ reader' = [reader EXCEPT ![r] = new]
  BY <1>1, <1>2, StopIs
<1>4. ReadersRight' /\ Refreshing' = IF new.refresh THEN Refreshing \cup {r} ELSE Refreshing \ {r}
  BY <1>1, <1>2, <1>3, ReaderTurns
<1>5. Refreshing' \subseteq Refreshing
  BY <1>2, <1>3, <1>4, ReaderIs
<1>6. LocksRight'
  BY <1>1, <1>5, LocksFrame DEF PageInv
<1>7. PICK own, shown, missed :
          own = reader[r].own /\ shown = reader[r].rating /\ missed = reader[r].missed
  OBVIOUS
<1>8. /\ own \in Nat /\ own <= source /\ shown \in Nat /\ shown <= source /\ missed \subseteq 1..source
      /\ \A c \in 1..source : own < c \/ shown < c => c \in missed
  BY <1>1, <1>2, <1>7 DEF LookupRight, Lookup
<1>9. PICK left : left = missed \ due["page"]
  OBVIOUS
<1>10. /\ page' = [age |-> "fresh", own |-> own, rating |-> shown]
       /\ escaped' = [escaped EXCEPT !["page"] = left]
  BY <1>7, <1>9 DEF StorePage
<1>11. EntriesRight /\ StaleIsExplained
  BY DEF PageInv, ShownRight
<1>12. left \subseteq 1..source /\ left \in SUBSET Nat
  <2>1. left \subseteq missed
    BY <1>9
  <2>2. 1..source \subseteq Nat
    BY <1>2
  <2> QED
    BY ONLY <2>1, <2>2, <1>8
<1>13. /\ escaped' \in [CacheKeys -> SUBSET Nat] /\ escaped'["page"] = left
       /\ escaped'["rating"] = escaped["rating"]
  BY <1>10, <1>11, <1>12 DEF EntriesRight, CacheKeys
<1>14. EntriesRight'
  BY <1>1, <1>8, <1>10, <1>11, <1>12, <1>13 DEF EntriesRight, CacheKeys
<1>15. StaleIsExplained'
  <2>1. \A c \in 1..source : own < c \/ shown < c => c \in due["page"] \cup left
    BY <1>8, <1>9
  <2>2. \A c \in 1..source : rating.age # "gone" /\ rating.rating < c =>
            c \in due["rating"] \cup escaped["rating"]
    BY <1>11 DEF StaleIsExplained
  <2> QED
    BY <1>1, <1>10, <1>13, <2>1, <2>2 DEF StaleIsExplained
<1> QED
  BY <1>1, <1>4, <1>6, <1>14, <1>15 DEF PageInv, CommitsCounted, ShownRight

\* The lock is given back by who holds it.
LEMMA ReleaseRight ==
    ASSUME PageInv, NEW r \in Readers, ReleaseRefresh(r), UNCHANGED reviewVars
    PROVE  PageInv'
<1>1. /\ reader' = [reader EXCEPT ![r] = Resting] /\ lock' = FALSE /\ reader[r].task = "release"
      /\ UNCHANGED <<source, review, rating, page, due, lapsed, escaped>>
  BY DEF ReleaseRefresh, Stops, Reads, reviewVars
<1>2. ReadersRight /\ source \in Nat /\ LookupRight(reader[r])
  BY ReaderIs DEF PageInv, CommitsCounted
<1>3. ReadersRight' /\ Refreshing' = Refreshing \ {r}
  BY <1>1, <1>2, RestingIs, RestingIsRight, ReaderTurns
<1>4. r \in Refreshing
  BY <1>1, <1>2 DEF LookupRight, Refreshing
<1>5. LocksRight'
  BY <1>1, <1>3, <1>4 DEF PageInv, LocksRight
<1> QED
  BY <1>1, <1>3, <1>5, ShownFrame DEF PageInv, CommitsCounted

\* A lock that lapses may be taken by another.
LEMMA LapseRight ==
    ASSUME PageInv, LapseLock, UNCHANGED reviewVars
    PROVE  PageInv'
<1>1. /\ lock' = FALSE /\ lapsed' = (lapsed \/ Refreshing # {})
      /\ UNCHANGED <<source, review, rating, page, reader, due, escaped>>
  BY DEF LapseLock, reviewVars
<1>2. ReadersRight' /\ Refreshing' = Refreshing
  BY <1>1, ReadersFrame DEF PageInv
<1>3. LocksRight'
  BY <1>1, <1>2 DEF PageInv, LocksRight
<1> QED
  BY <1>1, <1>2, <1>3, ShownFrame DEF PageInv, CommitsCounted

\* Entries that age, go or are given up, while nobody else moves.
LEMMA EntriesMove ==
    ASSUME PageInv, UNCHANGED <<source, review, lock, reader, lapsed>>, ShownRight'
    PROVE  PageInv'
<1>1. ReadersRight' /\ Refreshing' = Refreshing
  BY ReadersFrame DEF PageInv
<1>2. LocksRight'
  BY <1>1 DEF PageInv, LocksRight
<1> QED
  BY <1>1, <1>2 DEF PageInv, CommitsCounted

\* A rating that goes.
LEMMA RatingGoes ==
    ASSUME PageInv, UNCHANGED <<source, page>>,
           rating' = NoRating, escaped' = [escaped EXCEPT !["rating"] = {}],
           due' \in [CacheKeys -> SUBSET Nat], due'["page"] = due["page"],
           due'["rating"] \subseteq due["rating"]
    PROVE  ShownRight'
<1>1. EntriesRight /\ StaleIsExplained /\ source \in Nat
  BY DEF PageInv, ShownRight, CommitsCounted
<1>2. /\ escaped' \in [CacheKeys -> SUBSET Nat] /\ escaped'["rating"] = {}
      /\ escaped'["page"] = escaped["page"]
  BY <1>1 DEF EntriesRight, CacheKeys
<1>3. EntriesRight'
  BY <1>1, <1>2 DEF EntriesRight, NoRating, CacheKeys
<1>4. StaleIsExplained'
  BY <1>1, <1>2 DEF StaleIsExplained, NoRating
<1> QED
  BY <1>3, <1>4 DEF ShownRight

\* A page that goes.
LEMMA PageGoes ==
    ASSUME PageInv, UNCHANGED <<source, rating>>,
           page' = NoPage, escaped' = [escaped EXCEPT !["page"] = {}],
           due' \in [CacheKeys -> SUBSET Nat], due'["rating"] = due["rating"],
           due'["page"] \subseteq due["page"]
    PROVE  ShownRight'
<1>1. EntriesRight /\ StaleIsExplained /\ source \in Nat
  BY DEF PageInv, ShownRight, CommitsCounted
<1>2. /\ escaped' \in [CacheKeys -> SUBSET Nat] /\ escaped'["page"] = {}
      /\ escaped'["rating"] = escaped["rating"]
  BY <1>1 DEF EntriesRight, CacheKeys
<1>3. EntriesRight'
  BY <1>1, <1>2 DEF EntriesRight, NoPage, CacheKeys
<1>4. StaleIsExplained'
  BY <1>1, <1>2 DEF StaleIsExplained, NoPage
<1> QED
  BY <1>3, <1>4 DEF ShownRight

\* An entry that ages shows what it showed, until it goes.
LEMMA AgesRight ==
    ASSUME PageInv, AgeRating \/ AgePage, UNCHANGED reviewVars
    PROVE  PageInv'
<1>1. UNCHANGED <<source, review, lock, reader, due, lapsed>>
  BY DEF AgeRating, AgePage, reviewVars
<1>2. EntriesRight /\ StaleIsExplained
  BY DEF PageInv, ShownRight
<1>3. CASE AgeRating
  <2>1. ShownRight'
    BY <1>1, <1>2, <1>3, RatingGoes DEF AgeRating, EntriesRight
  <2> QED
    BY <1>1, <2>1, EntriesMove
<1>4. CASE AgePage /\ page.age = "fresh"
  <2>1. PICK old : old = [page EXCEPT !.age = "stale"]
    OBVIOUS
  <2>2. page' = old /\ UNCHANGED <<escaped, rating>>
    BY <1>4, <2>1 DEF AgePage
  <2>3. /\ old \in [age : {"fresh", "stale", "gone"}, own : Nat, rating : Nat]
        /\ old.own = page.own /\ old.rating = page.rating /\ old.age # "gone"
    BY <1>2, <2>1 DEF EntriesRight
  <2>4. EntriesRight'
    BY <1>1, <1>2, <2>2, <2>3 DEF EntriesRight, CacheKeys
  <2>5. StaleIsExplained'
    BY <1>1, <1>2, <1>4, <2>2, <2>3 DEF StaleIsExplained
  <2> QED
    BY <1>1, <2>4, <2>5, EntriesMove DEF ShownRight
<1>5. CASE AgePage /\ page.age # "fresh"
  <2>1. ShownRight'
    BY <1>1, <1>2, <1>5, PageGoes DEF AgePage, EntriesRight
  <2> QED
    BY <1>1, <2>1, EntriesMove
<1> QED
  BY <1>3, <1>4, <1>5

\* A drop makes up for its commit, and for what was stored before; one that is
\* lost is told of.
LEMMA DropsRight ==
    ASSUME PageInv, NEW c, DropRating(c) \/ DropPage(c) \/ DropsFail(c), UNCHANGED reviewVars
    PROVE  PageInv'
<1>1. UNCHANGED <<source, review, lock, reader, lapsed>>
  BY DEF DropRating, DropPage, DropsFail, reviewVars
<1>2. EntriesRight /\ StaleIsExplained
  BY DEF PageInv, ShownRight
<1>3. ASSUME NEW k \in CacheKeys, NoLongerDue(c, k)
      PROVE  /\ due' \in [CacheKeys -> SUBSET Nat] /\ due'[k] \subseteq due[k]
             /\ \A j \in CacheKeys \ {k} : due'[j] = due[j]
  BY <1>2, <1>3 DEF NoLongerDue, EntriesRight
<1>4. CASE DropRating(c)
  <2>1. ShownRight'
    BY <1>1, <1>3, <1>4, RatingGoes DEF DropRating, CacheKeys
  <2> QED
    BY <1>1, <2>1, EntriesMove
<1>5. CASE DropPage(c)
  <2>1. ShownRight'
    BY <1>1, <1>3, <1>5, PageGoes DEF DropPage, CacheKeys
  <2> QED
    BY <1>1, <2>1, EntriesMove
<1>6. CASE DropsFail(c)
  <2>1. PICK lost \in SUBSET CacheKeys :
            /\ \A k \in lost : c \in due[k]
            /\ due' = [k \in CacheKeys |-> IF k \in lost THEN due[k] \ {c} ELSE due[k]]
            /\ escaped' = [k \in CacheKeys |->
                   IF k \in lost THEN escaped[k] \cup {c} ELSE escaped[k]]
    BY <1>6 DEF DropsFail
  <2>2. UNCHANGED <<rating, page>>
    BY <1>6 DEF DropsFail
  <2>3. ASSUME NEW k \in CacheKeys
        PROVE  /\ due[k] \in SUBSET Nat /\ due[k] \subseteq 1..source
               /\ escaped[k] \in SUBSET Nat /\ escaped[k] \subseteq 1..source
    BY <1>2, <2>3 DEF EntriesRight
  <2>4. /\ due' \in [CacheKeys -> SUBSET Nat] /\ escaped' \in [CacheKeys -> SUBSET Nat]
        /\ \A k \in CacheKeys : /\ due'[k] \subseteq 1..source /\ escaped'[k] \subseteq 1..source
                                /\ due[k] \cup escaped[k] \subseteq due'[k] \cup escaped'[k]
    BY <2>1, <2>3
  <2>5. EntriesRight'
    BY <1>1, <1>2, <2>2, <2>4 DEF EntriesRight, CacheKeys
  <2>6. StaleIsExplained'
    BY <1>1, <1>2, <2>2, <2>4 DEF StaleIsExplained, CacheKeys
  <2> QED
    BY <1>1, <2>5, <2>6, EntriesMove DEF ShownRight
<1> QED
  BY <1>4, <1>5, <1>6

\* A step of the cache leaves the review alone.
LEMMA CacheStepRight ==
    ASSUME PageInv, CacheStep, UNCHANGED reviewVars
    PROVE  PageInv'
<1>1. CASE AgeRating \/ AgePage
  BY <1>1, AgesRight
<1>2. CASE LapseLock
  BY <1>2, LapseRight
<1>3. ASSUME NEW r \in Readers, GetPage(r) \/ GetRating(r) \/ ReadGoesOn(r) \/ ReadFails(r)
      PROVE  PageInv'
  BY <1>3, GetRight, ClaimRight, ReadsRight, KeepRight, StoreRight, ReleaseRight, ReadFailsRight
     DEF ReadGoesOn
<1>4. ASSUME NEW c \in due["page"], DropRating(c) \/ DropPage(c) \/ DropsFail(c) PROVE PageInv'
  BY <1>4, DropsRight
<1> QED
  BY <1>1, <1>2, <1>3, <1>4 DEF CacheStep

-----------------------------------------------------------------------------
(* Those who write the review.                                             *)

\* Whoever read before a commit has missed it.
LEMMA MissedByReaders ==
    ASSUME ReadersRight, source \in Nat, NEW c, c = source + 1, source' = c,
           reader' = [r \in Readers |->
               IF reader[r].task \in Filling THEN [reader[r] EXCEPT !.missed = @ \cup {c}]
               ELSE reader[r]]
    PROVE  ReadersRight' /\ Refreshing' = Refreshing
<1>1. ASSUME NEW r \in Readers
      PROVE  \E new \in Lookup : /\ reader'[r] = new /\ new.refresh = reader[r].refresh
                                 /\ LookupRight(new)'
  <2>1. PICK old : old = reader[r]
    OBVIOUS
  <2>2. old \in Lookup /\ LookupRight(old)
    BY <2>1 DEF ReadersRight
  <2>3. /\ old.own <= source' /\ old.rating <= source'
        /\ old.missed \subseteq 1..source' /\ c \in 1..source'
        /\ \A b \in 1..source' : b = c \/ b \in 1..source
    BY <2>2 DEF LookupRight, Lookup
  <2>4. CASE old.task \in Filling
    <3>1. PICK missed : missed = old.missed \cup {c}
      OBVIOUS
    <3>2. PICK new : new = [old EXCEPT !.missed = missed]
      OBVIOUS
    <3>3. missed \in SUBSET Nat
      BY <2>2, <3>1 DEF Lookup
    <3>4. /\ new \in Lookup /\ new.missed = missed /\ new.task = old.task /\ new.wants = old.wants
          /\ new.refresh = old.refresh /\ new.own = old.own /\ new.rating = old.rating
      BY <2>2, <3>2, <3>3 DEF Lookup
    <3>5. new.task \notin {"idle", "release", "claim", "read"}
      BY <2>4, <3>4 DEF Filling
    <3>6. missed \subseteq 1..source'
      BY <2>3, <3>1
    <3>7. LookupRight(new)'
      BY <2>2, <2>3, <3>1, <3>4, <3>5, <3>6 DEF LookupRight
    <3>8. reader'[r] = new
      BY <2>1, <2>4, <3>1, <3>2
    <3> QED
      BY <2>1, <3>4, <3>7, <3>8
  <2>5. CASE old.task \notin Filling
    <3>1. reader'[r] = old
      BY <2>1, <2>5
    <3>2. LookupRight(old)'
      BY <2>2, <2>3, <2>5 DEF LookupRight, Filling
    <3> QED
      BY <2>1, <2>2, <3>1, <3>2
  <2> QED
    BY <2>4, <2>5
<1>2. reader' \in [Readers -> Lookup]
  BY <1>1
<1>3. \A r \in Readers : LookupRight(reader[r])'
  BY <1>1 DEF LookupRight
<1>4. Refreshing' = Refreshing
  BY <1>1 DEF Refreshing
<1> QED
  BY <1>2, <1>3, <1>4 DEF ReadersRight, Lookup

\* A write is followed by its drops, or was a moderator's.
LEMMA CommitsRight ==
    ASSUME PageInv, NEW w \in Writers, NEW id, id = review \/ id = source + 1 \/ id = NoReview,
           Commits(w, id)
    PROVE  PageInv'
<1>1. PICK c : c = source + 1
  OBVIOUS
<1>2. PICK task : task = writer[w].task
  OBVIOUS
<1>3. /\ source < MaxWrites /\ source' = c /\ review' = id
      /\ reader' = [r \in Readers |->
             IF reader[r].task \in Filling THEN [reader[r] EXCEPT !.missed = @ \cup {c}]
             ELSE reader[r]]
      /\ due' = [k \in CacheKeys |-> IF k \in Drops(task) THEN due[k] \cup {c} ELSE due[k]]
      /\ escaped' = [k \in CacheKeys |-> IF task = "remove" THEN escaped[k] \cup {c} ELSE escaped[k]]
      /\ UNCHANGED <<rating, page, lock, lapsed>>
  BY <1>1, <1>2 DEF Commits, Writing
<1>4. source \in Nat /\ source \in 0..MaxWrites /\ review \in 0..source
  BY ReviewsAssumption DEF PageInv, CommitsCounted
<1>5. CommitsCounted'
  BY <1>1, <1>3, <1>4, ReviewsAssumption DEF CommitsCounted, NoReview
<1>6. ReadersRight' /\ Refreshing' = Refreshing
  BY <1>1, <1>3, <1>4, MissedByReaders DEF PageInv
<1>7. LocksRight'
  BY <1>3, <1>6 DEF PageInv, LocksRight
<1>8. EntriesRight /\ StaleIsExplained
  BY DEF PageInv, ShownRight
<1>9. c \in 1..source' /\ c \in Nat /\ 1..source \subseteq 1..source'
      /\ \A b \in 1..source' : b = c \/ b \in 1..source
  BY <1>1, <1>3, <1>4
<1>10. ASSUME NEW k \in CacheKeys
       PROVE  /\ due[k] \in SUBSET Nat /\ due[k] \subseteq 1..source
              /\ escaped[k] \in SUBSET Nat /\ escaped[k] \subseteq 1..source
              /\ task = "remove" \/ k \in Drops(task)
  BY <1>8, <1>10 DEF EntriesRight, Drops
<1>11. /\ due' \in [CacheKeys -> SUBSET Nat] /\ escaped' \in [CacheKeys -> SUBSET Nat]
       /\ \A k \in CacheKeys :
            /\ due'[k] \subseteq 1..source' /\ escaped'[k] \subseteq 1..source'
            /\ due[k] \cup escaped[k] \cup {c} \subseteq due'[k] \cup escaped'[k]
  BY <1>3, <1>9, <1>10
<1>12. EntriesRight'
  BY <1>1, <1>3, <1>4, <1>8, <1>11 DEF EntriesRight, CacheKeys
<1>13. StaleIsExplained'
  BY <1>3, <1>8, <1>9, <1>11 DEF StaleIsExplained, CacheKeys
<1> QED
  BY <1>5, <1>6, <1>7, <1>12, <1>13 DEF PageInv, ShownRight

\* Nothing but requests of writers moves.
LEMMA PageFrame ==
    ASSUME PageInv, UNCHANGED <<source, rating, page, lock, reader, due, lapsed, escaped, review>>
    PROVE  PageInv'
<1>1. ShownRight'
  BY ShownFrame DEF PageInv
<1> QED
  BY <1>1, EntriesMove

\* Who writes commits, or goes.
LEMMA WriteRight ==
    ASSUME PageInv, NEW w \in Writers,
           (\E task \in WriterTasks : ReadReview(w, task)) \/ Post(w) \/ Change(w) \/ WriterDies(w)
    PROVE  PageInv'
<1>1. CASE \E task \in WriterTasks : ReadReview(w, task)
  BY <1>1, PageFrame DEF ReadReview, cacheVars
<1>2. CASE Post(w)
  <2>1. PICK id : id = IF review = NoReview THEN source' ELSE review
    OBVIOUS
  <2>2. Commits(w, id)
    BY <1>2, <2>1 DEF Post
  <2>3. id = review \/ id = source + 1
    BY <2>1, <2>2 DEF Commits
  <2> QED
    BY <2>2, <2>3, CommitsRight
<1>3. CASE Change(w) /\ review = writer[w].id
  <2>1. PICK id : id = IF Writing(w, "edit") THEN review ELSE NoReview
    OBVIOUS
  <2>2. Commits(w, id)
    BY <1>3, <2>1 DEF Change
  <2>3. id = review \/ id = NoReview
    BY <2>1
  <2> QED
    BY <2>2, <2>3, CommitsRight
<1>4. CASE Change(w) /\ review # writer[w].id
  BY <1>4, PageFrame DEF Change, cacheVars
<1>5. CASE WriterDies(w)
  BY <1>5, PageFrame DEF WriterDies
<1> QED
  BY <1>1, <1>2, <1>3, <1>4, <1>5

\* Every step keeps the invariant.
LEMMA PageKept == PageInv /\ [ReviewsNext]_reviewsVars => PageInv'
<1> SUFFICES ASSUME PageInv, [ReviewsNext]_reviewsVars PROVE PageInv'
  OBVIOUS
<1>1. CASE CacheStep /\ UNCHANGED reviewVars
  BY <1>1, CacheStepRight
<1>2. ASSUME NEW w \in Writers,
             (\E task \in WriterTasks : ReadReview(w, task)) \/ Post(w) \/ Change(w) \/ WriterDies(w)
      PROVE  PageInv'
  BY <1>2, WriteRight
<1>3. CASE UNCHANGED reviewsVars
  BY <1>3, PageFrame DEF reviewsVars, cacheVars, reviewVars
<1> QED
  BY <1>1, <1>2, <1>3 DEF ReviewsNext

\* What the run checks is part of the invariant.
LEMMA PageImplies == PageInv => ReviewsInv
<1> SUFFICES ASSUME PageInv PROVE ReviewsTypeOK /\ OneRefresher /\ StaleIsExplained
  BY DEF ReviewsInv
<1>1. ReviewsTypeOK
  <2>1. /\ source \in 0..MaxWrites /\ source \in Nat /\ review \in 0..source
        /\ EntriesRight /\ ReadersRight
    BY ReviewsAssumption DEF PageInv, CommitsCounted, ShownRight
  <2>2. /\ rating.age \in {"fresh", "gone"} /\ rating.rating \in 0..source
        /\ page.age \in {"fresh", "stale", "gone"}
        /\ page.own \in 0..source /\ page.rating \in 0..source
    BY <2>1 DEF EntriesRight
  <2>3. \A r \in Readers : reader[r] = Resting \/ reader[r].task \in CacheTasks
    BY <2>1 DEF ReadersRight, LookupRight, Lookup
  <2>4. \A k \in CacheKeys : due[k] \cup escaped[k] \subseteq 1..source
    BY <2>1 DEF EntriesRight
  <2> QED
    BY <2>1, <2>2, <2>3, <2>4 DEF ReviewsTypeOK
<1>2. OneRefresher
  <2> SUFFICES ASSUME ~lapsed PROVE Cardinality(Refreshing) <= 1
    BY DEF OneRefresher
  <2>1. \A q, r \in Refreshing : q = r
    BY DEF PageInv, LocksRight
  <2>2. CASE Refreshing = {}
    BY <2>2, FS_EmptySet
  <2>3. CASE Refreshing # {}
    <3>1. PICK r : Refreshing = {r}
      BY <2>1, <2>3
    <3>2. Cardinality({r}) = 1
      BY FS_Singleton
    <3>3. Cardinality(Refreshing) = 1
      BY ONLY <3>1, <3>2
    <3> QED
      BY ONLY <3>3
  <2> QED
    BY <2>2, <2>3
<1> QED
  BY <1>1, <1>2 DEF PageInv, ShownRight

\* For any readers and writers and any number of commits: a commit that the
\* rating or the page does not show has its drop under way, or the entry
\* escaped it in one of the ways the code leaves open, the rating a page took
\* from the cache among them; and one request refreshes at most (cache.ts:174,
\* reviews.ts:145, catalog.ts:379).
THEOREM ReviewsAreRight == ReviewsSpec => []ReviewsInv
<1>1. ReviewsSpec => []PageInv
  BY ReviewsStart, PageKept, PTL DEF ReviewsSpec
<1> QED
  BY <1>1, PageImplies, PTL

-----------------------------------------------------------------------------
(***************************************************************************)
(* Pictures                                                                *)
(***************************************************************************)

Bringing == {"putPhoto", "add", "putAvatar", "set"}
Adding == {"putPhoto", "add"}
Errands == [task : Bringing \cup {"drop", "remove", "publish", "unpublish"},
             key : 0..MaxUploads, old : 0..MaxUploads, onSale : BOOLEAN, position : Nat]

PicturesShape ==
    /\ stored \subseteq 1..minted /\ minted \in 0..MaxUploads /\ orphaned \subseteq Keys
    /\ photo \subseteq [key : Keys, position : Nat] /\ IsFiniteSet(photo)
    /\ avatar \in 0..minted
    /\ uploader \in [Uploaders -> {Waiting} \cup Errands]

\* Keys are not handed on.  The key that a request brings is nobody else's, one
\* that it drops or removes is no avatar's, and what it read of the avatar is no
\* photo's.
BringsOwn(u) ==
    LET k == uploader[u].key
    IN  /\ k \notin Put /\ k # avatar
        /\ \A v \in Uploaders : Engaged(v) =>
               uploader[v].old # k /\ (v # u => uploader[v].key # k)
DropsPhoto(u) ==
    LET k == uploader[u].key
    IN  k # NoKey /\ k # avatar /\ \A v \in Uploaders : Engaged(v) => uploader[v].old # k
RequestRight(u) ==
    LET x == uploader[u]
    IN  /\ x.key <= minted /\ x.old <= minted /\ x.old \notin Put
        /\ x.task \in Bringing /\ x.key # NoKey => BringsOwn(u)
        /\ x.task = "drop" => DropsPhoto(u)
        /\ x.task = "remove" => x.key # NoKey /\ x.key \notin Put /\ x.key # avatar
        /\ x.task = "add" => x.key # NoKey /\ x.key \in stored
        /\ x.task \in {"putPhoto", "putAvatar"} => x.key # NoKey /\ x.key \notin stored
        /\ x.task = "set" => x.key = NoKey \/ x.key \in stored
        /\ x.task \in {"publish", "unpublish"} => x.key = NoKey
        /\ x.task \in Adding => x.position < minted

\* Rows name what is stored, under keys of their own; what is stored has a row,
\* or a request that will see to it, or is counted as nobody's.
KeptFor(k) == \E u \in Uploaders :
    Engaged(u) /\ uploader[u].key = k /\ uploader[u].task # "drop"
KeysRight ==
    /\ \A p \in photo : p.key <= minted /\ p.position < minted
    /\ \A p, q \in photo : p.key = q.key => p = q
    /\ avatar \notin Put /\ Put \subseteq stored /\ (avatar # NoKey => avatar \in stored)
    /\ \A u \in Uploaders : Engaged(u) => RequestRight(u)
    /\ \A k \in stored \ (Put \cup {avatar} \cup orphaned) : KeptFor(k)

\* Each request that adds found room.
Adders == {u \in Uploaders : uploader[u].task \in Adding}
RoomRight == Cardinality(photo) + Cardinality(Adders)
                 <= MAX_IMAGES_PER_LISTING - 1 + Cardinality(Uploaders)

\* While requests about photos did not overlap, what one read still stands.
OnPhotos(u) == uploader[u].task \in PhotoTasks
StillStands(u) ==
    LET x == uploader[u]
    IN  /\ x.task \in Adding => /\ Cardinality(photo) < MAX_IMAGES_PER_LISTING
                                /\ \A p \in photo : p.position < x.position
        /\ x.task = "publish" => photo # {}
        /\ x.task = "drop" /\ x.onSale => \E p \in photo : p.key # x.key
OrderRight ==
    /\ PhotosInOrder
    /\ ~raced => /\ \A u, v \in Uploaders : OnPhotos(u) /\ OnPhotos(v) => u = v
                 /\ \A u \in Uploaders : OnPhotos(u) => StillStands(u)

ListingStates == {"DRAFT", "ACTIVE", "RESERVED", "SOLD", "REMOVED"}
Flags ==
    /\ status \in ListingStates /\ deleted \in BOOLEAN /\ claims \in 0..MaxClaims
    /\ raced \in BOOLEAN /\ bare \in BOOLEAN

PicturesInv == PicturesShape /\ Flags /\ KeysRight /\ RoomRight /\ OrderRight

-----------------------------------------------------------------------------
LEMMA AddersFinite ==
    /\ IsFiniteSet(Uploaders) /\ Cardinality(Uploaders) \in Nat
    /\ IsFiniteSet(Adders) /\ Cardinality(Adders) \in Nat
    /\ Cardinality(Adders) <= Cardinality(Uploaders)
<1>1. Adders \subseteq Uploaders
  BY DEF Adders
<1> QED BY <1>1, UploadsAssumption, FS_Subset, FS_CardinalityType

LEMMA PicturesFollow == PicturesInv => UploadsInv
<1> SUFFICES ASSUME PicturesInv PROVE UploadsInv
  OBVIOUS
<1>1. UploadsTypeOK
  <2>1. stored \subseteq Keys /\ avatar \in Keys \cup {NoKey}
    BY UploadsAssumption DEF PicturesInv, PicturesShape, Keys, NoKey
  <2> QED BY <2>1 DEF PicturesInv, PicturesShape, Flags, ListingStates, UploadsTypeOK
<1>2. EveryImageResolves
  BY DEF PicturesInv, KeysRight, EveryImageResolves
<1>3. NoOrphans
  BY DEF PicturesInv, KeysRight, NoOrphans, KeptFor
<1>4. PhotosBounded
  <2>1. Cardinality(photo) \in Nat
    BY FS_CardinalityType DEF PicturesInv, PicturesShape
  <2> QED BY <2>1, AddersFinite, UploadsAssumption DEF PicturesInv, RoomRight, PhotosBounded
<1> QED BY <1>1, <1>2, <1>3, <1>4 DEF PicturesInv, OrderRight, UploadsInv

LEMMA PicturesStart == UploadsInit => PicturesInv
<1> SUFFICES ASSUME UploadsInit PROVE PicturesInv
  OBVIOUS
<1>1. photo = {} /\ stored = {} /\ minted = 0 /\ orphaned = {} /\ avatar = 0 /\ status = "DRAFT"
      /\ deleted = FALSE /\ raced = FALSE /\ claims = 0 /\ bare = FALSE
      /\ uploader = [u \in Uploaders |-> Waiting]
  BY DEF UploadsInit, NoKey
<1>2. IsFiniteSet(photo) /\ Cardinality(photo) = 0
  BY <1>1, FS_EmptySet
<1>3. PicturesShape
  <2>1. uploader \in [Uploaders -> {Waiting} \cup Errands]
    BY <1>1
  <2>2. minted \in 0..MaxUploads /\ avatar \in 0..minted
    BY <1>1, UploadsAssumption
  <2>3. stored \subseteq 1..minted /\ orphaned \subseteq Keys
        /\ photo \subseteq [key : Keys, position : Nat]
    BY <1>1
  <2> QED BY <1>1, <1>2, <2>1, <2>2, <2>3 DEF PicturesShape
<1>4. \A u \in Uploaders : ~Engaged(u) /\ ~OnPhotos(u)
  BY <1>1 DEF Engaged, OnPhotos, Waiting, PhotoTasks
<1>5. KeysRight
  BY <1>1, <1>4 DEF KeysRight, Put, NoKey
<1>6. RoomRight
  BY <1>2, AddersFinite, UploadsAssumption DEF RoomRight
<1>7. OrderRight
  BY <1>1, <1>2, <1>4, UploadsAssumption DEF OrderRight, PhotosInOrder
<1>8. Flags
  <2>1. status \in ListingStates /\ claims \in 0..MaxClaims
    BY <1>1, UploadsAssumption DEF ListingStates
  <2>2. deleted \in BOOLEAN /\ raced \in BOOLEAN /\ bare \in BOOLEAN
    BY <1>1
  <2> QED BY <2>1, <2>2 DEF Flags
<1> QED BY <1>3, <1>5, <1>6, <1>7, <1>8 DEF PicturesInv

\* What a request that begins has read.
AsRead(task, key, n) ==
    [task |-> task, key |-> key, old |-> avatar, onSale |-> status = "ACTIVE", position |-> n]

\* The place after the last one: photos lie below minted, so that there is one.
LEMMA ReadsIs ==
    ASSUME PicturesShape, KeysRight, NEW u \in Uploaders, NEW task, NEW key, ReadsFirst(u, task, key)
    PROVE  \E n \in Nat :
               /\ uploader[u] = Waiting
               /\ uploader' = [uploader EXCEPT ![u] = AsRead(task, key, n)]
               /\ n <= minted /\ \A p \in photo : p.position < n
<1> DEFINE last == CHOOSE n \in {p.position : p \in photo} : \A p \in photo : p.position <= n
           n == IF photo = {} THEN 0 ELSE 1 + last
<1>1. minted \in Nat /\ \A p \in photo : p.position \in Nat /\ p.position < minted
  BY UploadsAssumption DEF PicturesShape, KeysRight
<1>2. ASSUME photo # {}
      PROVE  last \in {p.position : p \in photo} /\ \A p \in photo : p.position <= last
  <2> DEFINE R == OpToRel(<, Nat)
             Above == {m \in Nat : \A p \in photo : p.position <= m}
  <2>1. minted \in Above
    BY <1>1
  <2>2. \E m \in Above : \A k \in Above : ~(<<k, m>> \in R)
    <3>1. Above \subseteq Nat /\ Above # {}
      BY <2>1
    <3> HIDE DEF Above
    <3> QED BY <3>1, NatLessThanWellFounded, WFMin
  <2>3. \A x, y \in Nat : x < y => <<x, y>> \in R
    BY DEF OpToRel
  <2> HIDE DEF R
  <2>4. PICK m \in Above : \A k \in Above : ~(<<k, m>> \in R)
    BY <2>2
  <2>5. \E p \in photo : p.position = m
    <3> SUFFICES ASSUME \A p \in photo : p.position # m PROVE FALSE
      OBVIOUS
    <3>1. \A p \in photo : p.position < m
      BY <1>1, <2>4
    <3>2. m - 1 \in Nat
      BY <1>1, <1>2, <2>4, <3>1
    <3>3. m - 1 \in Above
      BY <1>1, <2>4, <3>1, <3>2
    <3>4. <<m - 1, m>> \in R
      BY <2>3, <2>4, <3>2
    <3> QED BY <2>4, <3>3, <3>4
  <2>6. m \in {p.position : p \in photo} /\ \A p \in photo : p.position <= m
    BY <2>4, <2>5
  <2> HIDE DEF Above
  <2> QED BY <2>6
<1>3. n \in Nat /\ n <= minted /\ \A p \in photo : p.position < n
  BY <1>1, <1>2
<1>4. /\ uploader[u] = Waiting
      /\ uploader' = [uploader EXCEPT ![u] = AsRead(task, key, n)]
  BY DEF ReadsFirst, AsRead
<1> HIDE DEF n
<1> QED BY <1>3, <1>4

\* A request begins: it brings a new key, or holds a photo's, or none.
LEMMA RequestBegins ==
    ASSUME PicturesShape, KeysRight, NEW u \in Uploaders, NEW task, NEW key, ReadsFirst(u, task, key),
           task \in {"putPhoto", "putAvatar", "drop", "set", "publish", "unpublish"},
           task \in {"putPhoto", "putAvatar"} =>
               minted < MaxUploads /\ key = minted + 1 /\ minted' = minted + 1,
           task \notin {"putPhoto", "putAvatar"} => minted' = minted,
           task = "drop" => key \in Put,
           task \in {"set", "publish", "unpublish"} => key = NoKey,
           UNCHANGED <<stored, photo, avatar, orphaned>>
    PROVE  PicturesShape' /\ KeysRight'
<1>1. PICK n \in Nat :
          /\ uploader[u] = Waiting
          /\ uploader' = [uploader EXCEPT ![u] = AsRead(task, key, n)]
          /\ n <= minted /\ \A p \in photo : p.position < n
  BY ReadsIs
<1>2. PICK x : x = AsRead(task, key, n)
  OBVIOUS
<1>3. /\ x.task = task /\ x.key = key /\ x.old = avatar /\ x.position = n
      /\ uploader' = [uploader EXCEPT ![u] = x]
  BY <1>1, <1>2 DEF AsRead
<1>4. minted \in 0..MaxUploads /\ minted' \in 0..MaxUploads /\ minted <= minted'
      /\ Put \subseteq 1..minted /\ avatar \in 0..minted /\ stored \subseteq 1..minted
  <2>1. minted \in 0..MaxUploads /\ minted' \in 0..MaxUploads /\ minted <= minted'
    BY UploadsAssumption DEF PicturesShape
  <2>2. \A p \in photo : p.key \in 1..minted
    BY UploadsAssumption DEF PicturesShape, KeysRight, Keys
  <2> QED BY <2>1, <2>2 DEF PicturesShape, Put
<1>5. key \in 0..minted' /\ x \in Errands /\ x # Waiting
  <2>1. key \in 0..minted'
    <3>1. CASE task \in {"putPhoto", "putAvatar"}
      BY <1>4, <3>1
    <3>2. CASE task = "drop"
      <4>1. key \in 1..minted /\ minted' = minted
        BY <1>4, <3>2
      <4> QED BY <1>4, <4>1
    <3>3. CASE task \in {"set", "publish", "unpublish"}
      BY <1>4, <3>3 DEF NoKey
    <3> QED BY <3>1, <3>2, <3>3
  <2>2. task \in Bringing \cup {"drop", "remove", "publish", "unpublish"}
    BY DEF Bringing
  <2>3. x \in Errands
    <3>1. PICK sale \in BOOLEAN : sale = (status = "ACTIVE")
      OBVIOUS
    <3>2. x = [task |-> task, key |-> key, old |-> avatar, onSale |-> sale, position |-> n]
      BY <1>2, <3>1 DEF AsRead
    <3>3. key \in 0..MaxUploads /\ avatar \in 0..MaxUploads
      BY <1>4, <2>1, UploadsAssumption
    <3> QED BY <2>2, <3>1, <3>2, <3>3 DEF Errands
  <2> QED BY <1>3, <2>1, <2>2, <2>3 DEF Waiting, Bringing
<1>6. PicturesShape'
  <2>1. uploader' \in [Uploaders -> {Waiting} \cup Errands]
    BY <1>3, <1>5 DEF PicturesShape
  <2>2. stored' \subseteq 1..minted' /\ avatar' \in 0..minted'
    BY <1>4
  <2> QED BY <1>4, <2>1, <2>2 DEF PicturesShape, Keys, Errands, Bringing
<1>7. uploader'[u] = x /\ (\A v \in Uploaders : v # u => uploader'[v] = uploader[v])
      /\ Put' = Put /\ ~Engaged(u)
  BY <1>1, <1>3 DEF PicturesShape, Put, Engaged
<1>8. ASSUME NEW v \in Uploaders, v # u, Engaged(v)
      PROVE  RequestRight(v)'
  <2>1. RequestRight(v) /\ uploader'[v] = uploader[v] /\ uploader[v] \in Errands
    BY <1>7, <1>8 DEF KeysRight, PicturesShape, Engaged
  <2>2. ASSUME uploader[v].task \in Bringing, uploader[v].key # NoKey PROVE BringsOwn(v)'
    <3>1. BringsOwn(v)
      BY <2>1, <2>2 DEF RequestRight
    <3>2. uploader[v].key # key
      <4>1. uploader[v].key \in 0..minted
        BY <1>4, <2>1 DEF RequestRight, Errands
      <4> QED BY <1>4, <2>2, <3>1, <4>1 DEF BringsOwn, NoKey
    <3> QED BY <1>3, <1>7, <2>1, <3>1, <3>2 DEF BringsOwn, Engaged
  <2>3. ASSUME uploader[v].task = "drop" PROVE DropsPhoto(v)'
    <3>1. DropsPhoto(v)
      BY <2>1, <2>3 DEF RequestRight
    <3> QED BY <1>3, <1>7, <2>1, <3>1 DEF DropsPhoto, Engaged
  <2>4. uploader[v].key <= minted' /\ uploader[v].old <= minted'
        /\ (uploader[v].task \in Adding => uploader[v].position < minted')
    BY <1>4, <2>1 DEF RequestRight, Errands
  <2>5. /\ uploader[v].old \notin Put
        /\ uploader[v].task = "remove" =>
               uploader[v].key # NoKey /\ uploader[v].key \notin Put /\ uploader[v].key # avatar
        /\ uploader[v].task = "add" => uploader[v].key # NoKey /\ uploader[v].key \in stored
        /\ uploader[v].task \in {"putPhoto", "putAvatar"} =>
               uploader[v].key # NoKey /\ uploader[v].key \notin stored
        /\ uploader[v].task = "set" => uploader[v].key = NoKey \/ uploader[v].key \in stored
        /\ uploader[v].task \in {"publish", "unpublish"} => uploader[v].key = NoKey
    BY <2>1 DEF RequestRight
  <2> QED BY <1>7, <2>1, <2>2, <2>3, <2>4, <2>5 DEF RequestRight
<1>9. RequestRight(u)'
  <2>1. \A v \in Uploaders : Engaged(v)' => uploader'[v].old \in 0..minted
    <3> SUFFICES ASSUME NEW v \in Uploaders, Engaged(v)' PROVE uploader'[v].old \in 0..minted
      OBVIOUS
    <3>1. CASE v = u
      BY <1>3, <1>4, <1>7, <3>1
    <3>2. CASE v # u
      <4>1. Engaged(v) /\ uploader'[v] = uploader[v]
        BY <1>7, <3>2 DEF Engaged
      <4>2. RequestRight(v) /\ uploader[v] \in Errands
        BY <4>1 DEF KeysRight, PicturesShape, Engaged
      <4> QED BY <1>4, <4>1, <4>2 DEF RequestRight, Errands
    <3> QED BY <3>1, <3>2
  <2>2. \A v \in Uploaders : v # u /\ Engaged(v)' => uploader'[v].key \in 0..minted
    <3> SUFFICES ASSUME NEW v \in Uploaders, v # u, Engaged(v)' PROVE uploader'[v].key \in 0..minted
      OBVIOUS
    <3>1. Engaged(v) /\ uploader'[v] = uploader[v]
      BY <1>7 DEF Engaged
    <3>2. RequestRight(v) /\ uploader[v] \in Errands
      BY <3>1 DEF KeysRight, PicturesShape, Engaged
    <3> QED BY <1>4, <3>1, <3>2 DEF RequestRight, Errands
  <2>3. CASE task \in {"putPhoto", "putAvatar"}
    <3>1. key = minted + 1 /\ minted' = minted + 1
      BY <2>3
    <3>2. key \notin Put /\ key # avatar /\ key \notin stored /\ key # NoKey
      BY <1>4, <3>1 DEF NoKey
    <3>3. BringsOwn(u)'
      BY <1>3, <1>4, <1>7, <2>1, <2>2, <3>1, <3>2 DEF BringsOwn
    <3>4. avatar \notin Put /\ n < minted' /\ avatar <= minted' /\ key <= minted'
      BY <1>1, <1>4, <3>1 DEF KeysRight
    <3> QED BY <1>3, <1>7, <2>3, <3>2, <3>3, <3>4 DEF RequestRight, Bringing, Adding
  <2>4. CASE task = "drop"
    <3>1. key \in Put /\ key \in 1..minted /\ key # avatar /\ avatar \notin Put
      BY <1>4, <2>4 DEF KeysRight
    <3>2. \A v \in Uploaders : Engaged(v)' => uploader'[v].old # key
      BY <1>3, <1>7, <3>1 DEF Engaged, KeysRight, RequestRight
    <3>3. DropsPhoto(u)'
      BY <1>3, <1>4, <1>7, <3>1, <3>2 DEF DropsPhoto, NoKey
    <3>4. avatar <= minted' /\ key <= minted'
      BY <1>4, <3>1
    <3> QED BY <1>3, <1>7, <2>4, <3>1, <3>3, <3>4 DEF RequestRight, Bringing, Adding
  <2>5. CASE task \in {"set", "publish", "unpublish"}
    <3>1. key = NoKey /\ avatar \notin Put /\ avatar <= minted' /\ key <= minted'
      BY <1>4, <2>5 DEF KeysRight, NoKey
    <3> QED BY <1>3, <1>7, <2>5, <3>1 DEF RequestRight, Bringing, Adding
  <2> QED BY <2>3, <2>4, <2>5
<1>10. \A k : KeptFor(k) => KeptFor(k)'
  BY <1>7 DEF KeptFor, Engaged
<1>11. \A p \in photo : p.key <= minted' /\ p.position < minted'
  BY <1>4 DEF KeysRight, PicturesShape, Keys
<1>12. \A v \in Uploaders : Engaged(v)' => RequestRight(v)'
  BY <1>7, <1>8, <1>9 DEF Engaged
<1> QED BY <1>6, <1>7, <1>10, <1>11, <1>12 DEF KeysRight

\* What u does with the key it brings, or removes, is nothing to the others.
LEMMA OthersStayRight ==
    ASSUME PicturesShape, KeysRight, NEW u \in Uploaders, Engaged(u), NEW x,
           x = Waiting \/ (x.old = uploader[u].old /\ x.key \in {uploader[u].key, uploader[u].old}),
           uploader' = [uploader EXCEPT ![u] = x], minted' = minted,
           \A k \in Put' : k \in Put \/ (/\ k = uploader[u].key /\ k # NoKey
                                         /\ uploader[u].task \in Bringing),
           avatar' = avatar \/ (avatar' = uploader[u].key /\ uploader[u].task \in Bringing),
           \A k \in stored' : k \in stored \/ (/\ k = uploader[u].key /\ k # NoKey
                                               /\ uploader[u].task \in Bringing),
           \A k \in stored : k \in stored' \/ (k = uploader[u].key /\ uploader[u].task = "remove"),
           NEW v \in Uploaders, v # u, Engaged(v)'
    PROVE  RequestRight(v)' /\ uploader'[v] = uploader[v] /\ Engaged(v)
<1>1. /\ uploader'[v] = uploader[v] /\ Engaged(v) /\ uploader'[u] = x
      /\ \A w \in Uploaders : w # u => uploader'[w] = uploader[w]
  BY DEF PicturesShape, Engaged
<1>2. RequestRight(v) /\ RequestRight(u) /\ uploader[v] \in Errands /\ uploader[u] \in Errands
  BY <1>1 DEF KeysRight, PicturesShape, Engaged
<1>3. ASSUME uploader[v].task \in Bringing, uploader[v].key # NoKey
      PROVE  BringsOwn(v)' /\ uploader[u].key # uploader[v].key
  <2>1. BringsOwn(v)
    BY <1>2, <1>3 DEF RequestRight
  <2>2. uploader[u].key # uploader[v].key /\ uploader[u].old # uploader[v].key
    BY <2>1 DEF BringsOwn
  <2>3. uploader[v].key \notin Put' /\ uploader[v].key # avatar'
    BY <2>1, <2>2 DEF BringsOwn
  <2>4. \A w \in Uploaders : Engaged(w)' =>
            uploader'[w].old # uploader[v].key /\ (w # v => uploader'[w].key # uploader[v].key)
    <3> SUFFICES ASSUME NEW w \in Uploaders, Engaged(w)'
                 PROVE  uploader'[w].old # uploader[v].key
                        /\ (w # v => uploader'[w].key # uploader[v].key)
      OBVIOUS
    <3>1. CASE w = u
      BY <1>1, <2>2, <3>1 DEF Engaged
    <3>2. CASE w # u
      <4>1. uploader'[w] = uploader[w] /\ Engaged(w)
        BY <1>1, <3>2 DEF Engaged
      <4> QED BY <2>1, <4>1 DEF BringsOwn
    <3> QED BY <3>1, <3>2
  <2> QED BY <1>1, <2>2, <2>3, <2>4 DEF BringsOwn
<1>4. ASSUME uploader[u].task \in Bringing, uploader[u].key # NoKey
      PROVE  uploader[v].key # uploader[u].key /\ uploader[v].old # uploader[u].key
  <2>1. BringsOwn(u)
    BY <1>2, <1>4 DEF RequestRight
  <2> QED BY <1>1, <2>1 DEF BringsOwn
<1>5. ASSUME uploader[v].task = "drop" PROVE DropsPhoto(v)'
  <2>1. DropsPhoto(v)
    BY <1>2, <1>5 DEF RequestRight
  <2>2. uploader[v].key # NoKey /\ uploader[v].key # avatar'
    BY <1>4, <2>1 DEF DropsPhoto
  <2>3. \A w \in Uploaders : Engaged(w)' => uploader'[w].old # uploader[v].key
    <3> SUFFICES ASSUME NEW w \in Uploaders, Engaged(w)' PROVE uploader'[w].old # uploader[v].key
      OBVIOUS
    <3>1. CASE w = u
      BY <1>1, <2>1, <3>1 DEF Engaged, DropsPhoto
    <3>2. CASE w # u
      BY <1>1, <2>1, <3>2 DEF Engaged, DropsPhoto
    <3> QED BY <3>1, <3>2
  <2> QED BY <1>1, <2>2, <2>3 DEF DropsPhoto
<1>6. uploader[v].old \notin Put'
  BY <1>2, <1>4 DEF RequestRight
<1>7. uploader[v].task = "remove" =>
          uploader[v].key # NoKey /\ uploader[v].key \notin Put' /\ uploader[v].key # avatar'
  BY <1>2, <1>4 DEF RequestRight
<1>8. uploader[v].task = "add" => uploader[v].key # NoKey /\ uploader[v].key \in stored'
  BY <1>2, <1>3 DEF RequestRight, Bringing
<1>9. uploader[v].task \in {"putPhoto", "putAvatar"} =>
          uploader[v].key # NoKey /\ uploader[v].key \notin stored'
  BY <1>2, <1>3 DEF RequestRight, Bringing
<1>10. uploader[v].task = "set" => uploader[v].key = NoKey \/ uploader[v].key \in stored'
  BY <1>2, <1>3 DEF RequestRight, Bringing
<1>11. uploader[v].key <= minted' /\ uploader[v].old <= minted'
       /\ (uploader[v].task \in {"publish", "unpublish"} => uploader[v].key = NoKey)
       /\ (uploader[v].task \in Adding => uploader[v].position < minted')
  BY <1>2 DEF RequestRight
<1> QED BY <1>1, <1>3, <1>5, <1>6, <1>7, <1>8, <1>9, <1>10, <1>11 DEF RequestRight

\* A request is over, or dies.  It leaves nothing that nobody sees to: a key it
\* brought has no object, or the object is gone or counted.
LEMMA RequestRests ==
    ASSUME PicturesShape, KeysRight, NEW u \in Uploaders, Engaged(u),
           uploader' = [uploader EXCEPT ![u] = Waiting],
           UNCHANGED <<minted, photo, avatar>>,
           \/ stored' = stored
           \/ uploader[u].task = "remove" /\ stored' = stored \ {uploader[u].key},
           orphaned \subseteq orphaned', orphaned' \subseteq Keys,
           \/ uploader[u].task = "drop" \/ uploader[u].key = NoKey
           \/ uploader[u].key \notin stored' \/ uploader[u].key \in orphaned'
    PROVE  PicturesShape' /\ KeysRight'
<1>1. PicturesShape'
  BY DEF PicturesShape, Keys, Errands, Bringing
<1>2. uploader[u] \in Errands /\ RequestRight(u) /\ Put' = Put
      /\ uploader'[u] = Waiting /\ \A v \in Uploaders : v # u => uploader'[v] = uploader[v]
  BY DEF PicturesShape, KeysRight, Engaged, Put
<1>3. Put \subseteq stored' /\ (avatar # NoKey => avatar \in stored')
  BY <1>2 DEF KeysRight, RequestRight
<1>4. ASSUME NEW v \in Uploaders, Engaged(v)' PROVE RequestRight(v)'
  <2>1. v # u
    BY <1>2, <1>4 DEF Engaged
  <2>2. \A k \in stored' : k \in stored
    OBVIOUS
  <2>3. \A k \in stored : k \in stored' \/ (k = uploader[u].key /\ uploader[u].task = "remove")
    OBVIOUS
  <2> QED BY <1>2, <1>4, <2>1, <2>2, <2>3, OthersStayRight
<1>5. ASSUME NEW k \in stored' \ (Put \cup {avatar} \cup orphaned') PROVE KeptFor(k)'
  <2>1. KeptFor(k)
    BY DEF KeysRight
  <2>2. PICK v \in Uploaders : Engaged(v) /\ uploader[v].key = k /\ uploader[v].task # "drop"
    BY <2>1 DEF KeptFor
  <2>3. k # NoKey
    BY <1>1 DEF PicturesShape, NoKey
  <2>4. v # u
    BY <2>2, <2>3
  <2> QED BY <1>2, <2>2, <2>4 DEF KeptFor, Engaged
<1> QED BY <1>1, <1>2, <1>3, <1>4, <1>5 DEF KeysRight

\* The object is put, and the request goes on with its key.
LEMMA FileIsPut ==
    ASSUME PicturesShape, KeysRight, NEW u \in Uploaders,
           NEW task \in {"putPhoto", "putAvatar"}, NEW next \in {"add", "set"},
           task = "putPhoto" <=> next = "add", uploader[u].task = task,
           stored' = stored \cup {uploader[u].key}, Proceeds(u, next),
           UNCHANGED <<minted, photo, avatar, orphaned>>
    PROVE  PicturesShape' /\ KeysRight'
<1>1. Engaged(u)
  BY DEF Engaged, Waiting
<1>2. uploader[u] \in Errands /\ RequestRight(u) /\ Put' = Put
  BY <1>1 DEF PicturesShape, KeysRight, Engaged, Put
<1>3. PICK k : k = uploader[u].key
  OBVIOUS
<1>4. k # NoKey /\ BringsOwn(u) /\ k \in 1..minted
  <2>1. k # NoKey /\ k <= minted /\ k \in 0..MaxUploads
    BY <1>2, <1>3 DEF RequestRight, Errands
  <2>2. BringsOwn(u)
    BY <1>2, <1>3, <2>1 DEF RequestRight, Bringing
  <2> QED BY <2>1, <2>2, UploadsAssumption DEF NoKey, PicturesShape
<1>5. PICK x : x = [uploader[u] EXCEPT !.task = next]
  OBVIOUS
<1>6. x \in Errands /\ x.task = next /\ x.key = k /\ x.old = uploader[u].old
      /\ x.position = uploader[u].position /\ x # Waiting
  BY <1>2, <1>3, <1>5 DEF Errands, Bringing, Waiting
<1>7. uploader' = [uploader EXCEPT ![u] = x] /\ uploader'[u] = x
      /\ \A v \in Uploaders : v # u => uploader'[v] = uploader[v]
  BY <1>5 DEF Proceeds, PicturesShape
<1>8. PicturesShape'
  <2>1. uploader' \in [Uploaders -> {Waiting} \cup Errands]
    BY <1>6, <1>7 DEF PicturesShape
  <2>2. stored' \subseteq 1..minted'
    BY <1>3, <1>4 DEF PicturesShape
  <2> QED BY <2>1, <2>2 DEF PicturesShape, Keys, Errands, Bringing
<1>9. ASSUME NEW v \in Uploaders, Engaged(v)' PROVE RequestRight(v)'
  <2>1. CASE v = u
    <3>1. BringsOwn(u)'
      <4>1. \A w \in Uploaders : Engaged(w)' =>
                uploader'[w].old # k /\ (w # u => uploader'[w].key # k)
        BY <1>1, <1>3, <1>4, <1>6, <1>7 DEF BringsOwn, Engaged
      <4> QED BY <1>2, <1>3, <1>4, <1>6, <1>7, <4>1 DEF BringsOwn
    <3>2. x.key <= minted /\ x.old <= minted /\ x.old \notin Put
          /\ (x.task \in Adding => x.position < minted)
      BY <1>2, <1>3, <1>6 DEF RequestRight, Adding
    <3> QED BY <1>2, <1>3, <1>4, <1>6, <1>7, <2>1, <3>1, <3>2 DEF RequestRight, Bringing
  <2>2. CASE v # u
    <3>1. \A j \in stored' : j \in stored \/ (/\ j = uploader[u].key /\ j # NoKey
                                              /\ uploader[u].task \in Bringing)
      BY <1>3, <1>4 DEF Bringing
    <3> QED BY <1>1, <1>2, <1>3, <1>6, <1>7, <1>9, <2>2, <3>1, OthersStayRight
  <2> QED BY <2>1, <2>2
<1>10. ASSUME NEW j \in stored' \ (Put \cup {avatar} \cup orphaned) PROVE KeptFor(j)'
  <2>1. CASE j = k
    BY <1>6, <1>7, <2>1 DEF KeptFor, Engaged
  <2>2. CASE j # k
    <3>1. KeptFor(j)
      BY <1>3, <1>10, <2>2 DEF KeysRight
    <3>2. PICK v \in Uploaders : Engaged(v) /\ uploader[v].key = j /\ uploader[v].task # "drop"
      BY <3>1 DEF KeptFor
    <3>3. v # u
      BY <1>3, <2>2, <3>2
    <3> QED BY <1>7, <3>2, <3>3 DEF KeptFor, Engaged
  <2> QED BY <2>1, <2>2
<1> QED BY <1>2, <1>8, <1>9, <1>10 DEF KeysRight

LEMMA AddRowIs ==
    ASSUME PicturesShape, KeysRight, NEW u \in Uploaders, AddRow(u)
    PROVE  /\ PicturesShape' /\ KeysRight'
           /\ uploader[u].key \notin Put /\ Cardinality(photo') = Cardinality(photo) + 1
<1>1. Engaged(u) /\ uploader[u].task = "add"
  BY DEF AddRow, Engaged, Waiting
<1>2. uploader[u] \in Errands /\ RequestRight(u)
  BY <1>1 DEF PicturesShape, KeysRight, Engaged
<1>3. PICK k : k = uploader[u].key
  OBVIOUS
<1>4. PICK r : r = [key |-> k, position |-> uploader[u].position]
  OBVIOUS
<1>5. k # NoKey /\ BringsOwn(u) /\ k \in Keys /\ k \in stored /\ k <= minted
      /\ uploader[u].position \in Nat /\ uploader[u].position < minted
  <2>1. k # NoKey /\ k <= minted /\ k \in 0..MaxUploads /\ k \in stored
        /\ uploader[u].position \in Nat /\ uploader[u].position < minted
    BY <1>1, <1>2, <1>3 DEF RequestRight, Errands, Adding
  <2>2. BringsOwn(u)
    BY <1>1, <1>2, <1>3, <2>1 DEF RequestRight, Bringing
  <2> QED BY <2>1, <2>2, UploadsAssumption DEF NoKey, Keys
<1>6. photo' = photo \cup {r} /\ r.key = k /\ r.position = uploader[u].position
      /\ r \in [key : Keys, position : Nat]
      /\ UNCHANGED <<stored, minted, avatar, orphaned>>
      /\ uploader' = [uploader EXCEPT ![u] = Waiting]
  BY <1>3, <1>4, <1>5 DEF AddRow, AtRestNow
<1>7. Put' = Put \cup {k} /\ k \notin Put /\ r \notin photo
  BY <1>3, <1>5, <1>6 DEF Put, BringsOwn
<1>8. IsFiniteSet(photo') /\ Cardinality(photo') = Cardinality(photo) + 1
  <2>1. IsFiniteSet(photo)
    BY DEF PicturesShape
  <2> QED BY <1>6, <1>7, <2>1, FS_AddElement
<1>9. PicturesShape'
  BY <1>6, <1>8 DEF PicturesShape, Keys, Errands, Bringing
<1>10. \A v \in Uploaders : Engaged(v)' => RequestRight(v)'
  <2> SUFFICES ASSUME NEW v \in Uploaders, Engaged(v)' PROVE RequestRight(v)'
    OBVIOUS
  <2>1. v # u
    BY <1>6 DEF Engaged, PicturesShape
  <2>2. \A j \in Put' : j \in Put \/ (/\ j = uploader[u].key /\ j # NoKey
                                      /\ uploader[u].task \in Bringing)
    BY <1>1, <1>3, <1>5, <1>7 DEF Bringing
  <2> QED BY <1>1, <1>6, <2>1, <2>2, OthersStayRight
<1>11. \A j \in stored \ (Put' \cup {avatar} \cup orphaned) : KeptFor(j)'
  <2> SUFFICES ASSUME NEW j \in stored \ (Put' \cup {avatar} \cup orphaned) PROVE KeptFor(j)'
    OBVIOUS
  <2>1. KeptFor(j) /\ j # k
    BY <1>7 DEF KeysRight
  <2>2. PICK v \in Uploaders : Engaged(v) /\ uploader[v].key = j /\ uploader[v].task # "drop"
    BY <2>1 DEF KeptFor
  <2>3. v # u
    BY <1>3, <2>1, <2>2
  <2> QED BY <1>6, <2>2, <2>3 DEF KeptFor, Engaged, PicturesShape
<1>12. avatar \notin Put' /\ Put' \subseteq stored /\ (avatar # NoKey => avatar \in stored)
  BY <1>3, <1>5, <1>7 DEF KeysRight, BringsOwn
<1>13. \A p \in photo' : p.key <= minted /\ p.position < minted
  BY <1>5, <1>6 DEF KeysRight
<1>14. \A p, q \in photo' : p.key = q.key => p = q
  BY <1>6, <1>7 DEF KeysRight, Put
<1>15. KeysRight'
  BY <1>6, <1>10, <1>11, <1>12, <1>13, <1>14 DEF KeysRight
<1> QED BY <1>3, <1>7, <1>8, <1>9, <1>15

\* The row is dropped; with it gone the request is to remove the object.
LEMMA DropRowIs ==
    ASSUME PicturesShape, KeysRight, NEW u \in Uploaders, DropRow(u)
    PROVE  PicturesShape' /\ KeysRight' /\ photo' \subseteq photo
<1>1. Engaged(u) /\ uploader[u].task = "drop"
  BY DEF DropRow, Engaged, Waiting
<1>2. uploader[u] \in Errands /\ RequestRight(u)
  BY <1>1 DEF PicturesShape, KeysRight, Engaged
<1>3. PICK k : k = uploader[u].key
  OBVIOUS
<1>4. photo' = {p \in photo : p.key # k} /\ photo' \subseteq photo
      /\ UNCHANGED <<stored, minted, avatar, orphaned>>
  BY <1>3 DEF DropRow
<1>5. CASE k \notin Put
  <2>1. photo' = photo
    BY <1>4, <1>5 DEF Put
  <2>2. uploader' = [uploader EXCEPT ![u] = Waiting]
    BY <1>3, <1>5 DEF DropRow, AtRestNow
  <2>3. orphaned' \subseteq Keys /\ orphaned \subseteq orphaned'
    BY <1>4 DEF PicturesShape
  <2> QED BY <1>1, <1>4, <2>1, <2>2, <2>3, RequestRests
<1>6. CASE k \in Put
  <2>1. PICK x : x = [uploader[u] EXCEPT !.task = "remove"]
    OBVIOUS
  <2>2. x \in Errands /\ x.task = "remove" /\ x.key = k /\ x.old = uploader[u].old /\ x # Waiting
    BY <1>2, <1>3, <2>1 DEF Errands, Bringing, Waiting
  <2>3. uploader' = [uploader EXCEPT ![u] = x] /\ uploader'[u] = x
        /\ \A v \in Uploaders : v # u => uploader'[v] = uploader[v]
    BY <1>3, <1>6, <2>1 DEF DropRow, Proceeds, PicturesShape
  <2>4. PicturesShape'
    <3>1. uploader' \in [Uploaders -> {Waiting} \cup Errands]
      BY <2>2, <2>3 DEF PicturesShape
    <3>2. photo \subseteq [key : Keys, position : Nat] /\ IsFiniteSet(photo)
      BY DEF PicturesShape
    <3>3. photo' \subseteq [key : Keys, position : Nat] /\ IsFiniteSet(photo')
      BY <1>4, <3>2, FS_Subset
    <3> QED BY <1>4, <3>1, <3>3 DEF PicturesShape, Keys, Errands, Bringing
  <2>5. Put' = Put \ {k}
    BY <1>4 DEF Put
  <2>6. DropsPhoto(u)
    BY <1>1, <1>2 DEF RequestRight
  <2>7. ASSUME NEW v \in Uploaders, Engaged(v)' PROVE RequestRight(v)'
    <3>1. CASE v = u
      <4>1. x.key # NoKey /\ x.key \notin Put' /\ x.key # avatar
        BY <1>3, <2>2, <2>5, <2>6 DEF DropsPhoto
      <4>2. x.key <= minted /\ x.old <= minted /\ x.old \notin Put'
        BY <1>2, <1>3, <2>2, <2>5 DEF RequestRight
      <4> QED BY <1>4, <2>2, <2>3, <3>1, <4>1, <4>2 DEF RequestRight, Bringing, Adding
    <3>2. CASE v # u
      <4>1. \A j \in Put' : j \in Put
        BY <2>5
      <4> QED BY <1>1, <1>3, <1>4, <2>2, <2>3, <2>7, <3>2, <4>1, OthersStayRight
    <3> QED BY <3>1, <3>2
  <2>8. ASSUME NEW j \in stored \ (Put' \cup {avatar} \cup orphaned) PROVE KeptFor(j)'
    <3>1. CASE j = k
      BY <2>2, <2>3, <3>1 DEF KeptFor, Engaged
    <3>2. CASE j # k
      <4>1. KeptFor(j)
        BY <2>5, <2>8, <3>2 DEF KeysRight
      <4>2. PICK v \in Uploaders : Engaged(v) /\ uploader[v].key = j /\ uploader[v].task # "drop"
        BY <4>1 DEF KeptFor
      <4>3. v # u
        BY <1>3, <3>2, <4>2
      <4> QED BY <2>3, <4>2, <4>3 DEF KeptFor, Engaged
    <3> QED BY <3>1, <3>2
  <2>9. avatar \notin Put' /\ Put' \subseteq stored /\ (avatar # NoKey => avatar \in stored)
    BY <2>5 DEF KeysRight
  <2>10. KeysRight'
    BY <1>4, <2>7, <2>8, <2>9 DEF KeysRight
  <2> QED BY <1>4, <2>4, <2>10
<1> QED BY <1>5, <1>6

\* The picture changes; what it replaced is u's to remove, or nobody's.
LEMMA SetAvatarIs ==
    ASSUME PicturesShape, KeysRight, NEW u \in Uploaders, SetAvatar(u)
    PROVE  PicturesShape' /\ KeysRight'
<1>1. Engaged(u) /\ uploader[u].task = "set"
  BY DEF SetAvatar, Engaged, Waiting
<1>2. uploader[u] \in Errands /\ RequestRight(u)
  BY <1>1 DEF PicturesShape, KeysRight, Engaged
<1>3. PICK k : k = uploader[u].key
  OBVIOUS
<1>4. PICK o : o = uploader[u].old
  OBVIOUS
<1>5. avatar' = k /\ orphaned' = orphaned \cup ({avatar} \ {NoKey, o})
      /\ UNCHANGED <<stored, minted, photo>>
  BY <1>3, <1>4 DEF SetAvatar
<1>6. PICK x : x = IF o = NoKey THEN Waiting ELSE [uploader[u] EXCEPT !.task = "remove", !.key = o]
  OBVIOUS
<1>7. uploader' = [uploader EXCEPT ![u] = x]
  BY <1>4, <1>6 DEF SetAvatar, Replaced, PicturesShape
<1>8. o # NoKey => x \in Errands /\ x.task = "remove" /\ x.key = o /\ x.old = o /\ x # Waiting
  <2> SUFFICES ASSUME o # NoKey
               PROVE  x \in Errands /\ x.task = "remove" /\ x.key = o /\ x.old = o /\ x # Waiting
    OBVIOUS
  <2>1. PICK y : y = [uploader[u] EXCEPT !.task = "remove"]
    OBVIOUS
  <2>2. y \in Errands /\ y.task = "remove" /\ y.old = o
    BY <1>2, <1>4, <2>1 DEF Errands
  <2>3. x = [y EXCEPT !.key = o]
    BY <1>2, <1>6, <2>1 DEF Errands
  <2>4. o \in 0..MaxUploads
    BY <1>2, <1>4 DEF Errands
  <2> QED BY <2>2, <2>3, <2>4 DEF Errands, Waiting
<1>9. uploader'[u] = x /\ \A v \in Uploaders : v # u => uploader'[v] = uploader[v]
  BY <1>7 DEF PicturesShape
<1>10. k \in 0..minted /\ (k # NoKey => BringsOwn(u) /\ k \in stored) /\ o <= minted /\ o \notin Put
       /\ (k = NoKey => k \notin Put)
  <2>1. k \in 0..MaxUploads /\ k <= minted /\ o <= minted /\ o \notin Put
    BY <1>2, <1>3, <1>4 DEF RequestRight, Errands
  <2>2. minted \in 0..MaxUploads
    BY DEF PicturesShape
  <2>3. k # NoKey => BringsOwn(u) /\ k \in stored
    BY <1>1, <1>2, <1>3 DEF RequestRight, Bringing
  <2>4. NoKey \notin Put
    BY DEF PicturesShape, Put, Keys, NoKey
  <2> QED BY <2>1, <2>2, <2>3, <2>4, UploadsAssumption
<1>11. PicturesShape'
  <2>1. uploader' \in [Uploaders -> {Waiting} \cup Errands]
    BY <1>6, <1>7, <1>8 DEF PicturesShape
  <2>2. orphaned' \subseteq Keys
    <3>1. avatar # NoKey => avatar \in Keys
      BY UploadsAssumption DEF PicturesShape, NoKey, Keys
    <3> QED BY <1>5, <3>1 DEF PicturesShape
  <2>3. avatar' \in 0..minted'
    BY <1>5, <1>10
  <2> QED BY <1>5, <2>1, <2>2, <2>3 DEF PicturesShape, Keys, Errands, Bringing
<1>12. Put' = Put /\ k \notin Put /\ (o = k => k = NoKey)
  BY <1>1, <1>3, <1>4, <1>5, <1>10 DEF Put, BringsOwn
<1>13. ASSUME NEW v \in Uploaders, Engaged(v)' PROVE RequestRight(v)'
  <2>1. CASE v = u
    <3>1. o # NoKey
      BY <1>6, <1>9, <1>13, <2>1 DEF Engaged
    <3> QED BY <1>5, <1>8, <1>9, <1>10, <1>12, <2>1, <3>1 DEF RequestRight, Bringing, Adding
  <2>2. CASE v # u
    <3>1. x = Waiting \/ (x.old = uploader[u].old /\ x.key \in {uploader[u].key, uploader[u].old})
      BY <1>4, <1>6, <1>8
    <3>2. avatar' = avatar \/ (avatar' = uploader[u].key /\ uploader[u].task \in Bringing)
      BY <1>1, <1>3, <1>5 DEF Bringing
    <3> QED BY <1>1, <1>5, <1>7, <1>12, <1>13, <2>2, <3>1, <3>2, OthersStayRight
  <2> QED BY <2>1, <2>2
<1>14. ASSUME NEW j \in stored \ (Put \cup {k} \cup orphaned') PROVE KeptFor(j)'
  <2>1. j # NoKey
    BY DEF PicturesShape, NoKey
  <2>2. CASE j = avatar
    <3>1. j = o /\ o # NoKey
      BY <1>5, <1>14, <2>1, <2>2
    <3> QED BY <1>8, <1>9, <3>1 DEF KeptFor, Engaged
  <2>3. CASE j # avatar
    <3>1. KeptFor(j)
      BY <1>5, <1>14, <2>3 DEF KeysRight
    <3>2. PICK v \in Uploaders : Engaged(v) /\ uploader[v].key = j /\ uploader[v].task # "drop"
      BY <3>1 DEF KeptFor
    <3>3. v # u
      BY <1>3, <1>14, <3>2
    <3> QED BY <1>9, <3>2, <3>3 DEF KeptFor, Engaged
  <2> QED BY <2>2, <2>3
<1>15. KeysRight'
  BY <1>5, <1>10, <1>12, <1>13, <1>14 DEF KeysRight
<1> QED BY <1>11, <1>15

-----------------------------------------------------------------------------
\* Who adds does not change, or fewer do, and no photo is new.
LEMMA RoomStays ==
    ASSUME PicturesShape, RoomRight, photo' \subseteq photo, Adders' \subseteq Adders
    PROVE  RoomRight'
<1>1. IsFiniteSet(photo)
  BY DEF PicturesShape
<1>2. Cardinality(photo') <= Cardinality(photo) /\ Cardinality(photo) \in Nat
      /\ Cardinality(photo') \in Nat
  BY <1>1, FS_Subset, FS_CardinalityType
<1>3. Cardinality(Adders') <= Cardinality(Adders) /\ Cardinality(Adders) \in Nat
      /\ Cardinality(Adders') \in Nat
  BY AddersFinite, FS_Subset, FS_CardinalityType
<1> QED BY <1>2, <1>3, AddersFinite, UploadsAssumption DEF RoomRight

\* A request that found room adds one to those that add.
LEMMA RoomFound ==
    ASSUME PicturesShape, RoomRight, photo' = photo, Room
    PROVE  RoomRight'
<1>1. Cardinality(photo) \in Nat
  BY FS_CardinalityType DEF PicturesShape
<1>2. Adders' \subseteq Uploaders
  BY DEF Adders
<1>3. Cardinality(Adders') <= Cardinality(Uploaders) /\ Cardinality(Adders') \in Nat
      /\ Cardinality(Uploaders) \in Nat
  BY <1>2, UploadsAssumption, FS_Subset, FS_CardinalityType
<1> QED BY <1>1, <1>3, UploadsAssumption DEF RoomRight, Room

LEMMA RoomTaken ==
    ASSUME PicturesShape, RoomRight, NEW u \in Uploaders, AddRow(u),
           Cardinality(photo') = Cardinality(photo) + 1
    PROVE  RoomRight'
<1>1. u \in Adders /\ uploader' = [uploader EXCEPT ![u] = Waiting]
  BY DEF AddRow, AtRestNow, Adders, Adding
<1>2. Adders' = Adders \ {u}
  BY <1>1 DEF Adders, PicturesShape, Waiting, Adding
<1>3. Cardinality(Adders') = Cardinality(Adders) - 1 /\ Cardinality(Adders) \in Nat
  BY <1>1, <1>2, AddersFinite, FS_RemoveElement
<1>4. Cardinality(photo) \in Nat
  BY FS_CardinalityType DEF PicturesShape
<1> QED BY <1>3, <1>4, AddersFinite, UploadsAssumption DEF RoomRight

-----------------------------------------------------------------------------
\* No photo changes and no request about photos begins.
LEMMA OrderStays ==
    ASSUME PicturesShape, OrderRight, photo' = photo, raced' = raced,
           status' = "ACTIVE" /\ photo = {} => status = "ACTIVE" \/ bare', bare => bare',
           \A v \in Uploaders : OnPhotos(v)' =>
               /\ OnPhotos(v)
               /\ uploader'[v].key = uploader[v].key
               /\ uploader'[v].position = uploader[v].position
               /\ uploader'[v].onSale = uploader[v].onSale
               /\ \/ uploader'[v].task = uploader[v].task
                  \/ uploader[v].task \in Adding /\ uploader'[v].task \in Adding
    PROVE  OrderRight'
<1>1. PhotosInOrder'
  BY DEF OrderRight, PhotosInOrder
<1>2. ASSUME ~raced, NEW v \in Uploaders, OnPhotos(v)' PROVE StillStands(v)'
  <2>1. StillStands(v)
    BY <1>2 DEF OrderRight
  <2>2. uploader'[v].task \in Adding => uploader[v].task \in Adding
    BY <1>2
  <2>3. uploader'[v].task \notin Adding => uploader'[v].task = uploader[v].task
    BY <1>2
  <2>4. uploader'[v].task \in Adding => /\ Cardinality(photo') < MAX_IMAGES_PER_LISTING
                                        /\ \A p \in photo' : p.position < uploader'[v].position
    BY <1>2, <2>1, <2>2 DEF StillStands
  <2>5. uploader'[v].task = "publish" => photo' # {}
    BY <2>1, <2>3 DEF StillStands, Adding
  <2>6. uploader'[v].task = "drop" /\ uploader'[v].onSale => \E p \in photo' : p.key # uploader'[v].key
    BY <1>2, <2>1, <2>3 DEF StillStands, Adding
  <2> QED BY <2>4, <2>5, <2>6 DEF StillStands
<1>3. ~raced' => /\ \A u, v \in Uploaders : OnPhotos(u)' /\ OnPhotos(v)' => u = v
                 /\ \A v \in Uploaders : OnPhotos(v)' => StillStands(v)'
  BY <1>2 DEF OrderRight
<1> QED BY <1>1, <1>3 DEF OrderRight

\* A request about photos begins, and has read what still stands.
LEMMA OrderBegins ==
    ASSUME PicturesShape, KeysRight, OrderRight, NEW u \in Uploaders, raced \in BOOLEAN,
           raced' = (raced \/ OverPhotos(u)), photo' = photo, UNCHANGED <<status, bare>>,
           \A v \in Uploaders : v # u => uploader'[v] = uploader[v],
           OnPhotos(u)', StillStands(u)'
    PROVE  OrderRight'
<1>1. PhotosInOrder'
  BY DEF OrderRight, PhotosInOrder
<1>2. ASSUME ~raced'
      PROVE  /\ \A v, w \in Uploaders : OnPhotos(v)' /\ OnPhotos(w)' => v = w
             /\ \A v \in Uploaders : OnPhotos(v)' => StillStands(v)'
  <2>1. \A v \in Uploaders : v # u => ~OnPhotos(v)'
    BY <1>2 DEF OverPhotos, OnPhotos
  <2> QED BY <2>1
<1> QED BY <1>1, <1>2 DEF OrderRight

\* The only request about photos is over: nobody else has read anything.
LEMMA OrderEnds ==
    ASSUME OrderRight, NEW u \in Uploaders, OnPhotos(u), raced' = raced,
           \A v \in Uploaders : v # u => uploader'[v] = uploader[v],
           ~OnPhotos(u)', PhotosInOrder'
    PROVE  OrderRight'
<1>1. ASSUME ~raced PROVE \A v \in Uploaders : ~OnPhotos(v)'
  BY <1>1 DEF OrderRight, OnPhotos
<1> QED BY <1>1 DEF OrderRight

\* Nothing about photos changes when nobody's request about them does.
LEMMA RestIsRest ==
    ASSUME PicturesShape, NEW u \in Uploaders, uploader' = [uploader EXCEPT ![u] = Waiting]
    PROVE  /\ ~OnPhotos(u)' /\ Adders' \subseteq Adders
           /\ \A v \in Uploaders : v # u => uploader'[v] = uploader[v]
           /\ \A v \in Uploaders : OnPhotos(v)' => v # u /\ OnPhotos(v) /\ uploader'[v] = uploader[v]
<1>1. uploader'[u] = Waiting /\ \A v \in Uploaders : v # u => uploader'[v] = uploader[v]
  BY DEF PicturesShape
<1>2. ~OnPhotos(u)' /\ Waiting.task \notin Adding
  BY <1>1 DEF OnPhotos, PhotoTasks, Waiting, Adding
<1>3. Adders' \subseteq Adders
  BY <1>1, <1>2 DEF Adders
<1> QED BY <1>1, <1>2, <1>3 DEF OnPhotos

-----------------------------------------------------------------------------
LEMMA PicturesAddPhoto ==
    ASSUME PicturesInv, NEW u \in Uploaders, AddPhoto(u) PROVE PicturesInv'
<1>1. PicturesShape /\ Flags /\ KeysRight /\ RoomRight /\ OrderRight
  BY DEF PicturesInv
<1>2. /\ Room /\ minted < MaxUploads /\ minted' = minted + 1
      /\ ReadsFirst(u, "putPhoto", minted + 1) /\ raced' = (raced \/ OverPhotos(u))
      /\ UNCHANGED <<stored, photo, listingVars, avatar, orphaned>>
  BY DEF AddPhoto
<1>3. PicturesShape' /\ KeysRight'
  BY <1>1, <1>2, RequestBegins
<1>4. RoomRight'
  BY <1>1, <1>2, RoomFound
<1>5. PICK n \in Nat :
          /\ uploader' = [uploader EXCEPT ![u] = AsRead("putPhoto", minted + 1, n)]
          /\ \A p \in photo : p.position < n
  BY <1>1, <1>2, ReadsIs
<1>6. uploader'[u].task = "putPhoto" /\ uploader'[u].position = n
      /\ \A v \in Uploaders : v # u => uploader'[v] = uploader[v]
  BY <1>1, <1>5 DEF PicturesShape, AsRead
<1>7. OnPhotos(u)' /\ StillStands(u)'
  BY <1>2, <1>5, <1>6 DEF OnPhotos, PhotoTasks, StillStands, Room, Adding
<1>8. Flags'
  BY <1>1, <1>2 DEF Flags, OverPhotos, listingVars
<1>9. OrderRight'
  <2>1. raced \in BOOLEAN
    BY <1>1 DEF Flags
  <2> QED BY <1>1, <1>2, <1>6, <1>7, <2>1, OrderBegins DEF listingVars
<1> QED BY <1>3, <1>4, <1>8, <1>9 DEF PicturesInv

LEMMA PicturesPutFile ==
    ASSUME PicturesInv, NEW u \in Uploaders,
           NEW task \in {"putPhoto", "putAvatar"}, NEW next \in {"add", "set"},
           task = "putPhoto" <=> next = "add", PutFile(u, task, next)
    PROVE  PicturesInv'
<1>1. PicturesShape /\ Flags /\ KeysRight /\ RoomRight /\ OrderRight
  BY DEF PicturesInv
<1>2. uploader[u].task = task
      /\ UNCHANGED <<minted, photo, listingVars, avatar, raced, orphaned>>
  BY DEF PutFile
<1>3. Engaged(u) /\ Flags'
  BY <1>1, <1>2 DEF Engaged, Waiting, Flags, listingVars
<1>4. CASE stored' = stored \cup {uploader[u].key} /\ Proceeds(u, next)
  <2>1. PicturesShape' /\ KeysRight'
    BY <1>1, <1>2, <1>4, FileIsPut
  <2>2. uploader[u] \in Errands
    BY <1>1, <1>3 DEF PicturesShape, Engaged
  <2>3. PICK x : x = [uploader[u] EXCEPT !.task = next]
    OBVIOUS
  <2>4. x.task = next /\ x.key = uploader[u].key /\ x.position = uploader[u].position
        /\ x.onSale = uploader[u].onSale
    BY <2>2, <2>3 DEF Errands
  <2>5. uploader'[u] = x /\ \A v \in Uploaders : v # u => uploader'[v] = uploader[v]
    BY <1>1, <1>4, <2>3 DEF Proceeds, PicturesShape
  <2>6. next \in Adding <=> task \in Adding
    BY DEF Adding
  <2>7. Adders' \subseteq Adders
    BY <1>2, <2>4, <2>5, <2>6 DEF Adders
  <2>8. RoomRight'
    BY <1>1, <1>2, <2>7, RoomStays
  <2>9. ASSUME NEW v \in Uploaders, OnPhotos(v)'
        PROVE  /\ OnPhotos(v)
               /\ uploader'[v].key = uploader[v].key
               /\ uploader'[v].position = uploader[v].position
               /\ uploader'[v].onSale = uploader[v].onSale
               /\ \/ uploader'[v].task = uploader[v].task
                  \/ uploader[v].task \in Adding /\ uploader'[v].task \in Adding
    <3>1. CASE v = u
      <4>1. next = "add" /\ task = "putPhoto"
        BY <2>4, <2>5, <2>9, <3>1 DEF OnPhotos, PhotoTasks
      <4> QED BY <1>2, <2>4, <2>5, <3>1, <4>1 DEF OnPhotos, PhotoTasks, Adding
    <3>2. CASE v # u
      BY <2>5, <2>9, <3>2 DEF OnPhotos
    <3> QED BY <3>1, <3>2
  <2>10. OrderRight'
    BY <1>1, <1>2, <2>9, OrderStays DEF listingVars
  <2> QED BY <1>3, <2>1, <2>8, <2>10 DEF PicturesInv
<1>5. CASE stored' = stored /\ AtRestNow(u)
  <2>1. uploader' = [uploader EXCEPT ![u] = Waiting]
    BY <1>5 DEF AtRestNow
  <2>2. uploader[u].key \notin stored
    BY <1>1, <1>2, <1>3 DEF KeysRight, RequestRight
  <2>3. PicturesShape' /\ KeysRight'
    <3>1. orphaned \subseteq orphaned' /\ orphaned' \subseteq Keys
      BY <1>1, <1>2 DEF PicturesShape
    <3> QED BY <1>1, <1>2, <1>3, <1>5, <2>1, <2>2, <3>1, RequestRests
  <2>4. RoomRight'
    BY <1>1, <1>2, <2>1, RestIsRest, RoomStays
  <2>5. OrderRight'
    BY <1>1, <1>2, <2>1, RestIsRest, OrderStays DEF listingVars
  <2> QED BY <1>3, <2>3, <2>4, <2>5 DEF PicturesInv
<1> QED BY <1>4, <1>5 DEF PutFile

LEMMA PicturesAddRow ==
    ASSUME PicturesInv, NEW u \in Uploaders, AddRow(u) PROVE PicturesInv'
<1>1. PicturesShape /\ Flags /\ KeysRight /\ RoomRight /\ OrderRight
  BY DEF PicturesInv
<1>2. PICK r : r = [key |-> uploader[u].key, position |-> uploader[u].position]
  OBVIOUS
<1>3. /\ uploader[u].task = "add" /\ photo' = photo \cup {r}
      /\ uploader' = [uploader EXCEPT ![u] = Waiting]
      /\ bare' = FALSE
      /\ UNCHANGED <<stored, minted, status, deleted, claims, avatar, raced, orphaned>>
  BY <1>2 DEF AddRow, AtRestNow
<1>4. PicturesShape' /\ KeysRight' /\ Cardinality(photo') = Cardinality(photo) + 1
  BY <1>1, AddRowIs
<1>5. RoomRight'
  BY <1>1, <1>4, RoomTaken
<1>6. OnPhotos(u)
  BY <1>3 DEF OnPhotos, PhotoTasks
<1>7. ASSUME ~raced PROVE Cardinality(photo) < MAX_IMAGES_PER_LISTING
                          /\ \A p \in photo : p.position < r.position
  BY <1>1, <1>2, <1>3, <1>6, <1>7 DEF OrderRight, StillStands, Adding
<1>8. PhotosInOrder'
  <2> SUFFICES ASSUME ~raced
               PROVE  /\ photo' # {}
                      /\ \A p, q \in photo' : p.position = q.position => p = q
                      /\ Cardinality(photo') <= MAX_IMAGES_PER_LISTING
    BY <1>3 DEF PhotosInOrder
  <2>1. \A p, q \in photo : p.position = q.position => p = q
    BY <1>1 DEF OrderRight, PhotosInOrder
  <2>2. \A p \in photo : p.position # r.position
    <3>1. \A p \in photo' : p.position \in Nat
      BY <1>4 DEF PicturesShape
    <3> QED BY <1>3, <1>7, <3>1
  <2>3. Cardinality(photo) \in Nat
    BY <1>1, FS_CardinalityType DEF PicturesShape
  <2>4. Cardinality(photo') <= MAX_IMAGES_PER_LISTING
    BY <1>4, <1>7, <2>3, UploadsAssumption
  <2> QED BY <1>3, <2>1, <2>2, <2>4
<1>9. OrderRight'
  BY <1>1, <1>3, <1>6, <1>8, RestIsRest, OrderEnds
<1>10. Flags'
  BY <1>1, <1>3 DEF Flags
<1> QED BY <1>4, <1>5, <1>9, <1>10 DEF PicturesInv

LEMMA PicturesDropPhoto ==
    ASSUME PicturesInv, NEW u \in Uploaders, NEW k \in Keys, DropPhoto(u, k) PROVE PicturesInv'
<1>1. PicturesShape /\ Flags /\ KeysRight /\ RoomRight /\ OrderRight
  BY DEF PicturesInv
<1>2. /\ k \in Put /\ (status = "ACTIVE" => Cardinality(photo) > 1)
      /\ ReadsFirst(u, "drop", k) /\ raced' = (raced \/ OverPhotos(u))
      /\ UNCHANGED <<stored, minted, photo, listingVars, avatar, orphaned>>
  BY DEF DropPhoto, MayDrop, FirstGoes
<1>3. PicturesShape' /\ KeysRight'
  BY <1>1, <1>2, RequestBegins
<1>4. PICK n \in Nat : uploader' = [uploader EXCEPT ![u] = AsRead("drop", k, n)]
  BY <1>1, <1>2, ReadsIs
<1>5. uploader'[u].task = "drop" /\ uploader'[u].key = k
      /\ (uploader'[u].onSale => status = "ACTIVE")
      /\ \A v \in Uploaders : v # u => uploader'[v] = uploader[v]
  BY <1>1, <1>4 DEF PicturesShape, AsRead
<1>6. RoomRight'
  <2>1. Adders' \subseteq Adders
    BY <1>5 DEF Adders, Adding
  <2> QED BY <1>1, <1>2, <2>1, RoomStays
<1>7. ASSUME status = "ACTIVE" PROVE \E p \in photo : p.key # k
  <2> SUFFICES ASSUME \A p \in photo : p.key = k PROVE FALSE
    OBVIOUS
  <2>1. PICK p \in photo : p.key = k
    BY <1>2 DEF Put
  <2>2. photo = {p}
    BY <1>1, <2>1 DEF KeysRight
  <2>3. Cardinality(photo) = 1
    BY <2>2, FS_Singleton
  <2> QED BY <1>2, <1>7, <2>3
<1>8. OnPhotos(u)' /\ StillStands(u)'
  BY <1>2, <1>5, <1>7 DEF OnPhotos, PhotoTasks, StillStands, Adding
<1>9. OrderRight'
  <2>1. raced \in BOOLEAN
    BY <1>1 DEF Flags
  <2> QED BY <1>1, <1>2, <1>5, <1>8, <2>1, OrderBegins DEF listingVars
<1>10. Flags'
  BY <1>1, <1>2 DEF Flags, OverPhotos, listingVars
<1> QED BY <1>3, <1>6, <1>9, <1>10 DEF PicturesInv

LEMMA PicturesDropRow ==
    ASSUME PicturesInv, NEW u \in Uploaders, DropRow(u) PROVE PicturesInv'
<1>1. PicturesShape /\ Flags /\ KeysRight /\ RoomRight /\ OrderRight
  BY DEF PicturesInv
<1>2. /\ uploader[u].task = "drop" /\ photo' = {p \in photo : p.key # uploader[u].key}
      /\ bare' = (bare \/ (status = "ACTIVE" /\ ~uploader[u].onSale /\ photo' = {}))
      /\ UNCHANGED <<stored, minted, status, deleted, claims, avatar, raced, orphaned>>
  BY DEF DropRow
<1>3. PicturesShape' /\ KeysRight' /\ photo' \subseteq photo
  BY <1>1, DropRowIs
<1>4. Engaged(u) /\ uploader[u] \in Errands /\ OnPhotos(u)
  BY <1>1, <1>2 DEF Engaged, Waiting, PicturesShape, OnPhotos, PhotoTasks
<1>5. uploader'[u].task \in {"remove", "idle"}
      /\ \A v \in Uploaders : v # u => uploader'[v] = uploader[v]
  <2>1. CASE Proceeds(u, "remove")
    <3>1. PICK x : x = [uploader[u] EXCEPT !.task = "remove"]
      OBVIOUS
    <3>2. x.task = "remove"
      BY <1>4, <3>1 DEF Errands
    <3>3. uploader' = [uploader EXCEPT ![u] = x]
      BY <1>1, <2>1, <3>1 DEF Proceeds, PicturesShape
    <3> QED BY <1>1, <3>2, <3>3 DEF PicturesShape
  <2>2. CASE AtRestNow(u)
    BY <1>1, <2>2 DEF AtRestNow, PicturesShape, Waiting
  <2> QED BY <2>1, <2>2 DEF DropRow
<1>6. RoomRight'
  <2>1. Adders' \subseteq Adders
    BY <1>5 DEF Adders, Adding
  <2> QED BY <1>1, <1>3, <2>1, RoomStays
<1>7. PhotosInOrder'
  <2> SUFFICES ASSUME ~raced
               PROVE  /\ status = "ACTIVE" => photo' # {} \/ bare'
                      /\ \A p, q \in photo' : p.position = q.position => p = q
                      /\ Cardinality(photo') <= MAX_IMAGES_PER_LISTING
    BY <1>2 DEF PhotosInOrder
  <2>1. /\ \A p, q \in photo : p.position = q.position => p = q
        /\ Cardinality(photo) <= MAX_IMAGES_PER_LISTING
    BY <1>1 DEF OrderRight, PhotosInOrder
  <2>2. uploader[u].onSale => \E p \in photo : p.key # uploader[u].key
    BY <1>1, <1>2, <1>4 DEF OrderRight, StillStands
  <2>3. Cardinality(photo') <= Cardinality(photo)
        /\ Cardinality(photo) \in Nat /\ Cardinality(photo') \in Nat
    BY <1>1, <1>3, FS_Subset, FS_CardinalityType DEF PicturesShape
  <2>4. Cardinality(photo') <= MAX_IMAGES_PER_LISTING
    BY <2>1, <2>3, UploadsAssumption
  <2> QED BY <1>2, <2>1, <2>2, <2>4
<1>8. ~OnPhotos(u)'
  BY <1>5 DEF OnPhotos, PhotoTasks
<1>9. OrderRight'
  BY <1>1, <1>2, <1>4, <1>5, <1>7, <1>8, OrderEnds
<1>10. Flags'
  BY <1>1, <1>2 DEF Flags, listingVars
<1> QED BY <1>3, <1>6, <1>9, <1>10 DEF PicturesInv

\* What ends without a change to photos: a removal, and a request that dies.
LEMMA PicturesRest ==
    ASSUME PicturesInv, NEW u \in Uploaders, RemoveFile(u) \/ UploadDies(u) PROVE PicturesInv'
<1>1. PicturesShape /\ Flags /\ KeysRight /\ RoomRight /\ OrderRight
  BY DEF PicturesInv
<1>2. /\ uploader' = [uploader EXCEPT ![u] = Waiting] /\ Engaged(u)
      /\ UNCHANGED <<minted, photo, listingVars, avatar, raced>>
  BY DEF RemoveFile, UploadDies, AtRestNow, Engaged, Waiting
<1>3. uploader[u] \in Errands /\ RequestRight(u)
  BY <1>1, <1>2 DEF PicturesShape, KeysRight, Engaged
<1>4. PICK k : k = uploader[u].key
  OBVIOUS
<1>5. k # NoKey => k \in Keys
  BY <1>3, <1>4, UploadsAssumption DEF Errands, Keys, NoKey
<1>6. /\ \/ stored' = stored
         \/ uploader[u].task = "remove" /\ stored' = stored \ {uploader[u].key}
      /\ orphaned \subseteq orphaned' /\ orphaned' \subseteq Keys
      /\ \/ uploader[u].task = "drop" \/ uploader[u].key = NoKey
         \/ uploader[u].key \notin stored' \/ uploader[u].key \in orphaned'
  <2>1. CASE RemoveFile(u)
    <3>1. uploader[u].task = "remove" /\ k # NoKey /\ k \in Keys
      BY <1>3, <1>4, <1>5, <2>1 DEF RemoveFile, RequestRight
    <3>2. \/ stored' = stored \ {k} /\ orphaned' = orphaned
          \/ orphaned' = orphaned \cup {k} /\ stored' = stored
      BY <1>4, <2>1 DEF RemoveFile
    <3> QED BY <1>1, <1>4, <3>1, <3>2 DEF PicturesShape
  <2>2. CASE UploadDies(u)
    <3>1. stored' = stored /\ orphaned' = IF uploader[u].task \in {"add", "set", "remove"}
                                          THEN orphaned \cup ({k} \ {NoKey}) ELSE orphaned
      BY <1>4, <2>2 DEF UploadDies
    <3>2. uploader[u].task \in {"putPhoto", "add", "putAvatar", "set", "drop", "remove",
                                 "publish", "unpublish"}
      BY <1>3 DEF Errands, Bringing
    <3>3. \/ uploader[u].task \in {"add", "set", "remove"}
          \/ uploader[u].task = "drop" \/ k = NoKey \/ k \notin stored
      BY <1>3, <1>4, <3>2 DEF RequestRight
    <3>4. orphaned \subseteq orphaned' /\ orphaned' \subseteq Keys
      BY <1>1, <1>5, <3>1 DEF PicturesShape
    <3> QED BY <1>4, <3>1, <3>3, <3>4
  <2> QED BY <2>1, <2>2
<1>7. PicturesShape' /\ KeysRight'
  <2> QED BY <1>1, <1>2, <1>6, RequestRests
<1>8. RoomRight'
  BY <1>1, <1>2, RestIsRest, RoomStays
<1>9. OrderRight'
  BY <1>1, <1>2, RestIsRest, OrderStays DEF listingVars
<1>10. Flags'
  BY <1>1, <1>2 DEF Flags, listingVars
<1> QED BY <1>7, <1>8, <1>9, <1>10 DEF PicturesInv

LEMMA PicturesPublish ==
    ASSUME PicturesInv, NEW u \in Uploaders, Publish(u) PROVE PicturesInv'
<1>1. PicturesShape /\ Flags /\ KeysRight /\ RoomRight /\ OrderRight
  BY DEF PicturesInv
<1>2. /\ photo # {} /\ ReadsFirst(u, "publish", NoKey) /\ raced' = (raced \/ OverPhotos(u))
      /\ UNCHANGED <<stored, minted, photo, listingVars, avatar, orphaned>>
  BY DEF Publish
<1>3. PicturesShape' /\ KeysRight'
  BY <1>1, <1>2, RequestBegins
<1>4. PICK n \in Nat : uploader' = [uploader EXCEPT ![u] = AsRead("publish", NoKey, n)]
  BY <1>1, <1>2, ReadsIs
<1>5. uploader'[u].task = "publish" /\ \A v \in Uploaders : v # u => uploader'[v] = uploader[v]
  BY <1>1, <1>4 DEF PicturesShape, AsRead
<1>6. RoomRight'
  <2>1. Adders' \subseteq Adders
    BY <1>5 DEF Adders, Adding
  <2> QED BY <1>1, <1>2, <2>1, RoomStays
<1>7. OnPhotos(u)' /\ StillStands(u)'
  BY <1>2, <1>5 DEF OnPhotos, PhotoTasks, StillStands, Adding
<1>8. OrderRight'
  <2>1. raced \in BOOLEAN
    BY <1>1 DEF Flags
  <2> QED BY <1>1, <1>2, <1>5, <1>7, <2>1, OrderBegins DEF listingVars
<1>9. Flags'
  BY <1>1, <1>2 DEF Flags, OverPhotos, listingVars
<1> QED BY <1>3, <1>6, <1>8, <1>9 DEF PicturesInv

\* The listing is to go to the drafts, which reads no photo.
LEMMA PicturesUnpublish ==
    ASSUME PicturesInv, NEW u \in Uploaders, Unpublish(u) PROVE PicturesInv'
<1>1. PicturesShape /\ Flags /\ KeysRight /\ RoomRight /\ OrderRight
  BY DEF PicturesInv
<1>2. /\ ReadsFirst(u, "unpublish", NoKey)
      /\ UNCHANGED <<stored, minted, photo, listingVars, avatar, raced, orphaned>>
  BY DEF Unpublish
<1>3. PicturesShape' /\ KeysRight'
  BY <1>1, <1>2, RequestBegins
<1>4. PICK n \in Nat : uploader' = [uploader EXCEPT ![u] = AsRead("unpublish", NoKey, n)]
  BY <1>1, <1>2, ReadsIs
<1>5. uploader'[u].task = "unpublish" /\ \A v \in Uploaders : v # u => uploader'[v] = uploader[v]
  BY <1>1, <1>4 DEF PicturesShape, AsRead
<1>6. RoomRight'
  <2>1. Adders' \subseteq Adders
    BY <1>5 DEF Adders, Adding
  <2> QED BY <1>1, <1>2, <2>1, RoomStays
<1>7. \A v \in Uploaders : OnPhotos(v)' => OnPhotos(v) /\ uploader'[v] = uploader[v]
  BY <1>5 DEF OnPhotos, PhotoTasks
<1>8. OrderRight'
  BY <1>1, <1>2, <1>7, OrderStays DEF listingVars
<1>9. Flags'
  BY <1>1, <1>2 DEF Flags, listingVars
<1> QED BY <1>3, <1>6, <1>8, <1>9 DEF PicturesInv

\* The status is written: to publish it was found, when nobody came between,
\* that a photo is there.
LEMMA PicturesPublished ==
    ASSUME PicturesInv, NEW u \in Uploaders, Published(u) PROVE PicturesInv'
<1>1. PicturesShape /\ Flags /\ KeysRight /\ RoomRight /\ OrderRight
  BY DEF PicturesInv
<1>2. /\ \/ uploader[u].task = "publish" /\ status' = "ACTIVE"
         \/ uploader[u].task = "unpublish" /\ status' = "DRAFT"
      /\ uploader' = [uploader EXCEPT ![u] = Waiting]
      /\ UNCHANGED <<stored, minted, photo, deleted, claims, bare, avatar, raced, orphaned>>
  BY DEF Published, AtRestNow
<1>3. Engaged(u)
  BY <1>2 DEF Engaged, Waiting
<1>4. PicturesShape' /\ KeysRight'
  <2>1. uploader[u].key = NoKey
    BY <1>1, <1>2, <1>3 DEF KeysRight, RequestRight
  <2>2. orphaned \subseteq orphaned' /\ orphaned' \subseteq Keys
    BY <1>1, <1>2 DEF PicturesShape
  <2> QED BY <1>1, <1>2, <1>3, <2>1, <2>2, RequestRests
<1>5. RoomRight'
  BY <1>1, <1>2, RestIsRest, RoomStays
<1>6. OrderRight'
  <2>1. CASE uploader[u].task = "publish"
    <3>1. OnPhotos(u)
      BY <2>1 DEF OnPhotos, PhotoTasks
    <3>2. ~raced => photo # {}
      BY <1>1, <2>1, <3>1 DEF OrderRight, StillStands
    <3>3. PhotosInOrder'
      BY <1>1, <1>2, <3>2 DEF OrderRight, PhotosInOrder
    <3> QED BY <1>1, <1>2, <3>1, <3>3, RestIsRest, OrderEnds
  <2>2. CASE status' = "DRAFT"
    BY <1>1, <1>2, <2>2, RestIsRest, OrderStays
  <2> QED BY <1>2, <2>1, <2>2
<1>7. Flags'
  BY <1>1, <1>2 DEF Flags, ListingStates
<1> QED BY <1>4, <1>5, <1>6, <1>7 DEF PicturesInv

\* A request about the picture begins.
LEMMA PicturesAvatar ==
    ASSUME PicturesInv, NEW u \in Uploaders, ChangeAvatar(u) \/ ClearAvatar(u) PROVE PicturesInv'
<1>1. PicturesShape /\ Flags /\ KeysRight /\ RoomRight /\ OrderRight
  BY DEF PicturesInv
<1>2. PICK task \in {"putAvatar", "set"}, key \in {minted + 1, NoKey} :
          /\ ReadsFirst(u, task, key)
          /\ task = "putAvatar" => minted < MaxUploads /\ key = minted + 1 /\ minted' = minted + 1
          /\ task = "set" => key = NoKey /\ minted' = minted
          /\ UNCHANGED <<stored, photo, listingVars, avatar, raced, orphaned>>
  BY DEF ChangeAvatar, ClearAvatar
<1>3. PicturesShape' /\ KeysRight'
  BY <1>1, <1>2, RequestBegins
<1>4. PICK n \in Nat : uploader' = [uploader EXCEPT ![u] = AsRead(task, key, n)]
  BY <1>1, <1>2, ReadsIs
<1>5. uploader'[u].task = task /\ \A v \in Uploaders : v # u => uploader'[v] = uploader[v]
  BY <1>1, <1>4 DEF PicturesShape, AsRead
<1>6. RoomRight'
  <2>1. Adders' \subseteq Adders
    BY <1>5 DEF Adders, Adding
  <2> QED BY <1>1, <1>2, <2>1, RoomStays
<1>7. \A v \in Uploaders : OnPhotos(v)' => OnPhotos(v) /\ uploader'[v] = uploader[v]
  BY <1>5 DEF OnPhotos, PhotoTasks
<1>8. OrderRight'
  BY <1>1, <1>2, <1>7, OrderStays DEF listingVars
<1>9. Flags'
  BY <1>1, <1>2 DEF Flags, listingVars
<1> QED BY <1>3, <1>6, <1>8, <1>9 DEF PicturesInv

LEMMA PicturesSetAvatar ==
    ASSUME PicturesInv, NEW u \in Uploaders, SetAvatar(u) PROVE PicturesInv'
<1>1. PicturesShape /\ Flags /\ KeysRight /\ RoomRight /\ OrderRight
  BY DEF PicturesInv
<1>2. uploader[u].task = "set" /\ UNCHANGED <<stored, minted, photo, listingVars, raced>>
  BY DEF SetAvatar
<1>3. PicturesShape' /\ KeysRight'
  BY <1>1, SetAvatarIs
<1>4. uploader'[u].task \in {"remove", "idle"}
      /\ \A v \in Uploaders : v # u => uploader'[v] = uploader[v]
  <2>1. uploader[u] \in Errands
    BY <1>1, <1>2 DEF PicturesShape, Waiting
  <2>2. PICK y : y = [uploader[u] EXCEPT !.task = "remove"]
    OBVIOUS
  <2>3. PICK x : x = [y EXCEPT !.key = Replaced(u)]
    OBVIOUS
  <2>4. x.task = "remove"
    BY <2>1, <2>2, <2>3 DEF Errands
  <2>5. uploader' = [uploader EXCEPT ![u] = Waiting] \/ uploader' = [uploader EXCEPT ![u] = x]
    BY <1>1, <2>1, <2>2, <2>3 DEF SetAvatar, PicturesShape
  <2> QED BY <1>1, <2>4, <2>5 DEF PicturesShape, Waiting
<1>5. RoomRight'
  <2>1. Adders' \subseteq Adders
    BY <1>4 DEF Adders, Adding
  <2> QED BY <1>1, <1>2, <2>1, RoomStays
<1>6. \A v \in Uploaders : OnPhotos(v)' => OnPhotos(v) /\ uploader'[v] = uploader[v]
  BY <1>4 DEF OnPhotos, PhotoTasks
<1>7. OrderRight'
  BY <1>1, <1>2, <1>6, OrderStays DEF listingVars
<1>8. Flags'
  BY <1>1, <1>2 DEF Flags, listingVars
<1> QED BY <1>3, <1>5, <1>7, <1>8 DEF PicturesInv

\* The listing is deleted or restored, or buyers come and go: nobody looks at a
\* photo, and a listing that is on sale again without one is noted.
LEMMA PicturesListing ==
    ASSUME PicturesInv,
           \/ DeleteListing \/ RestoreListing \/ Reserve \/ ClaimEnds \/ ClaimPaid
           \/ UNCHANGED uploadsVars
    PROVE  PicturesInv'
<1>1. PicturesShape /\ Flags /\ KeysRight /\ RoomRight /\ OrderRight
  BY DEF PicturesInv
<1>2. /\ UNCHANGED <<stored, minted, photo, avatar, uploader, raced, orphaned>>
      /\ status' = "ACTIVE" /\ photo = {} => status = "ACTIVE" \/ bare'
      /\ bare => bare'
  <2>1. CASE DeleteListing \/ RestoreListing
    BY <2>1 DEF DeleteListing, RestoreListing
  <2>2. ASSUME NEW s, StatusBecomes(s)
        PROVE  /\ UNCHANGED <<stored, minted, photo, avatar, uploader, raced, orphaned>>
               /\ status' = "ACTIVE" /\ photo = {} => status = "ACTIVE" \/ bare'
               /\ bare => bare'
    BY <2>2 DEF StatusBecomes
  <2>3. Reserve \/ ClaimEnds \/ ClaimPaid => \E s : StatusBecomes(s)
    BY DEF Reserve, ClaimEnds, ClaimPaid
  <2>4. CASE UNCHANGED uploadsVars
    BY <2>4 DEF uploadsVars, listingVars
  <2> QED BY <2>1, <2>2, <2>3, <2>4
<1>3. PicturesShape'
  BY <1>1, <1>2 DEF PicturesShape, Keys, Errands, Bringing
<1>4. KeysRight'
  BY <1>1, <1>2 DEF KeysRight, Put, Engaged, RequestRight, BringsOwn, DropsPhoto, KeptFor
<1>5. RoomRight'
  <2>1. Adders' \subseteq Adders
    BY <1>2 DEF Adders
  <2> QED BY <1>1, <1>2, <2>1, RoomStays
<1>6. OrderRight'
  <2>1. \A v \in Uploaders : OnPhotos(v)' => OnPhotos(v) /\ uploader'[v] = uploader[v]
    BY <1>2 DEF OnPhotos
  <2> QED BY <1>1, <1>2, <2>1, OrderStays
<1>7. Flags'
  <2>1. raced' \in BOOLEAN /\ bare' \in BOOLEAN
    BY <1>1, <1>2 DEF DeleteListing, RestoreListing, Reserve, ClaimEnds, ClaimPaid, StatusBecomes,
                      uploadsVars, listingVars, Flags
  <2>2. deleted' \in BOOLEAN /\ status' \in ListingStates
    BY <1>1, <1>2 DEF DeleteListing, RestoreListing, Reserve, ClaimEnds, ClaimPaid, StatusBecomes,
                      uploadsVars, listingVars, Flags, ListingStates
  <2>3. claims' \in 0..MaxClaims
    BY <1>1, UploadsAssumption DEF DeleteListing, RestoreListing, Reserve, ClaimEnds, ClaimPaid,
                                   uploadsVars, listingVars, Flags
  <2> QED BY <2>1, <2>2, <2>3 DEF Flags
<1> QED BY <1>3, <1>4, <1>5, <1>6, <1>7 DEF PicturesInv

\* For any number of requests that add, drop and publish photos and change the
\* picture, whatever fails or dies between object storage and the rows: a key
\* that a row names is stored, what no row names is somebody's or counted,
\* each request that overlaps the last one may pass the limit by one, and a
\* listing on sale without a photo was put there by a buyer's step or by two
\* requests that overlapped (seller.ts:459, reservations.ts:264).
THEOREM UploadsAreRight == UploadsSpec => []UploadsInv
<1>1. UploadsInit => PicturesInv
  BY PicturesStart
<1>2. ASSUME PicturesInv, [UploadsNext]_uploadsVars PROVE PicturesInv'
  <2>1. ASSUME NEW u \in Uploaders,
               \/ AddPhoto(u) \/ PutFile(u, "putPhoto", "add") \/ AddRow(u)
               \/ \E k \in Keys : DropPhoto(u, k)
               \/ DropRow(u) \/ RemoveFile(u)
               \/ Publish(u) \/ Unpublish(u) \/ Published(u)
               \/ ChangeAvatar(u) \/ PutFile(u, "putAvatar", "set") \/ ClearAvatar(u)
               \/ SetAvatar(u) \/ UploadDies(u)
        PROVE  PicturesInv'
    <3>1. CASE PutFile(u, "putPhoto", "add")
      BY <1>2, <3>1, PicturesPutFile
    <3>2. CASE PutFile(u, "putAvatar", "set")
      BY <1>2, <3>2, PicturesPutFile
    <3> QED BY <1>2, <2>1, <3>1, <3>2, PicturesAddPhoto, PicturesAddRow, PicturesDropPhoto,
               PicturesDropRow, PicturesRest, PicturesPublish, PicturesUnpublish,
               PicturesPublished, PicturesAvatar, PicturesSetAvatar
  <2> QED BY <1>2, <2>1, PicturesListing DEF UploadsNext
<1> QED BY <1>1, <1>2, PicturesFollow, PTL DEF UploadsSpec
=============================================================================
