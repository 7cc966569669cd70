----------------------------- MODULE Addresses ------------------------------
(***************************************************************************)
(* One buyer's address book (lib/addresses.ts, routes/addresses.ts).       *)
(*                                                                         *)
(* An editor is one request: it reads, its transaction clears the default  *)
(* of the rows it finds, and commits that with its own write.  What an     *)
(* address says is data, and so is the limit of twenty.                    *)
(***************************************************************************)
EXTENDS Naturals, FiniteSets

CONSTANTS
    Editors,        \* requests handled at the same time
    MaxAddresses    \* addresses ever saved (bound)

ASSUME AddressesAssumption == MaxAddresses \in Nat

VARIABLES
    address,    \* address[a]: the row
    editor,     \* editor[e]: what the request read and is about to write
    muddled     \* history: requests overlapped since one alone chose a default

addressesVars == <<address, editor, muddled>>

Addresses == 1..MaxAddresses        \* in the order of createdAt
NewAddress == 0
Blank == [state |-> "none", default |-> FALSE]
NotEditing == [task |-> "idle"]

Saved == {a \in Addresses : address[a].state = "kept"}
Defaults == {a \in Addresses : address[a].default}
Editing(e, task) == editor[e].task = task
Busy == {e \in Editors : ~Editing(e, "idle")}

\* chosen: the address is to be the default; alone: nobody else was about.
Opens(e, task, a, chosen) ==
    /\ Editing(e, "idle")
    /\ editor' = [f \in Editors |->
           IF f = e THEN [task |-> task, address |-> a, chosen |-> chosen,
                          cleared |-> {}, alone |-> Busy = {}]
           ELSE IF f \in Busy THEN [editor[f] EXCEPT !.alone = FALSE] ELSE editor[f]]
    /\ muddled' = (muddled \/ Busy # {})
    /\ UNCHANGED address
Closes(e) == editor' = [editor EXCEPT ![e] = NotEditing]

-----------------------------------------------------------------------------
\* createAddress makes the first address the default whatever was asked for.
Create(e, asked) == Opens(e, "clear", NewAddress, asked \/ Saved = {})

\* updateAddress leaves a default the default; asked for a default, it does
\* what setDefaultAddress does.
Update(e, a, asked) ==
    /\ a \in Saved
    /\ Opens(e, IF asked THEN "clear" ELSE "keep", a, asked \/ address[a].default)

\* The default as the transaction finds it, which it will have cleared when it
\* commits; the mistake is to clear the address's own.
ClearsOwn(e) == Defaults \cap {editor[e].address}
Clears(e) == IF editor[e].chosen THEN Defaults ELSE {}

Clear(e) ==
    /\ Editing(e, "clear")
    /\ editor' = [editor EXCEPT ![e].task = "write", ![e].cleared = Clears(e)]
    /\ UNCHANGED <<address, muddled>>

\* The row is written by its id, deleted by now or not.  A default that one
\* request chose alone puts the book right.
Commit(e, a, state) ==
    /\ address' = [b \in Addresses |->
           [state |-> IF b = a THEN state ELSE address[b].state,
            default |-> IF b = a THEN editor[e].chosen
                        ELSE address[b].default /\ b \notin editor[e].cleared]]
    /\ muddled' = (muddled /\ ~(Editing(e, "write") /\ editor[e].chosen /\ editor[e].alone))
    /\ Closes(e)

Write(e) ==
    /\ editor[e].task \in {"write", "keep"}
    /\ IF editor[e].address = NewAddress
       THEN \E a \in Addresses : /\ address[a] = Blank
                                 /\ \A b \in 1..a - 1 : address[b] # Blank
                                 /\ Commit(e, a, "kept")
       ELSE Commit(e, editor[e].address, address[editor[e].address].state)

\* deleteAddress: when it was the default the next most recent takes over; the
\* mistake is to leave none.
NobodyAfter(a) == {}
NextAfter(a) == {b \in Saved \ {a} : \A c \in Saved \ {a} : c <= b}

Delete(e, a) ==
    /\ a \in Saved
    /\ Opens(e, "delete", a, address[a].default)

DeleteCommits(e) ==
    LET a == editor[e].address
        heir == IF editor[e].chosen THEN NextAfter(a) ELSE {}
    IN  /\ Editing(e, "delete")
        /\ address' = [b \in Addresses |->
               IF b = a THEN [state |-> "deleted", default |-> FALSE]
               ELSE [address[b] EXCEPT !.default = @ \/ b \in heir]]
        /\ Closes(e)
        /\ UNCHANGED muddled

\* An open transaction dies with its request.
EditorDies(e) ==
    /\ e \in Busy
    /\ Closes(e)
    /\ UNCHANGED <<address, muddled>>

-----------------------------------------------------------------------------
AddressesInit ==
    /\ address = [a \in Addresses |-> Blank]
    /\ editor = [e \in Editors |-> NotEditing]
    /\ muddled = FALSE

AddressesNext ==
    \E e \in Editors :
        \/ \E asked \in BOOLEAN : Create(e, asked) \/ \E a \in Addresses : Update(e, a, asked)
        \/ \E a \in Addresses : Delete(e, a)
        \/ Clear(e) \/ Write(e) \/ DeleteCommits(e) \/ EditorDies(e)

AddressesSpec == AddressesInit /\ [][AddressesNext]_addressesVars

-----------------------------------------------------------------------------
\* Rows and requests keep their shape.
AddressesTypeOK ==
    /\ address \in [Addresses -> [state : {"none", "kept", "deleted"}, default : BOOLEAN]]
    /\ \A e \in Busy : editor[e].cleared \subseteq Addresses
    /\ muddled \in BOOLEAN

\* "Exactly one default" (addresses.ts:12), as long as there is an address,
\* through creation, edits and deletions one after the other.  Requests that
\* overlap may leave two or none, and the next default that is chosen alone
\* puts that right.
ExactlyOneDefault ==
    ~muddled => Cardinality(Saved \cap Defaults) = IF Saved = {} THEN 0 ELSE 1

\* What holds of the book.
AddressesInv == AddressesTypeOK /\ ExactlyOneDefault
=============================================================================
