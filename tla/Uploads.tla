------------------------------ MODULE Uploads -------------------------------
(***************************************************************************)
(* The photos of one listing and the picture of its seller (the image      *)
(* routes of routes/seller.ts, and routes/profile.ts, over lib/storage.ts).*)
(* The bytes are in object storage and the rows name them by key: two      *)
(* stores, no transaction over both.  A key is new for each upload.        *)
(*                                                                         *)
(* An uploader is one request, and its task is the statement it runs next. *)
(* Buyers reserve, pay for and give up pieces of the listing, which moves  *)
(* its status (Reservations and Orders have the stock): a claim is a hold  *)
(* that is HELD or the order it became, until that is paid or released.    *)
(***************************************************************************)
EXTENDS Naturals, FiniteSets

CONSTANTS
    Uploaders,
    MAX_IMAGES_PER_LISTING,
    MaxUploads,     \* files uploaded (bound)
    MaxClaims       \* claims on the listing at one time (bound)

ASSUME UploadsAssumption ==
    /\ IsFiniteSet(Uploaders)
    /\ MAX_IMAGES_PER_LISTING \in Nat \ {0} /\ MaxUploads \in Nat \ {0}
    /\ MaxClaims \in Nat

VARIABLES
    stored,     \* the keys of the objects in storage
    minted,     \* how many keys were made
    photo,      \* rows of "listing_images": [key, position]
    status,     \* of the listing
    deleted,    \* its deletedAt is set
    claims,     \* how many claims buyers have on it
    avatar,     \* avatarUrl of the seller
    uploader,   \* uploader[u]: what the request read and is about to do
    raced,      \* history: two requests about photos overlapped
    bare,       \* history: a buyer's step put it on sale past the guard on its
                \* last photo, and it has had none since
    orphaned    \* history: keys that nobody was left to remove

listingVars == <<status, deleted, claims, bare>>
uploadsVars == <<stored, minted, photo, listingVars, avatar, uploader, raced, orphaned>>

Keys == 1..MaxUploads
NoKey == 0
Waiting == [task |-> "idle"]

Put == {p.key : p \in photo}
Engaged(u) == uploader[u] # Waiting
About(task) == {u \in Uploaders : uploader[u].task = task}

\* Requests that add photos, that take them away, and that publish.
PhotoTasks == {"putPhoto", "add", "drop", "publish"}
OverPhotos(u) == \E v \in Uploaders \ {u} : uploader[v].task \in PhotoTasks

ReadsFirst(u, task, key) ==
    /\ uploader[u] = Waiting
    /\ uploader' = [uploader EXCEPT ![u] =
           [task |-> task, key |-> key, old |-> avatar, onSale |-> status = "ACTIVE",
            position |-> IF photo = {} THEN 0
                         ELSE 1 + CHOOSE n \in {p.position : p \in photo} :
                                      \A p \in photo : p.position <= n]]
Proceeds(u, task) == uploader' = [uploader EXCEPT ![u].task = task]
AtRestNow(u) == uploader' = [uploader EXCEPT ![u] = Waiting]

-----------------------------------------------------------------------------
(* POST /seller/listings/:id/images                                        *)

\* The mistake is to allow one more.
RoomOrOneMore == Cardinality(photo) <= MAX_IMAGES_PER_LISTING
Room == Cardinality(photo) < MAX_IMAGES_PER_LISTING

AddPhoto(u) ==
    /\ ~deleted /\ Room
    /\ minted < MaxUploads
    /\ minted' = minted + 1
    /\ ReadsFirst(u, "putPhoto", minted + 1)
    /\ raced' = (raced \/ OverPhotos(u))
    /\ UNCHANGED <<stored, photo, listingVars, avatar, orphaned>>

\* putFile writes the object or throws, and then there is nothing else.
PutFile(u, task, next) ==
    /\ uploader[u].task = task
    /\ \/ stored' = stored \cup {uploader[u].key} /\ Proceeds(u, next)
       \/ stored' = stored /\ AtRestNow(u)
    /\ UNCHANGED <<minted, photo, listingVars, avatar, raced, orphaned>>

\* The row goes to the position after the last one that was read.
AddRow(u) ==
    /\ uploader[u].task = "add"
    /\ photo' = photo \cup {[key |-> uploader[u].key, position |-> uploader[u].position]}
    /\ bare' = FALSE
    /\ AtRestNow(u)
    /\ UNCHANGED <<stored, minted, status, deleted, claims, avatar, raced, orphaned>>

-----------------------------------------------------------------------------
(* DELETE /seller/listings/:id/images/:imageId                             *)

\* The row goes first; the mistake is to begin with the file.
FileFirst == "remove"
FirstGoes == "drop"

\* A listing on sale keeps one, and one that is RESERVED or SOLD does not; the
\* mistake is to look at no status.
MayDropAny(k) == k \in Put
MayDrop(k) == k \in Put /\ (status = "ACTIVE" => Cardinality(photo) > 1)

DropPhoto(u, k) ==
    /\ ~deleted /\ MayDrop(k)
    /\ ReadsFirst(u, FirstGoes, k)
    /\ raced' = (raced \/ OverPhotos(u))
    /\ UNCHANGED <<stored, minted, photo, listingVars, avatar, orphaned>>

\* A row another request has deleted is an error; the file is left to it.
DropRow(u) ==
    /\ uploader[u].task = "drop"
    /\ photo' = {p \in photo : p.key # uploader[u].key}
    /\ bare' = (bare \/ (status = "ACTIVE" /\ ~uploader[u].onSale /\ photo' = {}))
    /\ IF uploader[u].key \in Put THEN Proceeds(u, "remove") ELSE AtRestNow(u)
    /\ UNCHANGED <<stored, minted, status, deleted, claims, avatar, raced, orphaned>>

\* removeFile is best effort, and nobody tries again.
RemoveFile(u) ==
    LET k == uploader[u].key
    IN  /\ uploader[u].task = "remove"
        /\ \/ stored' = stored \ {k} /\ UNCHANGED orphaned
           \/ orphaned' = orphaned \cup {k} /\ UNCHANGED stored
        /\ AtRestNow(u)
        /\ UNCHANGED <<minted, photo, listingVars, avatar, raced>>

-----------------------------------------------------------------------------
(* The listing                                                             *)

Publish(u) ==
    /\ ~deleted /\ status # "SOLD" /\ photo # {}
    /\ ReadsFirst(u, "publish", NoKey)
    /\ raced' = (raced \/ OverPhotos(u))
    /\ UNCHANGED <<stored, minted, photo, listingVars, avatar, orphaned>>

Unpublish(u) ==
    /\ ~deleted /\ status # "SOLD"
    /\ ReadsFirst(u, "unpublish", NoKey)
    /\ UNCHANGED <<stored, minted, photo, listingVars, avatar, raced, orphaned>>

\* The updates have no condition: the status of a listing that was sold or
\* deleted since may be ACTIVE, and deletedAt still hides it.
Published(u) ==
    /\ \/ uploader[u].task = "publish" /\ status' = "ACTIVE"
       \/ uploader[u].task = "unpublish" /\ status' = "DRAFT"
    /\ AtRestNow(u)
    /\ UNCHANGED <<stored, minted, photo, deleted, claims, bare, avatar, raced, orphaned>>

\* By its seller, or a moderator.
DeleteListing ==
    /\ ~deleted
    /\ deleted' = TRUE
    /\ status' = "REMOVED"
    /\ UNCHANGED <<stored, minted, photo, claims, bare, avatar, uploader, raced, orphaned>>

\* restoreListing, by a moderator.
RestoreListing ==
    /\ deleted
    /\ deleted' = FALSE
    /\ status' = "DRAFT"
    /\ UNCHANGED <<stored, minted, photo, claims, bare, avatar, uploader, raced, orphaned>>

-----------------------------------------------------------------------------
(* Buyers, who look at no photo                                            *)

StatusBecomes(s) ==
    /\ status' = s
    /\ bare' = (bare \/ (s = "ACTIVE" /\ status # "ACTIVE" /\ photo = {}))
    /\ UNCHANGED <<stored, minted, photo, deleted, avatar, uploader, raced, orphaned>>

\* reserveListing: RESERVED when nothing is left, which edits of the quantity
\* may change.  A hold that has run out ends first (ClaimEnds).
Reserve ==
    /\ ~deleted /\ status \in {"ACTIVE", "RESERVED"}
    /\ claims < MaxClaims /\ claims' = claims + 1
    /\ StatusBecomes("ACTIVE") \/ StatusBecomes("RESERVED")

\* The end of a hold, and releaseOrder: on sale again, unless it was sold.
ClaimEnds ==
    /\ claims > 0 /\ claims' = claims - 1
    /\ StatusBecomes(IF status = "SOLD" THEN "SOLD" ELSE "ACTIVE")

\* markOrderPaid: SOLD when nothing is left.
ClaimPaid ==
    /\ claims > 0 /\ claims' = claims - 1
    /\ StatusBecomes(status) \/ StatusBecomes("SOLD")

-----------------------------------------------------------------------------
(* POST and DELETE /profile/avatar                                         *)

ChangeAvatar(u) ==
    /\ minted < MaxUploads
    /\ minted' = minted + 1
    /\ ReadsFirst(u, "putAvatar", minted + 1)
    /\ UNCHANGED <<stored, photo, listingVars, avatar, raced, orphaned>>

ClearAvatar(u) ==
    /\ ReadsFirst(u, "set", NoKey)
    /\ UNCHANGED <<stored, minted, photo, listingVars, avatar, raced, orphaned>>

\* The file that is removed is the one the request read, and not the one it
\* replaced: that of a change between them is nobody's.  The mistake is to
\* remove the one that is there.
ReplacedNow(u) == uploader[u].key
Replaced(u) == uploader[u].old

SetAvatar(u) ==
    /\ uploader[u].task = "set"
    /\ avatar' = uploader[u].key
    /\ orphaned' = orphaned \cup ({avatar} \ {NoKey, uploader[u].old})
    /\ uploader' = IF Replaced(u) = NoKey THEN [uploader EXCEPT ![u] = Waiting]
                   ELSE [uploader EXCEPT ![u].task = "remove", ![u].key = Replaced(u)]
    /\ UNCHANGED <<stored, minted, photo, listingVars, raced>>

-----------------------------------------------------------------------------
\* A request that dies leaves the object it has put or was to remove.
UploadDies(u) ==
    /\ Engaged(u)
    /\ AtRestNow(u)
    /\ orphaned' = IF uploader[u].task \in {"add", "set", "remove"}
                 THEN orphaned \cup ({uploader[u].key} \ {NoKey}) ELSE orphaned
    /\ UNCHANGED <<stored, minted, photo, listingVars, avatar, raced>>

UploadsInit ==
    /\ stored = {} /\ minted = 0
    /\ photo = {} /\ status = "DRAFT" /\ deleted = FALSE /\ claims = 0
    /\ avatar = NoKey
    /\ uploader = [u \in Uploaders |-> Waiting]
    /\ raced = FALSE /\ bare = FALSE /\ orphaned = {}

UploadsNext ==
    \/ \E u \in Uploaders :
        \/ AddPhoto(u) \/ PutFile(u, "putPhoto", "add") \/ AddRow(u)
        \/ \E k \in Keys : DropPhoto(u, k)
        \/ DropRow(u) \/ RemoveFile(u)
        \/ Publish(u) \/ Unpublish(u) \/ Published(u)
        \/ ChangeAvatar(u) \/ PutFile(u, "putAvatar", "set") \/ ClearAvatar(u) \/ SetAvatar(u)
        \/ UploadDies(u)
    \/ DeleteListing \/ RestoreListing
    \/ Reserve \/ ClaimEnds \/ ClaimPaid

UploadsSpec == UploadsInit /\ [][UploadsNext]_uploadsVars

-----------------------------------------------------------------------------
\* Objects, rows and requests keep their shape.
UploadsTypeOK ==
    /\ stored \subseteq Keys /\ orphaned \subseteq Keys
    /\ photo \subseteq [key : Keys, position : Nat]
    /\ status \in {"DRAFT", "ACTIVE", "RESERVED", "SOLD", "REMOVED"}
    /\ deleted \in BOOLEAN /\ claims \in 0..MaxClaims
    /\ avatar \in Keys \cup {NoKey}

\* Whatever dies, fails or overlaps, a key that a row names is in storage: no
\* page shows a broken image (profile.ts:95, and the order of the two deletes
\* at seller.ts:466-470).
EveryImageResolves == Put \subseteq stored /\ (avatar # NoKey => avatar \in stored)

\* An object that no row names belongs to a request under way, unless a
\* request died, a removal failed or two changed the picture at once.
NoOrphans ==
    \A k \in stored \ (Put \cup {avatar} \cup orphaned) :
        \E u \in Uploaders : Engaged(u) /\ uploader[u].key = k

\* The count is read before the photo is added, so that each request under
\* way beside the last one may pass the limit by one.
PhotosBounded == Cardinality(photo) < MAX_IMAGES_PER_LISTING + Cardinality(Uploaders)

\* Unless two requests about photos overlapped, photos have places of their
\* own, the limit holds, and "a published listing needs at least one photo"
\* (seller.ts:461).  The exception the code has: the guard lets the last photo
\* of a listing go that is RESERVED, SOLD or a draft with a claim on it, and
\* the end of a claim puts it on sale all the same (reservations.ts:264).
PhotosInOrder ==
    ~raced => /\ status = "ACTIVE" => photo # {} \/ bare
              /\ \A p, q \in photo : p.position = q.position => p = q
              /\ Cardinality(photo) <= MAX_IMAGES_PER_LISTING

\* What holds of pictures.
UploadsInv ==
    UploadsTypeOK /\ EveryImageResolves /\ NoOrphans /\ PhotosBounded /\ PhotosInOrder
=============================================================================
