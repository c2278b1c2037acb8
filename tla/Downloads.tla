----------------------------- MODULE Downloads -----------------------------
(***************************************************************************)
(* What a user is shown and served of the photos: ListCompetitionPhotos    *)
(* and GetPhotoByID, which tell whether the original may be downloaded,    *)
(* and the downloads, which open one variant of every photo and send the   *)
(* files alone or in a zip.                                                *)
(*                                                                         *)
(* The photo, the competition, the grant, the clock and the version are    *)
(* read one after the other while grants, organizers and photos change     *)
(* (see Access).  A name is the sequence of its stem and of what is added  *)
(* to it, the extension aside: 0 for "_watermarked", n for "-n".           *)
(***************************************************************************)
EXTENDS Access, Sequences, FiniteSets

CONSTANTS
  Downloaders,   \* one call on photos each
  Photos,
  Home, Author,  \* the competition and the author of each photo
  NameOf,        \* original_filename of each photo
  Gets,          \* what the downloaders may ask for: see Wanted
  MaxCalls,      \* bound on the calls that are begun
  MaxDeleted     \* bound on the photos that are deleted

\* "one" is GetPhotoByID, "list" ListCompetitionPhotos, "download" either download.
Wanted == [op : {"one", "list", "download"}, actor : Users, comp : Competitions \cup {None},
           photos : Seq(Photos)]

ASSUME PhotosAssumption ==
  /\ Home \in [Photos -> Competitions] /\ Author \in [Photos -> Users]
  /\ NameOf \in [Photos -> Seq(Nat)]
ASSUME WantedAssumption ==
  /\ MaxCalls \in Nat /\ MaxDeleted \in Nat
  /\ \A q \in Gets : /\ q \in Wanted
                     /\ q.op = "one" => Len(q.photos) = 1
                     /\ q.op = "list" => q.photos = <<>> /\ q.comp \in Competitions

VARIABLES
  deleted,       \* the photos with deleted_at
  get,           \* the calls of the downloaders
  since          \* (observation) see Observe

vars == <<accessVars, deleted, get, since>>

-----------------------------------------------------------------------------
GetOver == {"start", "done", "error"}
GoOn(d, pc) == get' = [get EXCEPT ![d].pc = pc]
\* Every reader that has been opened is closed on the way out.
End(d, pc) == get' = [get EXCEPT ![d] = [@ EXCEPT !.pc = pc, !.open = {}]]

\* OpenBatchDownloads refuses an empty list.
BeginGet(d) ==
  /\ get[d].pc = "start"
  /\ \E q \in Gets :
       get' = [get EXCEPT ![d] = [@ EXCEPT !.asked = q, !.todo = q.photos,
                 !.pc = CASE q.op = "list" -> "list"
                             [] q.op # "list" /\ q.photos = <<>> -> "error"
                             [] OTHER -> "photo"]]
  /\ UNCHANGED <<accessVars, deleted>>

\* ListPhotos leaves the deleted photos out; without photos hydratePhotos is done.
ListPhotos(d) ==
  LET found == {p \in Photos \ deleted : Home[p] = get[d].asked.comp} IN
  /\ get[d].pc = "list"
  /\ \E o \in Outcome :
       IF Errs(o) THEN GoOn(d, "error")
       ELSE get' = [get EXCEPT ![d] = [@ EXCEPT !.items = found,
                               !.pc = IF found = {} THEN "done" ELSE "organizer"]]
  /\ UNCHANGED <<accessVars, deleted>>

\* Mutation: deleted_at is not looked at.
GetAnyPhoto(d) ==
  /\ get[d].pc = "photo"
  /\ get' = [get EXCEPT ![d] = [@ EXCEPT !.items = {Head(get[d].todo)}, !.todo = Tail(get[d].todo),
                        !.pc = "organizer"]]
  /\ UNCHANGED <<accessVars, deleted>>

\* GetPhotoAccessInfo of the next photo (or GetPhotoByID).
GetPhoto(d) ==
  LET p == Head(get[d].todo) IN
  /\ get[d].pc = "photo"
  /\ \E o \in Outcome :
       IF Errs(o) \/ p \in deleted THEN End(d, "error")
       ELSE get' = [get EXCEPT ![d] = [@ EXCEPT !.items = {p}, !.todo = Tail(get[d].todo),
                               !.pc = "organizer"]]
  /\ UNCHANGED <<accessVars, deleted>>

\* The competition of the photos at hand.
CompOf(d) == Home[CHOOSE p \in get[d].items : TRUE]

Decided(d, can) == get' = [get EXCEPT ![d] = [@ EXCEPT !.can = can, !.pc = "decided"]]

\* CanDownloadOriginal: the organizer, then the grant, then the clock.
ReadCompetition(d) ==
  /\ get[d].pc = "organizer"
  /\ \E o \in Outcome :
       CASE Errs(o) -> End(d, "error")
         [] ~Errs(o) /\ Manages(get[d].asked.actor, organizer[CompOf(d)]) -> Decided(d, TRUE)
         [] OTHER -> GoOn(d, "grant")
  /\ UNCHANGED <<accessVars, deleted>>

ReadOwnGrant(d) ==
  LET own == GrantOf(grants, CompOf(d), get[d].asked.actor) IN
  /\ get[d].pc = "grant"
  /\ \E o \in Outcome :
       \/ Errs(o) /\ End(d, "error")
       \/ ~Errs(o) /\ own = {} /\ Decided(d, FALSE)
       \/ ~Errs(o) /\ \E g \in own :
            get' = [get EXCEPT ![d] = [@ EXCEPT !.row = g, !.pc = "clock"]]
  /\ UNCHANGED <<accessVars, deleted>>

\* Mutation: the expiry is not looked at.
IsActiveForEver(g, t) == TRUE

\* Mutation: a grant is no longer good at the moment it expires.
IsActiveBefore(g, t) == g.expires = None \/ t < g.expires

\* isGrantActive; a grant is still good at the very moment it expires.
IsActive(g, t) == g.expires = None \/ t <= g.expires

ReadClock(d) ==
  /\ get[d].pc = "clock"
  /\ Decided(d, get[d].row.original /\ IsActive(get[d].row, now))
  /\ UNCHANGED <<accessVars, deleted>>

-----------------------------------------------------------------------------
\* The author of a photo may always have its original.
MayHave(d, p) == get[d].can \/ Author[p] = get[d].asked.actor

\* What GetPhotoByID and ListCompetitionPhotos answer of each photo.
Answer(d) ==
  /\ get[d].pc = "decided" /\ get[d].asked.op # "download"
  /\ get' = [get EXCEPT ![d] = [@ EXCEPT !.pc = "done",
       !.shown = {[photo |-> p, original |-> MayHave(d, p)] : p \in get[d].items}]]
  /\ UNCHANGED <<accessVars, deleted>>

\* Mutation: the readers opened so far are left open.
OpenOrLeave(d) ==
  /\ get[d].pc = "decided" /\ get[d].asked.op = "download"
  /\ \E o \in Outcome, p \in get[d].items :
       LET n == Len(get[d].files) + 1 IN
       IF Errs(o) THEN GoOn(d, "error")
       ELSE get' = [get EXCEPT ![d] = [@ EXCEPT
              !.files = Append(get[d].files,
                          [photo |-> p, original |-> MayHave(d, p), name |-> NameOf[p]]),
              !.open = get[d].open \cup {n},
              !.pc = IF get[d].todo = <<>> THEN "send" ELSE "photo"]]
  /\ UNCHANGED <<accessVars, deleted>>

\* GetPhotoVersionByVariant and OpenObject.
OpenVersion(d) ==
  /\ get[d].pc = "decided" /\ get[d].asked.op = "download"
  /\ \E o \in Outcome, p \in get[d].items :
       IF Errs(o) THEN End(d, "error")
       ELSE get' = [get EXCEPT ![d] = [@ EXCEPT
              !.files = Append(get[d].files, [photo |-> p, original |-> MayHave(d, p),
                             name |-> IF MayHave(d, p) THEN NameOf[p] ELSE Append(NameOf[p], 0)]),
              !.open = get[d].open \cup {Len(get[d].files) + 1},
              !.pc = IF get[d].todo = <<>> THEN "send" ELSE "photo"]]
  /\ UNCHANGED <<accessVars, deleted>>

\* DownloadPhoto, and DownloadPhotos with one file.
SendFile(d) ==
  /\ get[d].pc = "send" /\ Len(get[d].files) = 1
  /\ End(d, "done")
  /\ UNCHANGED <<accessVars, deleted>>

\* Mutation: the number counts the files before, not the file itself.
NumberedFromOne(files, j) ==
  LET n == Cardinality({i \in 1..(j - 1) : files[i].name = files[j].name}) IN
  IF n = 0 THEN files[j].name ELSE Append(files[j].name, 2)

\* The name the file j gets in the zip: from the second file of a name on, the
\* name with the number of the files that have had it (uniqueZipName).
UniqueZipName(files, j) ==
  LET n == Cardinality({i \in 1..j : files[i].name = files[j].name}) IN
  IF n = 1 THEN files[j].name ELSE Append(files[j].name, n)

\* One file more in the zip; when the client does not take it, the rest is left out.
ZipFile(d) ==
  /\ get[d].pc = "send" /\ Len(get[d].files) > 1
  /\ \/ End(d, "done")
     \/ LET j == get[d].sent + 1 IN
        get' = [get EXCEPT ![d] = [@ EXCEPT !.sent = j, !.open = get[d].open \ {j},
                  !.pc = IF j = Len(get[d].files) THEN "done" ELSE "send"]]
  /\ UNCHANGED <<accessVars, deleted>>

GetStep(d) ==
  \/ ListPhotos(d) \/ GetPhoto(d) \/ ReadCompetition(d) \/ ReadOwnGrant(d) \/ ReadClock(d)
  \/ Answer(d) \/ OpenVersion(d) \/ SendFile(d) \/ ZipFile(d)

\* DeletePhoto (see PhotoRecord).
SoftDelete(p) ==
  /\ p \notin deleted /\ Cardinality(deleted) < MaxDeleted
  /\ deleted' = deleted \cup {p}
  /\ UNCHANGED <<accessVars, get>>

-----------------------------------------------------------------------------
\* Whether u is entitled to the originals of k, for given organizers, grants and time.
Entitled(u, k, org, rows, t) ==
  \/ Manages(u, org[k])
  \/ \E g \in GrantOf(rows, k, u) : g.original /\ (g.expires = None \/ t <= g.expires)

\* What has been so at some moment since the call of d began: which photos were
\* deleted already, whether its actor was entitled or was not, and for which
\* competitions the organizer or the grant of the actor has been written.
Fresh == [deleted |-> {}, held |-> {}, changed |-> {}]
HeldNow(u) == {<<k, Entitled(u, k, organizer', grants', now')>> : k \in Competitions}
ChangedNow(u) == {k \in Competitions : \/ organizer'[k] # organizer[k]
                                       \/ GrantOf(grants', k, u) # GrantOf(grants, k, u)}
Observed(d) ==
  LET u == get'[d].asked.actor IN
  CASE get'[d].pc = "start" \/ get[d].pc \in {"done", "error"} -> since[d]
    [] get'[d].pc # "start" /\ get[d].pc = "start" ->
         [deleted |-> deleted, held |-> HeldNow(u), changed |-> {}]
    [] OTHER -> [since[d] EXCEPT !.held = @ \cup HeldNow(u), !.changed = @ \cup ChangedNow(u)]
Observe == since' = [d \in Downloaders |-> Observed(d)]

Idle == [pc |-> "start", asked |-> None, todo |-> <<>>, items |-> {}, row |-> None,
         can |-> FALSE, files |-> <<>>, open |-> {}, sent |-> 0, shown |-> {}]

Init ==
  /\ AccessInit
  /\ deleted = {}
  /\ get = [d \in Downloaders |-> Idle]
  /\ since = [d \in Downloaders |-> Fresh]

InBounds ==
  Cardinality({c \in Clients : call'[c].pc # "start"})
    + Cardinality({d \in Downloaders : get'[d].pc # "start"}) <= MaxCalls

Next ==
  /\ \/ AccessStep /\ UNCHANGED <<deleted, get>>
     \/ \E d \in Downloaders : BeginGet(d) \/ GetStep(d)
     \/ \E p \in Photos : SoftDelete(p)
  /\ InBounds
  /\ Observe

Spec == Init /\ [][Next]_vars
=============================================================================
